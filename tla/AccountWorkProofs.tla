-------------------------- MODULE AccountWorkProofs --------------------------
(***************************************************************************)
(* What holds of the account tasks for any number of accounts, workers,    *)
(* API calls and faults: the types, the end every cooldown has, and what   *)
(* the two leases keep apart.                                              *)
(***************************************************************************)
EXTENDS AccountWork, FiniteSetTheorems, TLAPS

AccOK == acc \in [Accounts -> Rows]

RunOK ==
    /\ run \in [Workers -> Runs]
    /\ \A w \in Workers : IF run[w].task = None THEN run[w].phase = "idle"
                          ELSE run[w].acc \in Accounts

LeaseOK == vlease \in [Accounts -> Leases] /\ wlease \in [Accounts -> Leases]

EnvOK ==
    /\ queue \subseteq {"verify", "health", "warm"} \X Accounts
    /\ sweep \in [Accounts -> {None, "active", "warming"}]
    /\ calls \in 0..Calls
    /\ faults \subseteq Faults

Writers == {"warmup", "activate", "disconnect", "live"}

\* A request that has read is one of those that write, and a warmup has seen
\* an account that may be warmed.
CallOK ==
    /\ call \in [op : AllOperations \cup {None}, acc : Accounts \cup {None}, seen : Rows]
    /\ call # NoCall => /\ call.acc \in Accounts
                        /\ call.op \in Writers
                        /\ call.op = "warmup" => call.seen.status \in {"verified", "active"}

Types == AccOK /\ RunOK /\ LeaseOK /\ EnvOK /\ CallOK

Lease(w) == [holder |-> w, over |-> FALSE]

Probing(w) == run[w].task = "verify" /\ run[w].phase \in {"probe", "flooded"}

\* Until the verdict, a run has the lease, unless a soft limit has struck late.
VerifyHeld ==
    "lag" \notin faults =>
        \A w \in Workers : Probing(w) => vlease[run[w].acc] = Lease(w)

\* Until a cycle outlives its soft limit, a run has the lease to its end.
WarmHeld ==
    "swallow" \notin faults =>
        \A w \in Workers : /\ ~run[w].late
                           /\ run[w].task = "warm" => wlease[run[w].acc] = Lease(w)

IInv == Types /\ CooldownHasEnd /\ VerifyHeld /\ WarmHeld

-----------------------------------------------------------------------------
(* Rows.                                                                   *)

Columns == {"status", "session", "until", "day", "flood", "rest"}

LEMMA RowColumns ==
    ASSUME NEW r \in Rows
    PROVE  DOMAIN r = Columns
BY DEF Rows, Columns

\* A row is the function of its columns.
LEMMA RowMade ==
    ASSUME NEW r, r = [c \in Columns |-> r[c]],
           r.status \in Statuses, r.session \in BOOLEAN, r.until \in Stamps,
           r.day \in 0..MaxDay, r.flood \in BOOLEAN, r.rest \in Stamps
    PROVE  r \in Rows
<1>1. r = [status |-> r.status, session |-> r.session, until |-> r.until,
           day |-> r.day, flood |-> r.flood, rest |-> r.rest]
    BY DEF Columns
<1>. QED  BY <1>1 DEF Rows

LEMMA NewRowTyped == NewRow \in Rows
BY AccountAssumption DEF NewRow, Rows, Statuses, Stamps

LEMMA RememberedTyped ==
    ASSUME NEW r \in Rows, NEW C
    PROVE  /\ Remembered(r, C) \in Rows
           /\ "status" \in C => Remembered(r, C).status = r.status
<1>1. DOMAIN r = Columns
    BY RowColumns
<1>2. PICK m : m = Remembered(r, C)
    OBVIOUS
<1>3. m = [c \in Columns |-> IF c \in C THEN r[c] ELSE NewRow[c]]
    BY <1>1, <1>2 DEF Remembered
<1>4. \A c \in Columns : m[c] \in {r[c], NewRow[c]}
    BY <1>3
<1>5. /\ m.status \in Statuses /\ m.session \in BOOLEAN /\ m.until \in Stamps
      /\ m.day \in 0..MaxDay /\ m.flood \in BOOLEAN /\ m.rest \in Stamps
    BY <1>4, NewRowTyped DEF Columns, Rows
<1>6. m \in Rows
    BY <1>3, <1>5, RowMade
<1>7. "status" \in C => m.status = r.status
    BY <1>3 DEF Columns
<1>. QED  BY <1>2, <1>6, <1>7

\* What a commit makes of a row.
LEMMA WrittenTyped ==
    ASSUME NEW cur \in Rows, NEW seen \in Rows, NEW new \in Rows, NEW r,
           r = [c \in DOMAIN cur |-> Written(cur[c], seen[c], new[c])]
    PROVE  /\ r \in Rows
           /\ r.status = Written(cur.status, seen.status, new.status)
           /\ r.until = Written(cur.until, seen.until, new.until)
<1>1. DOMAIN cur = Columns
    BY RowColumns
<1>2. r = [c \in Columns |-> Written(cur[c], seen[c], new[c])]
    BY <1>1
<1>3. \A c \in Columns : r[c] = Written(cur[c], seen[c], new[c])
    BY <1>2
<1>4. \A c \in Columns : r[c] \in {cur[c], new[c]}
    BY <1>3 DEF Written
<1>5. /\ r.status \in Statuses /\ r.session \in BOOLEAN /\ r.until \in Stamps
      /\ r.day \in 0..MaxDay /\ r.flood \in BOOLEAN /\ r.rest \in Stamps
    BY <1>4 DEF Columns, Rows
<1>6. r = [c \in Columns |-> r[c]]
    BY <1>2
<1>7. r \in Rows
    BY <1>5, <1>6, RowMade
<1>. QED  BY <1>3, <1>7 DEF Columns

-----------------------------------------------------------------------------
(* Commits.                                                                *)

\* One row is set to something that is a row and, on cooldown, has an end of it.
LEMMA RowSet ==
    ASSUME AccOK, CooldownHasEnd, NEW a \in Accounts, NEW r \in Rows,
           r.status = "cooldown" => r.until # "null",
           acc' = [acc EXCEPT ![a] = r]
    PROVE  AccOK' /\ CooldownHasEnd'
BY DEF AccOK, CooldownHasEnd

\* A commit that leaves cooldown_until alone and brings no new cooldown.
LEMMA CommitKeeps ==
    ASSUME IInv, NEW w \in Workers, run[w].task # None, NEW new \in Rows,
           new.until = run[w].seen.until,
           new.status = "cooldown" => run[w].seen.status = "cooldown",
           Commit(w, new)
    PROVE  AccOK' /\ CooldownHasEnd'
<1>1. PICK a : a = run[w].acc
    OBVIOUS
<1>2. PICK seen : seen = run[w].seen
    OBVIOUS
<1>3. PICK cur : cur = acc[a]
    OBVIOUS
<1>4. a \in Accounts /\ seen \in Rows /\ cur \in Rows
    BY <1>1, <1>2, <1>3 DEF IInv, Types, AccOK, RunOK, Runs
<1>5. PICK r : r = [c \in DOMAIN cur |-> Written(cur[c], seen[c], new[c])]
    OBVIOUS
<1>6. /\ r \in Rows
      /\ r.status = Written(cur.status, seen.status, new.status)
      /\ r.until = Written(cur.until, seen.until, new.until)
    BY <1>4, <1>5, WrittenTyped
<1>7. acc' = [acc EXCEPT ![a] = r]
    BY <1>1, <1>2, <1>3, <1>5 DEF Commit
<1>8. cur.status = "cooldown" => cur.until # "null"
    BY <1>3, <1>4 DEF IInv, CooldownHasEnd
<1>9. r.status = "cooldown" => r.until # "null"
    BY <1>2, <1>6, <1>8 DEF Written
<1>. QED  BY <1>4, <1>6, <1>7, <1>9, RowSet DEF IInv, Types

\* A commit that puts the account on cooldown.
LEMMA CooldownKeeps ==
    ASSUME IInv, NEW w \in Workers, run[w].task # None, NEW new \in Rows,
           CommitCooldown(w, new)
    PROVE  AccOK' /\ CooldownHasEnd'
<1>1. PICK a : a = run[w].acc
    OBVIOUS
<1>2. PICK seen : seen = run[w].seen
    OBVIOUS
<1>3. PICK cur : cur = acc[a]
    OBVIOUS
<1>4. a \in Accounts /\ seen \in Rows /\ cur \in Rows
    BY <1>1, <1>2, <1>3 DEF IInv, Types, AccOK, RunOK, Runs
<1>5. PICK cold : cold = Cooled(new)
    OBVIOUS
<1>6. cold \in Rows
    BY <1>5 DEF Cooled, Rows, Statuses, Stamps
<1>7. PICK r : r = [c \in DOMAIN cur |-> Written(cur[c], seen[c], cold[c])]
    OBVIOUS
<1>8. r \in Rows
    BY <1>4, <1>6, <1>7, WrittenTyped
<1>9. PICK s : s = [r EXCEPT !.until = "ahead"]
    OBVIOUS
<1>10. s \in Rows /\ s.until = "ahead"
    BY <1>8, <1>9 DEF Rows, Stamps
<1>11. acc' = [acc EXCEPT ![a] = s]
    BY <1>1, <1>2, <1>3, <1>5, <1>7, <1>9 DEF CommitCooldown
<1>. QED  BY <1>4, <1>10, <1>11, RowSet DEF IInv, Types

-----------------------------------------------------------------------------
(* The rows and their cooldowns, action by action.                         *)

\* What a running task remembers is a row of a known account.
LEMMA SeenTyped ==
    ASSUME IInv, NEW w \in Workers
    PROVE  run[w].seen \in Rows
BY DEF IInv, Types, RunOK, Runs

LEMMA TaskTyped ==
    ASSUME IInv, NEW w \in Workers, run[w].task \in {"verify", "health", "warm"}
    PROVE  run[w].task # None /\ run[w].acc \in Accounts /\ acc[run[w].acc] \in Rows
BY AccountAssumption DEF IInv, Types, RunOK, AccOK

LEMMA VerifyEndsAcc ==
    ASSUME IInv, NEW w \in Workers, VerifyEnds(w)
    PROVE  AccOK' /\ CooldownHasEnd'
<1>1. run[w].task # None
    BY TaskTyped DEF VerifyEnds, At
<1>2. PICK seen : seen = run[w].seen
    OBVIOUS
<1>3. seen \in Rows
    BY <1>2, SeenTyped
<1>4. PICK s \in {"verified", "password_required", "banned", "error"} :
         \/ Commit(w, [seen EXCEPT !.status = s])
         \/ Commit(w, [seen EXCEPT !.status = s, !.session = FALSE])
    BY <1>2 DEF VerifyEnds
<1>5. /\ [seen EXCEPT !.status = s] \in Rows
      /\ [seen EXCEPT !.status = s].until = seen.until
      /\ [seen EXCEPT !.status = s].status = s
    BY <1>3 DEF Rows, Statuses
<1>6. /\ [seen EXCEPT !.status = s, !.session = FALSE] \in Rows
      /\ [seen EXCEPT !.status = s, !.session = FALSE].until = seen.until
      /\ [seen EXCEPT !.status = s, !.session = FALSE].status = s
    BY <1>3 DEF Rows, Statuses
<1>7. CASE Commit(w, [seen EXCEPT !.status = s])
    BY <1>1, <1>2, <1>5, <1>7, CommitKeeps
<1>8. CASE Commit(w, [seen EXCEPT !.status = s, !.session = FALSE])
    BY <1>1, <1>2, <1>6, <1>8, CommitKeeps
<1>. QED  BY <1>4, <1>7, <1>8

LEMMA VerifyFloodedAcc ==
    ASSUME IInv, NEW w \in Workers, VerifyFlooded(w)
    PROVE  AccOK' /\ CooldownHasEnd'
BY TaskTyped, SeenTyped, CooldownKeeps DEF VerifyFlooded, At

LEMMA VerifyTimesOutAcc ==
    ASSUME IInv, NEW w \in Workers, VerifyTimesOut(w)
    PROVE  AccOK' /\ CooldownHasEnd'
<1>1. PICK a : a = run[w].acc
    OBVIOUS
<1>2. a \in Accounts /\ acc[a] \in Rows
    BY <1>1, TaskTyped DEF VerifyTimesOut, At
<1>3. PICK r : r = [acc[a] EXCEPT !.status = "error"]
    OBVIOUS
<1>4. r \in Rows /\ r.status = "error"
    BY <1>2, <1>3 DEF Rows, Statuses
<1>5. acc' = [acc EXCEPT ![a] = r]
    BY <1>1, <1>3 DEF VerifyTimesOut
<1>. QED  BY <1>2, <1>4, <1>5, RowSet DEF IInv, Types

LEMMA HealthAcc ==
    ASSUME IInv, NEW w \in Workers, HealthEnds(w) \/ HealthFails(w)
    PROVE  AccOK' /\ CooldownHasEnd'
<1>1. run[w].task # None
    BY TaskTyped DEF HealthEnds, HealthFails, At
<1>2. PICK seen : seen = run[w].seen
    OBVIOUS
<1>3. seen \in Rows
    BY <1>2, SeenTyped
<1>4. \/ UNCHANGED acc
      \/ CommitCooldown(w, seen)
      \/ \E s \in {"active", "error"} : Commit(w, [seen EXCEPT !.status = s])
    BY <1>2 DEF HealthEnds, HealthFails
<1>5. CASE UNCHANGED acc
    BY <1>5 DEF IInv, Types, AccOK, CooldownHasEnd
<1>6. CASE CommitCooldown(w, seen)
    BY <1>1, <1>3, <1>6, CooldownKeeps
<1>7. ASSUME NEW s \in {"active", "error"}, Commit(w, [seen EXCEPT !.status = s])
      PROVE  AccOK' /\ CooldownHasEnd'
    <2>1. /\ [seen EXCEPT !.status = s] \in Rows
          /\ [seen EXCEPT !.status = s].until = seen.until
          /\ [seen EXCEPT !.status = s].status = s
        BY <1>3 DEF Rows, Statuses
    <2>. QED  BY <1>1, <1>2, <1>7, <2>1, CommitKeeps
<1>. QED  BY <1>4, <1>5, <1>6, <1>7

LEMMA CycleLoadsAcc ==
    ASSUME IInv, NEW w \in Workers, CycleLoads(w)
    PROVE  AccOK' /\ CooldownHasEnd'
<1>1. PICK a : a = run[w].acc
    OBVIOUS
<1>2. a \in Accounts /\ acc[a] \in Rows
    BY <1>1, TaskTyped DEF CycleLoads, At
<1>3. PICK row : row = [acc[a] EXCEPT !.day = Larger(1, @)]
    OBVIOUS
<1>4. Larger(1, acc[a].day) \in 0..MaxDay
    BY <1>2, AccountAssumption DEF Larger, Rows
<1>5. row \in Rows
    BY <1>2, <1>3, <1>4 DEF Rows
<1>6. row.status = "warming"
    BY <1>1, <1>3 DEF CycleLoads
<1>7. PICK cold : cold = Cooled(row)
    OBVIOUS
<1>8. cold \in Rows /\ cold.until = "ahead"
    BY <1>5, <1>7 DEF Cooled, Rows, Statuses, Stamps
<1>9. acc' = [acc EXCEPT ![a] = row] \/ acc' = [acc EXCEPT ![a] = cold]
    BY <1>1, <1>3, <1>7 DEF CycleLoads
<1>. QED  BY <1>2, <1>5, <1>6, <1>8, <1>9, RowSet DEF IInv, Types

\* The end of a day, a FloodWait and a failure of a cycle.
LEMMA CycleAcc ==
    ASSUME IInv, NEW w \in Workers, CycleDone(w) \/ CycleFlooded(w) \/ CycleFails(w)
    PROVE  AccOK' /\ CooldownHasEnd'
<1>1. run[w].task # None
    BY TaskTyped DEF CycleDone, CycleFlooded, CycleFails, At
<1>2. PICK seen : seen = run[w].seen
    OBVIOUS
<1>3. seen \in Rows /\ seen.day \in 0..MaxDay
    BY <1>2, SeenTyped DEF Rows
<1>4. CASE CycleDone(w)
    <2>1. PICK next : next = [seen EXCEPT !.day = @ + 1]
        OBVIOUS
    <2>2. seen.day + 1 \in 0..MaxDay
        BY <1>2, <1>3, <1>4, AccountAssumption DEF CycleDone
    <2>3. next \in Rows /\ next.until = seen.until /\ next.status = seen.status
        BY <1>3, <2>1, <2>2 DEF Rows
    <2>4. PICK won : won = [next EXCEPT !.status = "active"]
        OBVIOUS
    <2>5. won \in Rows /\ won.until = seen.until /\ won.status = "active"
        BY <2>3, <2>4 DEF Rows, Statuses
    <2>6. Commit(w, next) \/ Commit(w, won) \/ CommitCooldown(w, next)
        BY <1>2, <1>4, <2>1, <2>4 DEF CycleDone
    <2>7. CASE Commit(w, next)
        BY <1>1, <1>2, <2>3, <2>7, CommitKeeps
    <2>8. CASE Commit(w, won)
        BY <1>1, <1>2, <2>5, <2>8, CommitKeeps
    <2>9. CASE CommitCooldown(w, next)
        BY <1>1, <2>3, <2>9, CooldownKeeps
    <2>. QED  BY <2>6, <2>7, <2>8, <2>9
<1>5. CASE CycleFlooded(w)
    <2>1. Larger(1, seen.day - Setback) \in 0..MaxDay
        BY <1>3, AccountAssumption DEF Larger
    <2>2. PICK d : d = Larger(1, seen.day - Setback)
        OBVIOUS
    <2>3. PICK new : new = [seen EXCEPT !.flood = TRUE, !.day = d]
        OBVIOUS
    <2>4. new \in Rows
        BY <1>3, <2>1, <2>2, <2>3 DEF Rows
    <2>5. CommitCooldown(w, new)
        BY <1>2, <1>5, <2>2, <2>3 DEF CycleFlooded
    <2>. QED  BY <1>1, <2>4, <2>5, CooldownKeeps
<1>6. CASE CycleFails(w)
    <2>1. PICK new : new = [seen EXCEPT !.status = "banned"]
        OBVIOUS
    <2>2. new \in Rows /\ new.until = seen.until /\ new.status = "banned"
        BY <1>3, <2>1 DEF Rows, Statuses
    <2>3. Commit(w, new) \/ CommitCooldown(w, seen)
        BY <1>2, <1>6, <2>1 DEF CycleFails
    <2>. QED  BY <1>1, <1>2, <1>3, <2>2, <2>3, CommitKeeps, CooldownKeeps
<1>. QED  BY <1>4, <1>5, <1>6

LEMMA WarmTimesOutAcc ==
    ASSUME IInv, NEW w \in Workers, WarmTimesOut(w)
    PROVE  AccOK' /\ CooldownHasEnd'
<1>1. PICK a : a = run[w].acc
    OBVIOUS
<1>2. a \in Accounts /\ acc[a] \in Rows
    BY <1>1, TaskTyped DEF WarmTimesOut, At
<1>3. PICK r : r = Cooled(acc[a])
    OBVIOUS
<1>4. r \in Rows /\ r.until = "ahead"
    BY <1>2, <1>3 DEF Cooled, Rows, Statuses, Stamps
<1>5. acc' = [acc EXCEPT ![a] = r]
    BY <1>1, <1>3 DEF WarmTimesOut
<1>. QED  BY <1>2, <1>4, <1>5, RowSet DEF IInv, Types

LEMMA BeatAcc ==
    ASSUME IInv, Beat
    PROVE  AccOK' /\ CooldownHasEnd'
<1>1. CASE ResumeWarming
    <2>1. \A a \in Accounts :
             acc'[a] = IF a \in Resumable THEN [acc[a] EXCEPT !.day = Larger(1, @)] ELSE acc[a]
        BY <1>1 DEF ResumeWarming
    <2>2. acc' = [a \in Accounts |-> acc'[a]]
        BY <1>1 DEF ResumeWarming
    <2>3. ASSUME NEW a \in Accounts
          PROVE  /\ acc'[a] \in Rows
                 /\ acc'[a].status = acc[a].status /\ acc'[a].until = acc[a].until
        <3>1. acc[a] \in Rows
            BY DEF IInv, Types, AccOK
        <3>2. Larger(1, acc[a].day) \in 0..MaxDay
            BY <3>1, AccountAssumption DEF Larger, Rows
        <3>. QED  BY <2>1, <3>1, <3>2 DEF Rows
    <2>4. AccOK'
        BY <2>2, <2>3 DEF AccOK
    <2>5. CooldownHasEnd'
        BY <2>3 DEF IInv, CooldownHasEnd
    <2>. QED  BY <2>4, <2>5
<1>2. CASE SweepReads
    BY <1>2 DEF SweepReads, IInv, Types, AccOK, CooldownHasEnd
<1>3. CASE SweepCommits
    <2>1. \A a \in Accounts :
             acc'[a] = IF sweep[a] = None THEN acc[a]
                       ELSE [acc[a] EXCEPT !.status = sweep[a], !.until = "null"]
        BY <1>3 DEF SweepCommits
    <2>2. acc' = [a \in Accounts |-> acc'[a]]
        BY <1>3 DEF SweepCommits
    <2>3. ASSUME NEW a \in Accounts
          PROVE  /\ acc'[a] \in Rows
                 /\ acc'[a] = acc[a] \/ acc'[a].status # "cooldown"
        <3>1. acc[a] \in Rows /\ sweep[a] \in {None, "active", "warming"}
            BY DEF IInv, Types, AccOK, EnvOK
        <3>. QED  BY <2>1, <3>1 DEF Rows, Statuses, Stamps
    <2>4. AccOK'
        BY <2>2, <2>3 DEF AccOK
    <2>5. CooldownHasEnd'
        BY <2>3 DEF IInv, CooldownHasEnd
    <2>. QED  BY <2>4, <2>5
<1>. QED  BY <1>1, <1>2, <1>3 DEF Beat

LEMMA FinishAcc ==
    ASSUME IInv, Finish
    PROVE  AccOK' /\ CooldownHasEnd'
<1>1. PICK a : a = call.acc
    OBVIOUS
<1>2. PICK op : op = call.op
    OBVIOUS
<1>3. PICK seen : seen = call.seen
    OBVIOUS
<1>4. PICK cur : cur = acc[a]
    OBVIOUS
<1>5. /\ a \in Accounts /\ op \in Writers /\ seen \in Rows /\ cur \in Rows
      /\ op = "warmup" => seen.status \in {"verified", "active"}
    BY <1>1, <1>2, <1>3, <1>4 DEF Finish, IInv, Types, CallOK, AccOK
<1>6. PICK new \in Results(op, seen) :
         acc' = [acc EXCEPT ![a] =
            [c \in DOMAIN cur |-> IF c = "rest" THEN IF op = "warmup" THEN "ahead" ELSE cur[c]
                                  ELSE Written(cur[c], seen[c], new[c])]]
    <2>1. PICK new \in Results(call.op, call.seen) :
             acc' = [acc EXCEPT ![call.acc] =
                [c \in DOMAIN acc[call.acc] |->
                   IF c = "rest" THEN IF call.op = "warmup" THEN "ahead" ELSE acc[call.acc][c]
                   ELSE Written(acc[call.acc][c], call.seen[c], new[c])]]
        BY DEF Finish
    <2>. QED  BY <1>1, <1>2, <1>3, <1>4, <2>1
<1>7. /\ new \in Rows
      /\ op = "warmup" => new.status = "warming"
      /\ op # "warmup" => /\ new.until = seen.until
                          /\ new.status = "cooldown" => seen.status = "cooldown"
    <2>1. CASE op = "warmup"
        <3>1. new = [seen EXCEPT !.status = "warming", !.day = 0, !.until = "null",
                                 !.flood = FALSE, !.rest = "ahead"]
            BY <1>6, <2>1 DEF Results
        <3>2. 0 \in 0..MaxDay
            BY AccountAssumption
        <3>3. new \in Rows
            BY <1>5, <3>1, <3>2 DEF Rows, Statuses, Stamps
        <3>4. new.status = "warming"
            BY <1>5, <3>1 DEF Rows
        <3>. QED  BY <2>1, <3>3, <3>4
    <2>2. CASE op = "activate"
        <3>1. new = [seen EXCEPT !.status = "active"]
            BY <1>6, <2>2 DEF Results
        <3>. QED  BY <1>5, <2>2, <3>1 DEF Rows, Statuses
    <2>3. CASE op = "disconnect"
        <3>1. new = [seen EXCEPT !.status = "disconnected", !.session = FALSE]
            BY <1>6, <2>3 DEF Results
        <3>. QED  BY <1>5, <2>3, <3>1 DEF Rows, Statuses
    <2>4. CASE op = "live"
        <3>1. \/ new = seen
              \/ new = [seen EXCEPT !.status = "banned"]
              \/ new = [seen EXCEPT !.status = "error", !.session = FALSE]
            BY <1>6, <2>4 DEF Results
        <3>. QED  BY <1>5, <2>4, <3>1 DEF Rows, Statuses
    <2>. QED  BY <1>5, <2>1, <2>2, <2>3, <2>4 DEF Writers
<1>8. PICK r : r = [c \in DOMAIN cur |-> IF c = "rest" THEN IF op = "warmup" THEN "ahead"
                                                            ELSE cur[c]
                                         ELSE Written(cur[c], seen[c], new[c])]
    OBVIOUS
<1>9. acc' = [acc EXCEPT ![a] = r]
    BY <1>4, <1>6, <1>8
<1>10. PICK m : m = [c \in DOMAIN cur |-> Written(cur[c], seen[c], new[c])]
    OBVIOUS
<1>11. /\ m \in Rows
       /\ m.status = Written(cur.status, seen.status, new.status)
       /\ m.until = Written(cur.until, seen.until, new.until)
    BY <1>5, <1>7, <1>10, WrittenTyped
<1>12. DOMAIN cur = Columns
    BY <1>5, RowColumns
<1>13. /\ r = [c \in Columns |-> r[c]]
       /\ \A c \in Columns \ {"rest"} : r[c] = m[c]
       /\ r.rest \in {"ahead", cur.rest}
    BY <1>8, <1>10, <1>12 DEF Columns
<1>14. r \in Rows /\ r.status = m.status /\ r.until = m.until
    <2>1. /\ r.status = m.status /\ r.session = m.session /\ r.until = m.until
          /\ r.day = m.day /\ r.flood = m.flood
        BY <1>13 DEF Columns
    <2>2. r.rest \in Stamps
        BY <1>5, <1>13 DEF Rows, Stamps
    <2>3. /\ m.status \in Statuses /\ m.session \in BOOLEAN /\ m.until \in Stamps
          /\ m.day \in 0..MaxDay /\ m.flood \in BOOLEAN
        BY <1>11 DEF Rows
    <2>. QED  BY <1>13, <2>1, <2>2, <2>3, RowMade
<1>15. cur.status = "cooldown" => cur.until # "null"
    BY <1>4, <1>5 DEF IInv, CooldownHasEnd
<1>16. r.status = "cooldown" => r.until # "null"
    BY <1>5, <1>7, <1>11, <1>14, <1>15 DEF Written
<1>. QED  BY <1>5, <1>9, <1>14, <1>16, RowSet DEF IInv, Types

LEMMA ClockAcc ==
    ASSUME IInv, NEW a \in Accounts, SignsIn(a) \/ CooldownEnds(a) \/ RestEnds(a)
    PROVE  AccOK' /\ CooldownHasEnd'
<1>1. PICK cur : cur = acc[a]
    OBVIOUS
<1>2. cur \in Rows /\ (cur.status = "cooldown" => cur.until # "null")
    BY <1>1 DEF IInv, Types, AccOK, CooldownHasEnd
<1>3. PICK in : in = [cur EXCEPT !.status = "verified", !.session = TRUE]
    OBVIOUS
<1>4. PICK past : past = [cur EXCEPT !.until = "past"]
    OBVIOUS
<1>5. PICK up : up = [cur EXCEPT !.rest = "past"]
    OBVIOUS
<1>6. /\ in \in Rows /\ in.status = "verified"
      /\ past \in Rows /\ past.until = "past"
      /\ up \in Rows /\ up.status = cur.status /\ up.until = cur.until
    BY <1>2, <1>3, <1>4, <1>5 DEF Rows, Statuses, Stamps
<1>7. \E r \in {in, past, up} : acc' = [acc EXCEPT ![a] = r]
    BY <1>1, <1>3, <1>4, <1>5 DEF SignsIn, CooldownEnds, RestEnds
<1>. QED  BY <1>2, <1>6, <1>7, RowSet DEF IInv, Types

LEMMA NextAcc ==
    ASSUME IInv, [Next]_vars
    PROVE  AccOK' /\ CooldownHasEnd'
<1>1. CASE UNCHANGED acc
    BY <1>1 DEF IInv, Types, AccOK, CooldownHasEnd
<1>2. ASSUME NEW w \in Workers, WorkerStep(w)
      PROVE  AccOK' /\ CooldownHasEnd'
    <2>1. CASE VerifyFloodedEnds(w) \/ VerifyCloses(w) \/ CycleSkips(w) \/ WarmReleases(w)
        BY <1>1, <2>1 DEF VerifyFloodedEnds, VerifyCloses, CycleSkips, WarmReleases
    <2>. QED  BY <1>2, <2>1, VerifyEndsAcc, VerifyFloodedAcc, HealthAcc, CycleLoadsAcc, CycleAcc
              DEF WorkerStep
<1>3. ASSUME NEW w \in Workers, Fails(w)
      PROVE  AccOK' /\ CooldownHasEnd'
    <2>1. CASE WarmOverruns(w) \/ WarmKilled(w) \/ Crash(w) \/ Redeliver(w)
        BY <1>1, <2>1 DEF WarmOverruns, WarmKilled, Crash, Redeliver
    <2>. QED  BY <1>3, <2>1, VerifyTimesOutAcc, WarmTimesOutAcc DEF Fails
<1>4. ASSUME NEW w \in Workers, NEW a \in Accounts, Starts(w, a)
      PROVE  AccOK' /\ CooldownHasEnd'
    BY <1>1, <1>4 DEF Starts, VerifyStarts, HealthStarts, WarmStarts
<1>5. ASSUME NEW a \in Accounts, Clock(a)
      PROVE  AccOK' /\ CooldownHasEnd'
    BY <1>1, <1>5, ClockAcc DEF Clock, VerifyLeaseEnds, WarmLeaseEnds
<1>6. CASE Users
    <2>1. ASSUME NEW a \in Accounts, AskVerify(a) \/ AskHealth(a)
          PROVE  UNCHANGED acc
        BY <2>1 DEF AskVerify, AskHealth
    <2>2. ASSUME NEW a \in Accounts, NEW op \in Operations, Begin(op, a)
          PROVE  UNCHANGED acc
        BY <2>2 DEF Begin
    <2>. QED  BY <1>1, <1>6, <2>1, <2>2, FinishAcc, ClockAcc DEF Users
<1>. QED  BY <1>1, <1>2, <1>3, <1>4, <1>5, <1>6, BeatAcc DEF Next, vars

-----------------------------------------------------------------------------
(* The runs.                                                               *)

Phases == {"idle", "probe", "flooded", "close", "leased", "work", "release"}

\* A run goes on with its task and its account.
LEMMA GoEffect ==
    ASSUME RunOK, NEW w \in Workers, run[w].task # None, NEW p \in Phases, Go(w, p)
    PROVE  /\ RunOK'
           /\ run'[w].task = run[w].task /\ run'[w].acc = run[w].acc
           /\ run'[w].late = run[w].late /\ run'[w].phase = p
           /\ \A v \in Workers \ {w} : run'[v] = run[v]
<1>1. \A v \in Workers \ {w} : run'[v] = run[v]
    BY DEF RunOK, Go
<1>2. run'[w] = [run[w] EXCEPT !.phase = p, !.seen = NewRow]
    BY DEF RunOK, Go
<1>3. /\ run'[w] \in Runs
      /\ run'[w].task = run[w].task /\ run'[w].acc = run[w].acc
      /\ run'[w].late = run[w].late /\ run'[w].phase = p
    <2>1. run[w] \in Runs
        BY DEF RunOK
    <2>. QED  BY <1>2, <2>1, NewRowTyped DEF Runs, Phases
<1>4. run' \in [Workers -> Runs]
    BY <1>3 DEF RunOK, Go
<1>. QED  BY <1>1, <1>3, <1>4 DEF RunOK

LEMMA EndEffect ==
    ASSUME RunOK, NEW w \in Workers, EndRun(w)
    PROVE  /\ RunOK'
           /\ run'[w].task = None /\ run'[w].late = FALSE
           /\ \A v \in Workers \ {w} : run'[v] = run[v]
<1>1. NoRun \in Runs /\ NoRun.task = None /\ NoRun.late = FALSE /\ NoRun.phase = "idle"
    BY NewRowTyped DEF NoRun, Runs
<1>2. \A v \in Workers \ {w} : run'[v] = run[v]
    BY DEF RunOK, EndRun
<1>3. run'[w] = NoRun /\ run' \in [Workers -> Runs]
    BY <1>1 DEF RunOK, EndRun
<1>. QED  BY <1>1, <1>2, <1>3 DEF RunOK

LEMMA StartEffect ==
    ASSUME RunOK, AccOK, NEW w \in Workers, NEW t \in {"verify", "health", "warm"},
           NEW a \in Accounts, NEW p \in Phases, NEW C, Start(w, t, a, p, C)
    PROVE  /\ RunOK'
           /\ run'[w].task = t /\ run'[w].acc = a /\ run'[w].phase = p
           /\ run'[w].late = FALSE
           /\ \A v \in Workers \ {w} : run'[v] = run[v]
<1>1. PICK m : m = Remembered(acc[a], C)
    OBVIOUS
<1>2. m \in Rows
    BY <1>1, RememberedTyped DEF AccOK
<1>3. PICK r : r = [NoRun EXCEPT !.task = t, !.acc = a, !.phase = p, !.seen = m]
    OBVIOUS
<1>4. r \in Runs /\ r.task = t /\ r.acc = a /\ r.phase = p /\ r.late = FALSE
    BY <1>2, <1>3, NewRowTyped DEF NoRun, Runs, Phases
<1>5. run' = [run EXCEPT ![w] = r]
    BY <1>1, <1>3 DEF Start
<1>6. run' \in [Workers -> Runs] /\ run'[w] = r /\ \A v \in Workers \ {w} : run'[v] = run[v]
    BY <1>4, <1>5 DEF RunOK
<1>7. t # None
    BY AccountAssumption
<1>. QED  BY <1>4, <1>6, <1>7 DEF RunOK

\* A cycle that has loaded the account.
LEMMA LoadEffect ==
    ASSUME RunOK, AccOK, NEW w \in Workers, CycleLoads(w)
    PROVE  /\ RunOK'
           /\ run'[w].task = run[w].task /\ run'[w].acc = run[w].acc
           /\ run'[w].late = run[w].late
           /\ \A v \in Workers \ {w} : run'[v] = run[v]
<1>1. PICK row : row = [acc[run[w].acc] EXCEPT !.day = Larger(1, @)]
    OBVIOUS
<1>0. run[w].task = "warm" /\ run[w].task # None
    BY AccountAssumption DEF CycleLoads, At
<1>2. acc[run[w].acc] \in Rows
    BY <1>0 DEF RunOK, AccOK
<1>3. Larger(1, acc[run[w].acc].day) \in 0..MaxDay
    BY <1>2, AccountAssumption DEF Larger, Rows
<1>4. row \in Rows
    BY <1>1, <1>2, <1>3 DEF Rows
<1>5. PICK m : m = Remembered(row, {"status", "day", "flood"})
    OBVIOUS
<1>6. m \in Rows
    BY <1>4, <1>5, RememberedTyped
<1>7. \/ run' = [run EXCEPT ![w].phase = "work", ![w].seen = m]
      \/ Go(w, "release")
    BY <1>1, <1>5 DEF CycleLoads
<1>8. CASE run' = [run EXCEPT ![w].phase = "work", ![w].seen = m]
    <2>1. run'[w] = [run[w] EXCEPT !.phase = "work", !.seen = m]
        BY <1>8 DEF RunOK
    <2>2. \A v \in Workers \ {w} : run'[v] = run[v]
        BY <1>8 DEF RunOK
    <2>3. /\ run'[w] \in Runs
          /\ run'[w].task = run[w].task /\ run'[w].acc = run[w].acc
          /\ run'[w].late = run[w].late
        <3>1. run[w] \in Runs
            BY DEF RunOK
        <3>. QED  BY <1>6, <2>1, <3>1 DEF Runs
    <2>4. run' \in [Workers -> Runs]
        BY <1>8, <2>3 DEF RunOK
    <2>. QED  BY <1>0, <2>2, <2>3, <2>4 DEF RunOK
<1>9. CASE Go(w, "release")
    BY <1>0, <1>9, GoEffect DEF Phases
<1>. QED  BY <1>7, <1>8, <1>9

LEMMA OverrunEffect ==
    ASSUME RunOK, NEW w \in Workers, WarmOverruns(w)
    PROVE  /\ RunOK'
           /\ run'[w].task = run[w].task /\ run'[w].acc = run[w].acc
           /\ \A v \in Workers \ {w} : run'[v] = run[v]
<1>1. run'[w] = [run[w] EXCEPT !.late = TRUE] /\ \A v \in Workers \ {w} : run'[v] = run[v]
    BY DEF RunOK, WarmOverruns
<1>2. run'[w] \in Runs /\ run'[w].task = run[w].task /\ run'[w].acc = run[w].acc
    <2>1. run[w] \in Runs
        BY DEF RunOK
    <2>. QED  BY <1>1, <2>1 DEF Runs
<1>3. run' \in [Workers -> Runs]
    BY <1>2 DEF RunOK, WarmOverruns
<1>4. run[w].task # None
    BY AccountAssumption DEF WarmOverruns, At
<1>. QED  BY <1>1, <1>2, <1>3, <1>4 DEF RunOK

LEMMA NextRun ==
    ASSUME IInv, [Next]_vars
    PROVE  RunOK'
<1>0. RunOK /\ AccOK
    BY DEF IInv, Types
<1>1. CASE UNCHANGED run
    BY <1>0, <1>1 DEF RunOK
<1>2. ASSUME NEW w \in Workers, WorkerStep(w)
      PROVE  RunOK'
    <2>1. CASE CycleLoads(w)
        BY <1>0, <2>1, LoadEffect
    <2>2. CASE VerifyCloses(w) \/ HealthEnds(w) \/ HealthFails(w) \/ WarmReleases(w)
        BY <1>0, <2>2, EndEffect DEF VerifyCloses, HealthEnds, HealthFails, WarmReleases
    <2>3. CASE \/ VerifyEnds(w) \/ VerifyFlooded(w) \/ VerifyFloodedEnds(w) \/ CycleSkips(w)
               \/ CycleDone(w) \/ CycleFlooded(w) \/ CycleFails(w)
        <3>1. Go(w, "close") \/ Go(w, "flooded") \/ Go(w, "release")
            BY <2>3 DEF VerifyEnds, VerifyFlooded, VerifyFloodedEnds, CycleSkips, CycleDone,
                        CycleFlooded, CycleFails
        <3>2. run[w].task # None
            BY <2>3, TaskTyped DEF VerifyEnds, VerifyFlooded, VerifyFloodedEnds, CycleSkips, At,
                                   CycleDone, CycleFlooded, CycleFails
        <3>. QED  BY <1>0, <3>1, <3>2, GoEffect DEF Phases
    <2>. QED  BY <1>2, <2>1, <2>2, <2>3 DEF WorkerStep
<1>3. ASSUME NEW w \in Workers, Fails(w)
      PROVE  RunOK'
    <2>1. CASE VerifyTimesOut(w) \/ WarmKilled(w) \/ Crash(w)
        BY <1>0, <2>1, EndEffect DEF VerifyTimesOut, WarmKilled, Crash
    <2>2. CASE WarmTimesOut(w)
        BY <1>0, <2>2, GoEffect, TaskTyped DEF WarmTimesOut, Phases, At
    <2>3. CASE WarmOverruns(w)
        BY <1>0, <2>3, OverrunEffect
    <2>4. CASE Redeliver(w)
        BY <1>1, <2>4 DEF Redeliver
    <2>. QED  BY <1>3, <2>1, <2>2, <2>3, <2>4 DEF Fails
<1>4. ASSUME NEW w \in Workers, NEW a \in Accounts, Starts(w, a)
      PROVE  RunOK'
    <2>1. \/ Start(w, "verify", a, "probe", {"status", "session"})
          \/ Start(w, "health", a, "probe", {"status", "until"})
          \/ Start(w, "warm", a, "leased", {})
          \/ UNCHANGED run
        BY <1>4 DEF Starts, VerifyStarts, HealthStarts, WarmStarts
    <2>. QED  BY <1>0, <1>1, <2>1, StartEffect DEF Phases
<1>5. ASSUME NEW a \in Accounts, Clock(a)
      PROVE  RunOK'
    BY <1>1, <1>5 DEF Clock, CooldownEnds, RestEnds, VerifyLeaseEnds, WarmLeaseEnds
<1>6. CASE Beat
    BY <1>1, <1>6 DEF Beat, ResumeWarming, SweepReads, SweepCommits
<1>7. CASE Users
    BY <1>1, <1>7 DEF Users, AskVerify, AskHealth, SignsIn, Begin, Finish
<1>. QED  BY <1>1, <1>2, <1>3, <1>4, <1>5, <1>6, <1>7 DEF Next, vars

-----------------------------------------------------------------------------
(* The leases.                                                             *)

LEMMA LeaseGiven ==
    ASSUME NEW lease \in [Accounts -> Leases], NEW a, NEW w \in Workers
    PROVE  /\ [lease EXCEPT ![a] = Free] \in [Accounts -> Leases]
           /\ [lease EXCEPT ![a] = Lease(w)] \in [Accounts -> Leases]
           /\ Orphaned(lease, w) \in [Accounts -> Leases]
<1>1. Free \in Leases /\ Lease(w) \in Leases
    BY DEF Free, Lease, Leases
<1>2. \A b \in Accounts : [lease[b] EXCEPT !.holder = Orphan] \in Leases
    BY DEF Leases
<1>. QED  BY <1>1, <1>2 DEF Orphaned

\* The leases of an account are given back, taken, or left to a dead run.
LEMMA LeasesGiven ==
    ASSUME LeaseOK, NEW a, NEW w \in Workers
    PROVE  /\ [vlease EXCEPT ![a] = Free] \in [Accounts -> Leases]
           /\ [vlease EXCEPT ![a] = Lease(w)] \in [Accounts -> Leases]
           /\ Orphaned(vlease, w) \in [Accounts -> Leases]
           /\ [wlease EXCEPT ![a] = Free] \in [Accounts -> Leases]
           /\ [wlease EXCEPT ![a] = Lease(w)] \in [Accounts -> Leases]
           /\ Orphaned(wlease, w) \in [Accounts -> Leases]
BY LeaseGiven DEF LeaseOK

LEMMA NextLeases ==
    ASSUME IInv, [Next]_vars
    PROVE  LeaseOK'
<1>0. LeaseOK
    BY DEF IInv, Types
<1>1. CASE UNCHANGED leases
    BY <1>0, <1>1 DEF LeaseOK, leases
<1>2. ASSUME NEW w \in Workers, WorkerStep(w)
      PROVE  LeaseOK'
    <2>1. CASE VerifyEnds(w) \/ VerifyFloodedEnds(w)
        BY <1>0, <2>1, LeasesGiven
           DEF VerifyEnds, VerifyFloodedEnds, ReleaseVerify, LeaseOK
    <2>2. CASE WarmReleases(w)
        BY <1>0, <2>2, LeasesGiven DEF WarmReleases, LeaseOK
    <2>3. CASE UNCHANGED leases
        BY <1>1, <2>3
    <2>. QED  BY <1>2, <2>1, <2>2, <2>3
              DEF WorkerStep, VerifyFlooded, VerifyCloses, HealthEnds, HealthFails, CycleSkips,
                  CycleLoads, CycleDone, CycleFlooded, CycleFails
<1>3. ASSUME NEW w \in Workers, Fails(w)
      PROVE  LeaseOK'
    <2>1. CASE VerifyTimesOut(w)
        BY <1>0, <2>1, LeasesGiven DEF VerifyTimesOut, ReleaseVerify, LeaseOK
    <2>2. CASE Crash(w)
        BY <1>0, <2>2, LeasesGiven DEF Crash, LeaseOK
    <2>3. CASE WarmKilled(w)
        <3>1. wlease' = Orphaned(wlease, w) /\ vlease' = vlease
            BY <2>3 DEF WarmKilled, Orphaned
        <3>. QED  BY <1>0, <3>1, LeasesGiven DEF LeaseOK
    <2>4. CASE WarmTimesOut(w) \/ WarmOverruns(w) \/ Redeliver(w)
        BY <1>1, <2>4 DEF WarmTimesOut, WarmOverruns, Redeliver
    <2>. QED  BY <1>3, <2>1, <2>2, <2>3, <2>4 DEF Fails
<1>4. ASSUME NEW w \in Workers, NEW a \in Accounts, Starts(w, a)
      PROVE  LeaseOK'
    <2>1. CASE VerifyStarts(w, a)
        <3>1. /\ vlease' = vlease \/ vlease' = [vlease EXCEPT ![a] = Lease(w)]
              /\ wlease' = wlease
            BY <2>1 DEF VerifyStarts, Lease
        <3>. QED  BY <1>0, <3>1, LeasesGiven DEF LeaseOK
    <2>2. CASE WarmStarts(w, a)
        <3>1. /\ wlease' = wlease \/ wlease' = [wlease EXCEPT ![a] = Lease(w)]
              /\ vlease' = vlease
            BY <2>2 DEF WarmStarts, Lease
        <3>. QED  BY <1>0, <3>1, LeasesGiven DEF LeaseOK
    <2>3. CASE HealthStarts(w, a)
        BY <1>1, <2>3 DEF HealthStarts
    <2>. QED  BY <1>4, <2>1, <2>2, <2>3 DEF Starts
<1>5. ASSUME NEW a \in Accounts, Clock(a)
      PROVE  LeaseOK'
    <2>1. CASE VerifyLeaseEnds(a)
        <3>1. [vlease[a] EXCEPT !.over = TRUE] \in Leases
            BY <1>0 DEF LeaseOK, Leases
        <3>. QED  BY <1>0, <2>1, <3>1 DEF VerifyLeaseEnds, LeaseOK
    <2>2. CASE WarmLeaseEnds(a)
        <3>1. [wlease[a] EXCEPT !.over = TRUE] \in Leases
            BY <1>0 DEF LeaseOK, Leases
        <3>. QED  BY <1>0, <2>2, <3>1 DEF WarmLeaseEnds, LeaseOK
    <2>3. CASE CooldownEnds(a) \/ RestEnds(a)
        BY <1>1, <2>3 DEF CooldownEnds, RestEnds
    <2>. QED  BY <1>5, <2>1, <2>2, <2>3 DEF Clock
<1>6. CASE Beat
    BY <1>1, <1>6 DEF Beat, ResumeWarming, SweepReads, SweepCommits
<1>7. CASE Users
    BY <1>1, <1>7 DEF Users, AskVerify, AskHealth, SignsIn, Begin, Finish
<1>. QED  BY <1>1, <1>2, <1>3, <1>4, <1>5, <1>6, <1>7 DEF Next, vars

-----------------------------------------------------------------------------
(* The queue, the sweep, the request, and the counters.                    *)

LEMMA NextFaults ==
    ASSUME IInv, [Next]_vars
    PROVE  faults \subseteq faults' /\ faults' \subseteq Faults
<1>0. faults \subseteq Faults
    BY DEF IInv, Types, EnvOK
<1>1. UNCHANGED faults \/ \E f \in Faults : faults' = faults \cup {f}
    <2>1. ASSUME NEW w \in Workers, WorkerStep(w)
          PROVE  UNCHANGED faults
        BY <2>1 DEF WorkerStep, VerifyEnds, VerifyFlooded, VerifyFloodedEnds, VerifyCloses, env,
                    HealthEnds, HealthFails, CycleSkips, CycleLoads, CycleDone, CycleFlooded,
                    CycleFails, WarmReleases
    <2>2. ASSUME NEW w \in Workers, Fails(w)
          PROVE  UNCHANGED faults \/ \E f \in Faults : faults' = faults \cup {f}
        BY <2>2 DEF Fails, VerifyTimesOut, WarmTimesOut, WarmOverruns, WarmKilled, Crash,
                    Redeliver, Strikes, Faults, env
    <2>3. ASSUME NEW w \in Workers, NEW a \in Accounts, Starts(w, a)
          PROVE  UNCHANGED faults
        BY <2>3 DEF Starts, VerifyStarts, HealthStarts, WarmStarts
    <2>4. ASSUME NEW a \in Accounts, Clock(a)
          PROVE  UNCHANGED faults
        BY <2>4 DEF Clock, CooldownEnds, RestEnds, VerifyLeaseEnds, WarmLeaseEnds, env
    <2>5. CASE Beat
        BY <2>5 DEF Beat, ResumeWarming, SweepReads, SweepCommits, env
    <2>6. CASE Users
        BY <2>6 DEF Users, AskVerify, AskHealth, SignsIn, Begin, Finish, env
    <2>7. CASE UNCHANGED vars
        BY <2>7 DEF vars, env
    <2>. QED  BY <2>1, <2>2, <2>3, <2>4, <2>5, <2>6, <2>7 DEF Next
<1>. QED  BY <1>0, <1>1

LEMMA NextQueue ==
    ASSUME IInv, [Next]_vars
    PROVE  queue' \subseteq {"verify", "health", "warm"} \X Accounts
<1>0. queue \subseteq {"verify", "health", "warm"} \X Accounts
    BY DEF IInv, Types, EnvOK
<1>1. CASE queue' \subseteq queue
    BY <1>0, <1>1
<1>2. ASSUME NEW w \in Workers, WorkerStep(w)
      PROVE  queue' \subseteq queue
    BY <1>2 DEF WorkerStep, VerifyEnds, VerifyFlooded, VerifyFloodedEnds, VerifyCloses, env,
                HealthEnds, HealthFails, CycleSkips, CycleLoads, CycleDone, CycleFlooded,
                CycleFails, WarmReleases
<1>3. ASSUME NEW w \in Workers, Fails(w)
      PROVE  queue' \subseteq {"verify", "health", "warm"} \X Accounts
    <2>1. CASE VerifyTimesOut(w) \/ WarmTimesOut(w) \/ WarmOverruns(w) \/ WarmKilled(w)
        BY <1>1, <2>1 DEF VerifyTimesOut, WarmTimesOut, WarmOverruns, WarmKilled, env
    <2>2. CASE Crash(w) \/ Redeliver(w)
        <3>1. run[w].task # None
            BY <2>2 DEF IInv, Types, RunOK, Crash, Redeliver
        <3>2. run[w].task \in {"verify", "health", "warm"} /\ run[w].acc \in Accounts
            BY <3>1 DEF IInv, Types, RunOK, Runs
        <3>3. queue' = queue \cup {<<run[w].task, run[w].acc>>}
            BY <2>2 DEF Crash, Redeliver
        <3>. QED  BY <1>0, <3>2, <3>3
    <2>. QED  BY <1>3, <2>1, <2>2 DEF Fails
<1>4. ASSUME NEW w \in Workers, NEW a \in Accounts, Starts(w, a)
      PROVE  queue' \subseteq queue
    BY <1>4 DEF Starts, VerifyStarts, HealthStarts, WarmStarts, Take
<1>5. ASSUME NEW a \in Accounts, Clock(a)
      PROVE  queue' \subseteq queue
    BY <1>5 DEF Clock, CooldownEnds, RestEnds, VerifyLeaseEnds, WarmLeaseEnds, env
<1>6. CASE Beat
    <2>1. CASE ResumeWarming
        <3>1. queue' = queue \cup {<<"warm", a>> : a \in Resumable}
            BY <2>1 DEF ResumeWarming
        <3>2. Resumable \subseteq Accounts
            BY DEF Resumable
        <3>. QED  BY <1>0, <3>1, <3>2
    <2>2. CASE SweepReads \/ SweepCommits
        BY <1>1, <2>2 DEF SweepReads, SweepCommits, env
    <2>. QED  BY <1>6, <2>1, <2>2 DEF Beat
<1>7. CASE Users
    <2>1. ASSUME NEW a \in Accounts, AskVerify(a) \/ AskHealth(a)
          PROVE  queue' \subseteq {"verify", "health", "warm"} \X Accounts
        BY <1>0, <2>1 DEF AskVerify, AskHealth
    <2>2. ASSUME NEW a \in Accounts, NEW op, SignsIn(a) \/ Begin(op, a) \/ Finish
          PROVE  queue' \subseteq queue
        BY <2>2 DEF SignsIn, Begin, Finish, env
    <2>3. CASE Finish
        BY <1>1, <2>3 DEF Finish, env
    <2>. QED  BY <1>1, <1>7, <2>1, <2>2, <2>3 DEF Users
<1>8. CASE UNCHANGED vars
    BY <1>1, <1>8 DEF vars, env
<1>. QED  BY <1>1, <1>2, <1>3, <1>4, <1>5, <1>6, <1>7, <1>8 DEF Next

LEMMA NextSweep ==
    ASSUME IInv, [Next]_vars
    PROVE  sweep' \in [Accounts -> {None, "active", "warming"}]
<1>0. sweep \in [Accounts -> {None, "active", "warming"}]
    BY DEF IInv, Types, EnvOK
<1>1. CASE UNCHANGED sweep
    BY <1>0, <1>1
<1>2. ASSUME NEW w \in Workers, WorkerStep(w) \/ Fails(w)
      PROVE  UNCHANGED sweep
    BY <1>2 DEF WorkerStep, VerifyEnds, VerifyFlooded, VerifyFloodedEnds, VerifyCloses,
                HealthEnds, HealthFails, CycleSkips, CycleLoads, CycleDone, CycleFlooded,
                CycleFails, WarmReleases, Fails, VerifyTimesOut, WarmTimesOut, WarmOverruns,
                WarmKilled, Crash, Redeliver
<1>3. ASSUME NEW w \in Workers, NEW a \in Accounts, Starts(w, a)
      PROVE  UNCHANGED sweep
    BY <1>3 DEF Starts, VerifyStarts, HealthStarts, WarmStarts
<1>4. ASSUME NEW a \in Accounts, Clock(a)
      PROVE  UNCHANGED sweep
    BY <1>4 DEF Clock, CooldownEnds, RestEnds, VerifyLeaseEnds, WarmLeaseEnds
<1>5. CASE Beat
    BY <1>0, <1>5 DEF Beat, ResumeWarming, SweepReads, SweepCommits, NoSweep
<1>6. CASE Users
    BY <1>1, <1>6 DEF Users, AskVerify, AskHealth, SignsIn, Begin, Finish
<1>. QED  BY <1>1, <1>2, <1>3, <1>4, <1>5, <1>6 DEF Next, vars

\* A request that begins has read a row that admits it.
LEMMA BeginCall ==
    ASSUME IInv, NEW a \in Accounts, NEW op \in Operations, Begin(op, a)
    PROVE  CallOK' /\ calls' \in 0..Calls
<1>1. op \in Writers
    BY DEF Begin, Admits, Writers
<1>2. PICK C : /\ op = "warmup" => "status" \in C
               /\ call' = [op |-> op, acc |-> a, seen |-> Remembered(acc[a], C)]
    <2>1. PICK C : C = CASE op = "warmup" -> {"status", "day", "until", "flood"}
                         [] op = "disconnect" -> {"status", "session"}
                         [] OTHER -> {"session"}
        OBVIOUS
    <2>2. op = "warmup" => "status" \in C
        BY <2>1
    <2>3. call' = [op |-> op, acc |-> a, seen |-> Remembered(acc[a], C)]
        BY <2>1 DEF Begin
    <2>. QED  BY <2>2, <2>3
<1>3. PICK m : m = Remembered(acc[a], C)
    OBVIOUS
<1>4. acc[a] \in Rows
    BY DEF IInv, Types, AccOK
<1>5. m \in Rows /\ (op = "warmup" => m.status = acc[a].status)
    BY <1>2, <1>3, <1>4, RememberedTyped
<1>6. op = "warmup" => acc[a].status \in {"verified", "active"}
    BY DEF Begin, Admits
<1>7. call' = [op |-> op, acc |-> a, seen |-> m]
    BY <1>2, <1>3
<1>8. op \in AllOperations
    BY AccountAssumption
<1>9. CallOK'
    BY <1>1, <1>5, <1>6, <1>7, <1>8 DEF CallOK
<1>10. calls' \in 0..Calls
    BY AccountAssumption DEF IInv, Types, EnvOK, Begin, Ask
<1>. QED  BY <1>9, <1>10

LEMMA NextCall ==
    ASSUME IInv, [Next]_vars
    PROVE  CallOK' /\ calls' \in 0..Calls
<1>0. CallOK /\ calls \in 0..Calls
    BY DEF IInv, Types, EnvOK
<1>1. CASE UNCHANGED <<call, calls>>
    BY <1>0, <1>1 DEF CallOK
<1>2. ASSUME NEW w \in Workers, WorkerStep(w) \/ Fails(w)
      PROVE  UNCHANGED <<call, calls>>
    BY <1>2 DEF WorkerStep, VerifyEnds, VerifyFlooded, VerifyFloodedEnds, VerifyCloses, env,
                HealthEnds, HealthFails, CycleSkips, CycleLoads, CycleDone, CycleFlooded,
                CycleFails, WarmReleases, Fails, VerifyTimesOut, WarmTimesOut, WarmOverruns,
                WarmKilled, Crash, Redeliver
<1>3. ASSUME NEW w \in Workers, NEW a \in Accounts, Starts(w, a)
      PROVE  UNCHANGED <<call, calls>>
    BY <1>3 DEF Starts, VerifyStarts, HealthStarts, WarmStarts
<1>4. ASSUME NEW a \in Accounts, Clock(a) \/ SignsIn(a)
      PROVE  UNCHANGED <<call, calls>>
    BY <1>4 DEF Clock, CooldownEnds, RestEnds, VerifyLeaseEnds, WarmLeaseEnds, SignsIn, env
<1>5. CASE Beat
    BY <1>1, <1>5 DEF Beat, ResumeWarming, SweepReads, SweepCommits, env
<1>6. ASSUME NEW a \in Accounts, AskVerify(a) \/ AskHealth(a)
      PROVE  CallOK' /\ calls' \in 0..Calls
    <2>1. UNCHANGED call /\ calls > 0 /\ calls' = calls - 1
        BY <1>6 DEF AskVerify, AskHealth, Ask
    <2>. QED  BY <1>0, <2>1, AccountAssumption DEF CallOK
<1>7. CASE Finish
    <2>1. call' = NoCall /\ UNCHANGED calls
        BY <1>7 DEF Finish, env
    <2>. QED  BY <1>0, <2>1, NewRowTyped DEF CallOK, NoCall
<1>8. CASE Users
    BY <1>1, <1>4, <1>6, <1>7, <1>8, BeginCall DEF Users
<1>. QED  BY <1>1, <1>2, <1>3, <1>4, <1>5, <1>8 DEF Next, vars, env

-----------------------------------------------------------------------------
(* Who holds the lease of a verification.                                  *)

\* Nothing that a probing run rests on changes.
LEMMA VerifyKept ==
    ASSUME IInv, faults \subseteq faults',
           \A v \in Workers : Probing(v)' => /\ Probing(v) /\ run'[v].acc = run[v].acc
                                             /\ vlease'[run[v].acc] = vlease[run[v].acc]
    PROVE  VerifyHeld'
BY DEF IInv, VerifyHeld, Lease

\* The lease of a run is given back as it stops probing.
LEMMA VerifyGivesBack ==
    ASSUME IInv, faults \subseteq faults', NEW w \in Workers, Probing(w),
           ReleaseVerify(w), ~Probing(w)', \A v \in Workers \ {w} : run'[v] = run[v]
    PROVE  VerifyHeld'
<1>1. SUFFICES ASSUME "lag" \notin faults', NEW v \in Workers, Probing(v)'
               PROVE  vlease'[run'[v].acc] = Lease(v)
    BY DEF VerifyHeld, Lease
<1>2. v # w /\ run'[v] = run[v] /\ Probing(v)
    BY <1>1 DEF Probing
<1>3. vlease[run[v].acc] = Lease(v) /\ vlease[run[w].acc] = Lease(w)
    BY <1>1, <1>2 DEF IInv, VerifyHeld
<1>4. run[v].acc # run[w].acc
    BY <1>2, <1>3 DEF Lease
<1>5. run[v].acc \in Accounts
    BY <1>2, TaskTyped DEF Probing
<1>. QED  BY <1>2, <1>3, <1>4, <1>5 DEF ReleaseVerify, IInv, Types, LeaseOK

LEMMA VerifyStartsHeld ==
    ASSUME IInv, NEW w \in Workers, NEW a \in Accounts, VerifyStarts(w, a)
    PROVE  VerifyHeld'
<1>0. RunOK /\ AccOK /\ vlease \in [Accounts -> Leases]
    BY DEF IInv, Types, LeaseOK
<1>1. CASE UNCHANGED <<vlease, run>>
    BY <1>1, VerifyKept DEF VerifyStarts, Probing
<1>2. CASE /\ Grantable(vlease[a])
           /\ vlease' = [vlease EXCEPT ![a] = Lease(w)]
           /\ Start(w, "verify", a, "probe", {"status", "session"})
    <2>1. SUFFICES ASSUME "lag" \notin faults', NEW v \in Workers, Probing(v)'
                   PROVE  vlease'[run'[v].acc] = Lease(v)
        BY DEF VerifyHeld, Lease
    <2>2. /\ run'[w].acc = a
          /\ \A u \in Workers \ {w} : run'[u] = run[u]
        BY <1>0, <1>2, StartEffect DEF Phases
    <2>3. CASE v = w
        BY <1>0, <1>2, <2>2, <2>3
    <2>4. CASE v # w
        <3>1. run'[v] = run[v] /\ Probing(v)
            BY <2>1, <2>2, <2>4 DEF Probing
        <3>2. vlease[run[v].acc] = Lease(v)
            BY <2>1, <3>1 DEF IInv, VerifyHeld, VerifyStarts
        <3>3. run[v].acc # a
            BY <1>2, <3>2, AccountAssumption DEF Grantable, Lease
        <3>4. run[v].acc \in Accounts
            BY <3>1, TaskTyped DEF Probing
        <3>. QED  BY <1>0, <1>2, <3>1, <3>2, <3>3, <3>4
    <2>. QED  BY <2>3, <2>4
<1>. QED  BY <1>1, <1>2 DEF VerifyStarts, Lease

LEMMA VerifyTimesOutHeld ==
    ASSUME IInv, faults \subseteq faults', NEW w \in Workers, VerifyTimesOut(w)
    PROVE  VerifyHeld'
<1>1. RunOK
    BY DEF IInv, Types
<1>2. run'[w].task = None /\ \A v \in Workers \ {w} : run'[v] = run[v]
    BY <1>1, EndEffect DEF VerifyTimesOut
<1>3. CASE At(w, "verify", {"probe", "flooded"})
    <2>1. Probing(w) /\ ~Probing(w)'
        BY <1>2, <1>3, AccountAssumption DEF Probing, At
    <2>. QED  BY <1>2, <2>1, VerifyGivesBack DEF VerifyTimesOut
<1>4. CASE Strikes("lag")
    BY <1>4 DEF Strikes, VerifyHeld
<1>. QED  BY <1>3, <1>4 DEF VerifyTimesOut

LEMMA CrashHeld ==
    ASSUME IInv, faults \subseteq faults', NEW w \in Workers, Crash(w)
    PROVE  VerifyHeld' /\ WarmHeld'
<1>0. RunOK /\ LeaseOK
    BY DEF IInv, Types
<1>1. /\ run'[w].task = None
      /\ \A v \in Workers \ {w} : run'[v] = run[v]
    BY <1>0, EndEffect DEF Crash
<1>2. ASSUME NEW v \in Workers \ {w}, NEW a \in Accounts
      PROVE  /\ vlease[a] = Lease(v) => vlease'[a] = Lease(v)
             /\ wlease[a] = Lease(v) => wlease'[a] = Lease(v)
    BY DEF Crash, Orphaned, Lease
<1>3. VerifyHeld'
    <2>1. SUFFICES ASSUME "lag" \notin faults', NEW v \in Workers, Probing(v)'
                   PROVE  vlease'[run'[v].acc] = Lease(v)
        BY DEF VerifyHeld, Lease
    <2>2. v # w /\ run'[v] = run[v] /\ Probing(v)
        BY <1>1, <2>1, AccountAssumption DEF Probing
    <2>3. run[v].acc \in Accounts
        BY <2>2, TaskTyped DEF Probing
    <2>. QED  BY <1>2, <2>1, <2>2, <2>3 DEF IInv, VerifyHeld
<1>4. WarmHeld'
    <2>1. SUFFICES ASSUME "swallow" \notin faults', NEW v \in Workers
                   PROVE  /\ ~run'[v].late
                          /\ run'[v].task = "warm" => wlease'[run'[v].acc] = Lease(v)
        BY DEF WarmHeld, Lease
    <2>2. CASE v = w
        BY <1>0, <1>1, <2>2, EndEffect, AccountAssumption DEF Crash
    <2>3. CASE v # w
        <3>1. run'[v] = run[v] /\ ~run[v].late
              /\ (run[v].task = "warm" => wlease[run[v].acc] = Lease(v))
            BY <1>1, <2>1, <2>3 DEF IInv, WarmHeld
        <3>2. run[v].task = "warm" => run[v].acc \in Accounts
            BY TaskTyped
        <3>. QED  BY <1>2, <2>3, <3>1, <3>2
    <2>. QED  BY <2>2, <2>3
<1>. QED  BY <1>3, <1>4

LEMMA NextVerifyHeld ==
    ASSUME IInv, [Next]_vars
    PROVE  VerifyHeld'
<1>0. RunOK /\ AccOK /\ faults \subseteq faults'
    BY NextFaults DEF IInv, Types
<1>1. CASE UNCHANGED <<run, vlease>>
    BY <1>0, <1>1, VerifyKept DEF Probing
<1>2. ASSUME NEW w \in Workers, WorkerStep(w)
      PROVE  VerifyHeld'
    <2>1. CASE VerifyEnds(w) \/ VerifyFloodedEnds(w)
        <3>1. Probing(w) /\ ReleaseVerify(w) /\ Go(w, "close") /\ run[w].task # None
            BY <2>1, TaskTyped DEF VerifyEnds, VerifyFloodedEnds, At, Probing
        <3>2. ~Probing(w)' /\ \A v \in Workers \ {w} : run'[v] = run[v]
            BY <1>0, <3>1, GoEffect DEF Phases, Probing
        <3>. QED  BY <1>0, <3>1, <3>2, VerifyGivesBack
    <2>2. CASE VerifyFlooded(w)
        <3>1. Probing(w) /\ Go(w, "flooded") /\ vlease' = vlease /\ run[w].task # None
            BY <2>2, TaskTyped DEF VerifyFlooded, At, Probing, leases
        <3>2. run'[w].acc = run[w].acc /\ \A v \in Workers \ {w} : run'[v] = run[v]
            BY <1>0, <3>1, GoEffect DEF Phases
        <3>. QED  BY <1>0, <3>1, <3>2, VerifyKept DEF Probing
    <2>3. CASE VerifyCloses(w) \/ HealthEnds(w) \/ HealthFails(w) \/ WarmReleases(w)
        <3>1. EndRun(w) /\ vlease' = vlease
            BY <2>3 DEF VerifyCloses, HealthEnds, HealthFails, WarmReleases, leases
        <3>2. run'[w].task = None /\ \A v \in Workers \ {w} : run'[v] = run[v]
            BY <1>0, <3>1, EndEffect
        <3>. QED  BY <1>0, <3>1, <3>2, VerifyKept, AccountAssumption DEF Probing
    <2>4. CASE CycleSkips(w) \/ CycleDone(w) \/ CycleFlooded(w) \/ CycleFails(w)
        <3>1. Go(w, "release") /\ vlease' = vlease /\ run[w].task # None
            BY <2>4, TaskTyped DEF CycleSkips, CycleDone, CycleFlooded, CycleFails, At, leases
        <3>2. ~Probing(w)' /\ \A v \in Workers \ {w} : run'[v] = run[v]
            BY <1>0, <3>1, GoEffect DEF Phases, Probing
        <3>. QED  BY <1>0, <3>1, <3>2, VerifyKept DEF Probing
    <2>5. CASE CycleLoads(w)
        <3>1. run[w].task = "warm" /\ vlease' = vlease
            BY <2>5 DEF CycleLoads, At, leases
        <3>2. ~Probing(w)' /\ \A v \in Workers \ {w} : run'[v] = run[v]
            BY <1>0, <2>5, <3>1, LoadEffect DEF Probing
        <3>. QED  BY <1>0, <3>1, <3>2, VerifyKept DEF Probing
    <2>. QED  BY <1>2, <2>1, <2>2, <2>3, <2>4, <2>5 DEF WorkerStep
<1>3. ASSUME NEW w \in Workers, Fails(w)
      PROVE  VerifyHeld'
    <2>1. CASE WarmTimesOut(w)
        <3>1. Go(w, "release") /\ vlease' = vlease /\ run[w].task # None
            BY <2>1, TaskTyped DEF WarmTimesOut, At, leases
        <3>2. ~Probing(w)' /\ \A v \in Workers \ {w} : run'[v] = run[v]
            BY <1>0, <3>1, GoEffect DEF Phases, Probing
        <3>. QED  BY <1>0, <3>1, <3>2, VerifyKept DEF Probing
    <2>2. CASE WarmOverruns(w)
        <3>1. run[w].task = "warm" /\ vlease' = vlease
            BY <2>2 DEF WarmOverruns, At, leases
        <3>2. ~Probing(w)' /\ \A v \in Workers \ {w} : run'[v] = run[v]
            BY <1>0, <2>2, <3>1, OverrunEffect DEF Probing
        <3>. QED  BY <1>0, <3>1, <3>2, VerifyKept DEF Probing
    <2>3. CASE WarmKilled(w)
        <3>1. EndRun(w) /\ vlease' = vlease
            BY <2>3 DEF WarmKilled
        <3>2. run'[w].task = None /\ \A v \in Workers \ {w} : run'[v] = run[v]
            BY <1>0, <3>1, EndEffect
        <3>. QED  BY <1>0, <3>1, <3>2, VerifyKept, AccountAssumption DEF Probing
    <2>4. CASE Redeliver(w)
        BY <1>1, <2>4 DEF Redeliver, leases
    <2>. QED  BY <1>0, <1>3, <2>1, <2>2, <2>3, <2>4, VerifyTimesOutHeld, CrashHeld DEF Fails
<1>4. ASSUME NEW w \in Workers, NEW a \in Accounts, Starts(w, a)
      PROVE  VerifyHeld'
    <2>1. CASE HealthStarts(w, a) \/ WarmStarts(w, a)
        <3>1. /\ vlease' = vlease
              /\ \/ UNCHANGED run
                 \/ Start(w, "health", a, "probe", {"status", "until"})
                 \/ Start(w, "warm", a, "leased", {})
            BY <2>1 DEF HealthStarts, WarmStarts, leases
        <3>2. UNCHANGED run \/ (~Probing(w)' /\ \A v \in Workers \ {w} : run'[v] = run[v])
            BY <1>0, <3>1, StartEffect DEF Phases, Probing
        <3>. QED  BY <1>0, <3>1, <3>2, VerifyKept DEF Probing
    <2>. QED  BY <1>4, <2>1, VerifyStartsHeld DEF Starts
<1>5. ASSUME NEW a \in Accounts, Clock(a)
      PROVE  VerifyHeld'
    <2>1. CASE VerifyLeaseEnds(a)
        <3>1. ASSUME NEW v \in Workers
              PROVE  vlease[run[v].acc] = Lease(v) => vlease'[run[v].acc] = Lease(v)
            BY <2>1, AccountAssumption DEF VerifyLeaseEnds, Lease, IInv, Types, LeaseOK
        <3>2. run' = run
            BY <2>1 DEF VerifyLeaseEnds
        <3>. QED  BY <1>0, <3>1, <3>2 DEF IInv, VerifyHeld, Probing, Lease
    <2>2. CASE CooldownEnds(a) \/ RestEnds(a) \/ WarmLeaseEnds(a)
        BY <1>1, <2>2 DEF CooldownEnds, RestEnds, WarmLeaseEnds, leases
    <2>. QED  BY <1>5, <2>1, <2>2 DEF Clock
<1>6. CASE Beat
    BY <1>1, <1>6 DEF Beat, ResumeWarming, SweepReads, SweepCommits, leases
<1>7. CASE Users
    BY <1>1, <1>7 DEF Users, AskVerify, AskHealth, SignsIn, Begin, Finish, leases
<1>. QED  BY <1>1, <1>2, <1>3, <1>4, <1>5, <1>6, <1>7 DEF Next, vars, leases

-----------------------------------------------------------------------------
(* Who holds the lease of a warming cycle.                                 *)

\* Nothing that a cycle rests on changes.
LEMMA WarmKept ==
    ASSUME IInv, faults \subseteq faults',
           \A v \in Workers :
              /\ run'[v].late => run[v].late
              /\ run'[v].task = "warm" => /\ run[v].task = "warm" /\ run'[v].acc = run[v].acc
                                          /\ wlease'[run[v].acc] = wlease[run[v].acc]
    PROVE  WarmHeld'
BY DEF IInv, WarmHeld, Lease

LEMMA WarmReleasesHeld ==
    ASSUME IInv, faults \subseteq faults', NEW w \in Workers, WarmReleases(w)
    PROVE  WarmHeld'
<1>0. RunOK
    BY DEF IInv, Types
<1>1. SUFFICES ASSUME "swallow" \notin faults', NEW v \in Workers
               PROVE  /\ ~run'[v].late
                      /\ run'[v].task = "warm" => wlease'[run'[v].acc] = Lease(v)
    BY DEF WarmHeld, Lease
<1>2. run'[w].task = None /\ run'[w].late = FALSE
      /\ \A u \in Workers \ {w} : run'[u] = run[u]
    BY <1>0, EndEffect DEF WarmReleases
<1>3. CASE v = w
    BY <1>2, <1>3, AccountAssumption
<1>4. CASE v # w
    <2>1. run'[v] = run[v] /\ ~run[v].late
          /\ (run[v].task = "warm" => wlease[run[v].acc] = Lease(v))
        BY <1>1, <1>2, <1>4 DEF IInv, WarmHeld
    <2>2. wlease[run[w].acc] = Lease(w)
        BY <1>1 DEF IInv, WarmHeld, WarmReleases, At
    <2>3. run[v].task = "warm" => run[v].acc # run[w].acc /\ run[v].acc \in Accounts
        BY <1>4, <2>1, <2>2, TaskTyped DEF Lease
    <2>. QED  BY <2>1, <2>3 DEF WarmReleases, IInv, Types, LeaseOK
<1>. QED  BY <1>3, <1>4

LEMMA WarmStartsHeld ==
    ASSUME IInv, faults \subseteq faults', NEW w \in Workers, NEW a \in Accounts, WarmStarts(w, a)
    PROVE  WarmHeld'
<1>0. RunOK /\ AccOK /\ wlease \in [Accounts -> Leases]
    BY DEF IInv, Types, LeaseOK
<1>1. CASE UNCHANGED <<wlease, run>>
    BY <1>1, WarmKept
<1>2. CASE /\ Grantable(wlease[a])
           /\ wlease' = [wlease EXCEPT ![a] = Lease(w)]
           /\ Start(w, "warm", a, "leased", {})
    <2>1. SUFFICES ASSUME "swallow" \notin faults', NEW v \in Workers
                   PROVE  /\ ~run'[v].late
                          /\ run'[v].task = "warm" => wlease'[run'[v].acc] = Lease(v)
        BY DEF WarmHeld, Lease
    <2>2. /\ run'[w].acc = a /\ run'[w].late = FALSE
          /\ \A u \in Workers \ {w} : run'[u] = run[u]
        BY <1>0, <1>2, StartEffect DEF Phases
    <2>3. CASE v = w
        BY <1>0, <1>2, <2>2, <2>3
    <2>4. CASE v # w
        <3>1. run'[v] = run[v] /\ ~run[v].late
              /\ (run[v].task = "warm" => wlease[run[v].acc] = Lease(v))
            BY <2>1, <2>2, <2>4 DEF IInv, WarmHeld
        <3>2. run[v].task = "warm" => run[v].acc # a
            BY <1>2, <3>1, AccountAssumption DEF Grantable, Lease
        <3>3. run[v].task = "warm" => run[v].acc \in Accounts
            BY TaskTyped
        <3>. QED  BY <1>0, <1>2, <3>1, <3>2, <3>3
    <2>. QED  BY <2>3, <2>4
<1>. QED  BY <1>1, <1>2 DEF WarmStarts, Lease

LEMMA NextWarmHeld ==
    ASSUME IInv, [Next]_vars
    PROVE  WarmHeld'
<1>0. RunOK /\ AccOK /\ faults \subseteq faults'
    BY NextFaults DEF IInv, Types
<1>1. CASE UNCHANGED <<run, wlease>>
    BY <1>0, <1>1, WarmKept
<1>2. ASSUME NEW w \in Workers, WorkerStep(w)
      PROVE  WarmHeld'
    <2>1. CASE VerifyCloses(w) \/ HealthEnds(w) \/ HealthFails(w)
        <3>1. EndRun(w) /\ wlease' = wlease
            BY <2>1 DEF VerifyCloses, HealthEnds, HealthFails, leases
        <3>2. /\ run'[w].task = None /\ run'[w].late = FALSE
              /\ \A v \in Workers \ {w} : run'[v] = run[v]
            BY <1>0, <3>1, EndEffect
        <3>. QED  BY <1>0, <3>1, <3>2, WarmKept, AccountAssumption
    <2>2. CASE \/ VerifyEnds(w) \/ VerifyFlooded(w) \/ VerifyFloodedEnds(w) \/ CycleSkips(w)
               \/ CycleDone(w) \/ CycleFlooded(w) \/ CycleFails(w)
        <3>1. /\ Go(w, "close") \/ Go(w, "flooded") \/ Go(w, "release")
              /\ wlease' = wlease
            BY <2>2 DEF VerifyEnds, VerifyFlooded, VerifyFloodedEnds, CycleSkips, CycleDone,
                        CycleFlooded, CycleFails, leases
        <3>2. run[w].task # None
            BY <2>2, TaskTyped DEF VerifyEnds, VerifyFlooded, VerifyFloodedEnds, CycleSkips, At,
                                   CycleDone, CycleFlooded, CycleFails
        <3>3. /\ run'[w].task = run[w].task /\ run'[w].acc = run[w].acc
              /\ run'[w].late = run[w].late
              /\ \A v \in Workers \ {w} : run'[v] = run[v]
            BY <1>0, <3>1, <3>2, GoEffect DEF Phases
        <3>. QED  BY <1>0, <3>1, <3>3, WarmKept
    <2>3. CASE CycleLoads(w)
        <3>1. /\ run'[w].task = run[w].task /\ run'[w].acc = run[w].acc
              /\ run'[w].late = run[w].late /\ wlease' = wlease
              /\ \A v \in Workers \ {w} : run'[v] = run[v]
            BY <1>0, <2>3, LoadEffect DEF CycleLoads, leases
        <3>. QED  BY <1>0, <3>1, WarmKept
    <2>. QED  BY <1>0, <1>2, <2>1, <2>2, <2>3, WarmReleasesHeld DEF WorkerStep
<1>3. ASSUME NEW w \in Workers, Fails(w)
      PROVE  WarmHeld'
    <2>1. CASE VerifyTimesOut(w)
        <3>1. EndRun(w) /\ wlease' = wlease
            BY <2>1 DEF VerifyTimesOut
        <3>2. /\ run'[w].task = None /\ run'[w].late = FALSE
              /\ \A v \in Workers \ {w} : run'[v] = run[v]
            BY <1>0, <3>1, EndEffect
        <3>. QED  BY <1>0, <3>1, <3>2, WarmKept, AccountAssumption
    <2>2. CASE WarmTimesOut(w)
        <3>1. Go(w, "release") /\ wlease' = wlease /\ run[w].task # None
            BY <2>2, TaskTyped DEF WarmTimesOut, At, leases
        <3>2. /\ run'[w].task = run[w].task /\ run'[w].acc = run[w].acc
              /\ run'[w].late = run[w].late
              /\ \A v \in Workers \ {w} : run'[v] = run[v]
            BY <1>0, <3>1, GoEffect DEF Phases
        <3>. QED  BY <1>0, <3>1, <3>2, WarmKept
    <2>3. CASE WarmOverruns(w)
        BY <2>3 DEF WarmOverruns, Strikes, WarmHeld
    <2>4. CASE WarmKilled(w)
        BY <1>0, <2>4 DEF WarmKilled, IInv, WarmHeld
    <2>5. CASE Redeliver(w)
        BY <1>1, <2>5 DEF Redeliver, leases
    <2>. QED  BY <1>0, <1>3, <2>1, <2>2, <2>3, <2>4, <2>5, CrashHeld DEF Fails
<1>4. ASSUME NEW w \in Workers, NEW a \in Accounts, Starts(w, a)
      PROVE  WarmHeld'
    <2>1. CASE VerifyStarts(w, a) \/ HealthStarts(w, a)
        <3>1. /\ wlease' = wlease
              /\ \/ UNCHANGED run
                 \/ Start(w, "health", a, "probe", {"status", "until"})
                 \/ Start(w, "verify", a, "probe", {"status", "session"})
            BY <2>1 DEF VerifyStarts, HealthStarts, leases
        <3>2. \/ UNCHANGED run
              \/ /\ run'[w].task # "warm" /\ run'[w].late = FALSE
                 /\ \A v \in Workers \ {w} : run'[v] = run[v]
            BY <1>0, <3>1, StartEffect DEF Phases
        <3>. QED  BY <1>0, <3>1, <3>2, WarmKept
    <2>. QED  BY <1>0, <1>4, <2>1, WarmStartsHeld DEF Starts
<1>5. ASSUME NEW a \in Accounts, Clock(a)
      PROVE  WarmHeld'
    <2>1. CASE WarmLeaseEnds(a)
        <3>1. run' = run /\ faults' = faults
            BY <2>1 DEF WarmLeaseEnds, env
        <3>2. ASSUME NEW v \in Workers, ~run[v].late, wlease[run[v].acc] = Lease(v)
              PROVE  wlease'[run[v].acc] = Lease(v)
            BY <2>1, <3>2 DEF WarmLeaseEnds, Lease, IInv, Types, LeaseOK
        <3>. QED  BY <3>1, <3>2 DEF IInv, WarmHeld, Lease
    <2>2. CASE CooldownEnds(a) \/ RestEnds(a) \/ VerifyLeaseEnds(a)
        BY <1>1, <2>2 DEF CooldownEnds, RestEnds, VerifyLeaseEnds, leases
    <2>. QED  BY <1>5, <2>1, <2>2 DEF Clock
<1>6. CASE Beat
    BY <1>1, <1>6 DEF Beat, ResumeWarming, SweepReads, SweepCommits, leases
<1>7. CASE Users
    BY <1>1, <1>7 DEF Users, AskVerify, AskHealth, SignsIn, Begin, Finish, leases
<1>. QED  BY <1>1, <1>2, <1>3, <1>4, <1>5, <1>6, <1>7 DEF Next, vars, leases

-----------------------------------------------------------------------------
(* The theorems.                                                           *)

LEMMA InitInv == Init => IInv
<1>. SUFFICES ASSUME Init PROVE IInv
    OBVIOUS
<1>1. NewRow \in Rows /\ NewRow.status = "verified"
    BY NewRowTyped DEF NewRow
<1>2. Free \in Leases
    BY DEF Free, Leases
<1>3. NoRun \in Runs /\ NoRun.task = None /\ NoRun.phase = "idle" /\ NoRun.late = FALSE
    BY <1>1 DEF NoRun, Runs
<1>4. AccOK /\ RunOK /\ LeaseOK
    BY <1>1, <1>2, <1>3 DEF Init, AccOK, RunOK, LeaseOK
<1>5. EnvOK
    BY AccountAssumption DEF Init, EnvOK, NoSweep
<1>6. CallOK
    BY <1>1 DEF Init, CallOK, NoCall
<1>7. CooldownHasEnd
    BY <1>1 DEF Init, CooldownHasEnd
<1>8. VerifyHeld /\ WarmHeld
    BY <1>3, AccountAssumption DEF Init, VerifyHeld, WarmHeld, Probing
<1>. QED  BY <1>4, <1>5, <1>6, <1>7, <1>8 DEF IInv, Types

LEMMA NextInv == IInv /\ [Next]_vars => IInv'
<1>. SUFFICES ASSUME IInv, [Next]_vars PROVE IInv'
    OBVIOUS
<1>1. EnvOK'
    BY NextQueue, NextSweep, NextCall, NextFaults DEF EnvOK
<1>. QED  BY <1>1, NextAcc, NextRun, NextLeases, NextCall, NextVerifyHeld, NextWarmHeld
          DEF IInv, Types

LEMMA Invariance == Spec => []IInv
BY InitInv, NextInv, PTL DEF Spec

\* Every variable keeps its shape: days stay within their bound, whatever a
\* FloodWait takes off and whichever stale row is committed.
THEOREM AccountTypes == Spec => []TypeOK
<1>1. IInv => TypeOK
    BY DEF IInv, Types, AccOK, RunOK, LeaseOK, EnvOK, CallOK, TypeOK
<1>. QED  BY <1>1, Invariance, PTL

\* No interleaving of commits leaves an account on cooldown without an end of
\* it: _set_cooldown, _handle_floodwait and the handlers that set a status.
THEOREM CooldownsEnd == Spec => []CooldownHasEnd
<1>1. IInv => CooldownHasEnd
    BY DEF IInv
<1>. QED  BY <1>1, Invariance, PTL

\* Two cycles on an account only after one has outlived its soft limit:
\* acquire_warming_lease and release_warming_lease.
THEOREM WarmsAlone == Spec => []WarmExclusive
<1>1. IInv => WarmExclusive
    <2>. SUFFICES ASSUME IInv, "swallow" \notin faults, NEW a \in Accounts
                  PROVE  Cardinality(Cycles(a)) <= 1
        BY DEF WarmExclusive
    <2>1. ASSUME NEW v \in Cycles(a), NEW w \in Cycles(a)
          PROVE  v = w
        <3>1. wlease[a] = Lease(v) /\ wlease[a] = Lease(w)
            BY DEF Cycles, IInv, WarmHeld
        <3>. QED  BY <3>1 DEF Lease
    <2>2. CASE Cycles(a) = {}
        BY <2>2, FS_EmptySet
    <2>3. CASE Cycles(a) # {}
        <3>1. PICK w : Cycles(a) = {w}
            BY <2>1, <2>3
        <3>2. Cardinality(Cycles(a)) = 1
            BY <3>1, FS_Singleton
        <3>. QED  BY <3>2
    <2>. QED  BY <2>2, <2>3
<1>. QED  BY <1>1, Invariance, PTL

-----------------------------------------------------------------------------
(* The refinement: verification keeps its runs apart.                      *)

\* Only the grant of a lease makes a run probe.
LEMMA ProbingStays ==
    ASSUME IInv, [Next]_vars, NEW v \in Workers, Probing(v)',
           \A a \in Accounts : VerifyStarts(v, a) => UNCHANGED run
    PROVE  Probing(v) /\ run'[v].acc = run[v].acc
<1>0. RunOK /\ AccOK
    BY DEF IInv, Types
<1>1. CASE run'[v] = run[v]
    BY <1>1 DEF Probing
<1>2. ASSUME NEW w \in Workers, WorkerStep(w)
      PROVE  Probing(v) /\ run'[v].acc = run[v].acc
    <2>1. CASE VerifyCloses(w) \/ HealthEnds(w) \/ HealthFails(w) \/ WarmReleases(w)
        <3>1. /\ run'[w].task = None
              /\ \A u \in Workers \ {w} : run'[u] = run[u]
            BY <1>0, <2>1, EndEffect DEF VerifyCloses, HealthEnds, HealthFails, WarmReleases
        <3>. QED  BY <1>1, <3>1, AccountAssumption DEF Probing
    <2>2. CASE CycleLoads(w)
        <3>1. /\ run'[w].task = "warm"
              /\ \A u \in Workers \ {w} : run'[u] = run[u]
            BY <1>0, <2>2, LoadEffect DEF CycleLoads, At
        <3>. QED  BY <1>1, <3>1 DEF Probing
    <2>3. CASE \/ VerifyEnds(w) \/ VerifyFlooded(w) \/ VerifyFloodedEnds(w) \/ CycleSkips(w)
               \/ CycleDone(w) \/ CycleFlooded(w) \/ CycleFails(w)
        <3>1. /\ Go(w, "close") \/ Go(w, "release") \/ (Go(w, "flooded") /\ Probing(w))
              /\ run[w].task # None
            BY <2>3, TaskTyped DEF VerifyEnds, VerifyFlooded, VerifyFloodedEnds, CycleSkips, At,
                                   CycleDone, CycleFlooded, CycleFails, Probing
        <3>2. /\ run'[w].phase \in {"close", "release"} \/ Probing(w)
              /\ run'[w].acc = run[w].acc
              /\ \A u \in Workers \ {w} : run'[u] = run[u]
            BY <1>0, <3>1, GoEffect DEF Phases
        <3>. QED  BY <1>1, <3>2 DEF Probing
    <2>. QED  BY <1>2, <2>1, <2>2, <2>3 DEF WorkerStep
<1>3. ASSUME NEW w \in Workers, Fails(w)
      PROVE  Probing(v) /\ run'[v].acc = run[v].acc
    <2>1. CASE VerifyTimesOut(w) \/ WarmKilled(w) \/ Crash(w)
        <3>1. /\ run'[w].task = None
              /\ \A u \in Workers \ {w} : run'[u] = run[u]
            BY <1>0, <2>1, EndEffect DEF VerifyTimesOut, WarmKilled, Crash
        <3>. QED  BY <1>1, <3>1, AccountAssumption DEF Probing
    <2>2. CASE WarmTimesOut(w)
        <3>1. Go(w, "release") /\ run[w].task # None
            BY <2>2, TaskTyped DEF WarmTimesOut, At
        <3>2. /\ run'[w].phase = "release"
              /\ \A u \in Workers \ {w} : run'[u] = run[u]
            BY <1>0, <3>1, GoEffect DEF Phases
        <3>. QED  BY <1>1, <3>2 DEF Probing
    <2>3. CASE WarmOverruns(w)
        <3>1. /\ run'[w].task = "warm"
              /\ \A u \in Workers \ {w} : run'[u] = run[u]
            BY <1>0, <2>3, OverrunEffect DEF WarmOverruns, At
        <3>. QED  BY <1>1, <3>1 DEF Probing
    <2>4. CASE Redeliver(w)
        BY <1>1, <2>4 DEF Redeliver
    <2>. QED  BY <1>3, <2>1, <2>2, <2>3, <2>4 DEF Fails
<1>4. ASSUME NEW w \in Workers, NEW a \in Accounts, Starts(w, a)
      PROVE  Probing(v) /\ run'[v].acc = run[v].acc
    <2>1. CASE VerifyStarts(w, a)
        <3>1. UNCHANGED run \/ Start(w, "verify", a, "probe", {"status", "session"})
            BY <2>1 DEF VerifyStarts
        <3>2. UNCHANGED run \/ \A u \in Workers \ {w} : run'[u] = run[u]
            BY <1>0, <3>1, StartEffect DEF Phases
        <3>. QED  BY <1>1, <2>1, <3>2
    <2>2. CASE HealthStarts(w, a) \/ WarmStarts(w, a)
        <3>1. \/ UNCHANGED run
              \/ Start(w, "health", a, "probe", {"status", "until"})
              \/ Start(w, "warm", a, "leased", {})
            BY <2>2 DEF HealthStarts, WarmStarts
        <3>2. \/ UNCHANGED run
              \/ run'[w].task # "verify" /\ \A u \in Workers \ {w} : run'[u] = run[u]
            BY <1>0, <3>1, StartEffect DEF Phases
        <3>. QED  BY <1>1, <3>2 DEF Probing
    <2>. QED  BY <1>4, <2>1, <2>2 DEF Starts
<1>5. ASSUME NEW a \in Accounts, Clock(a)
      PROVE  run' = run
    BY <1>5 DEF Clock, CooldownEnds, RestEnds, VerifyLeaseEnds, WarmLeaseEnds
<1>6. CASE Beat
    BY <1>1, <1>6 DEF Beat, ResumeWarming, SweepReads, SweepCommits
<1>7. CASE Users
    BY <1>1, <1>7 DEF Users, AskVerify, AskHealth, SignsIn, Begin, Finish
<1>. QED  BY <1>1, <1>2, <1>3, <1>4, <1>5, <1>6, <1>7 DEF Next, vars

\* The runs that verify account a.
LEMMA VerifiersAre ==
    ASSUME NEW a \in Accounts
    PROVE  Verifiers[a] = {w \in Workers : "lag" \notin faults /\ run[w].acc = a /\ Probing(w)}
BY DEF Verifiers, At, Probing

LEMMA OneVerifier ==
    ASSUME IInv, NEW a \in Accounts, NEW v \in Verifiers[a], NEW w \in Verifiers[a]
    PROVE  v = w
<1>1. vlease[a] = Lease(v) /\ vlease[a] = Lease(w)
    BY VerifiersAre DEF IInv, VerifyHeld
<1>. QED  BY <1>1 DEF Lease

\* Runs only stop probing: of each account, none or all of the one there is.
LEMMA VerifiersLeave ==
    ASSUME IInv, [Next]_vars,
           \A w \in Workers, a \in Accounts : VerifyStarts(w, a) => UNCHANGED run
    PROVE  [Verifying!Next]_Verifiers
<1>1. ASSUME NEW a \in Accounts
      PROVE  Verifiers'[a] = Verifiers[a] \/ Verifiers'[a] = {}
    <2>1. Verifiers'[a] \subseteq Verifiers[a]
        <3>1. SUFFICES ASSUME NEW v \in Workers, "lag" \notin faults', run'[v].acc = a, Probing(v)'
                       PROVE  v \in Verifiers[a]
            BY DEF Verifiers, At, Probing
        <3>2. Probing(v) /\ run[v].acc = a
            BY <3>1, ProbingStays
        <3>3. "lag" \notin faults
            BY <3>1, NextFaults
        <3>. QED  BY <3>2, <3>3, VerifiersAre
    <2>. QED  BY <2>1, OneVerifier
<1>2. PICK T \in SUBSET Accounts : T = {a \in Accounts : Verifiers'[a] # Verifiers[a]}
    OBVIOUS
<1>3. /\ Verifiers = [a \in Accounts |-> Verifiers[a]]
      /\ Verifiers' = [a \in Accounts |-> Verifiers'[a]]
    BY DEF Verifiers
<1>4. Verifiers' = [a \in Accounts |-> IF a \in T THEN {} ELSE Verifiers[a]]
    BY <1>1, <1>2, <1>3
<1>5. CASE T = {}
    BY <1>2, <1>3, <1>5
<1>6. CASE T # {}
    <2>1. \E a \in T : Verifiers[a] # {}
        BY <1>1, <1>2, <1>6
    <2>. QED  BY <1>4, <2>1 DEF Verifying!Next, Verifying!Leave
<1>. QED  BY <1>5, <1>6

\* The lease is granted: nobody is verifying the account.
LEMMA VerifiersEnter ==
    ASSUME IInv, [Next]_vars, NEW w \in Workers, NEW a \in Accounts, VerifyStarts(w, a),
           run' # run
    PROVE  [Verifying!Next]_Verifiers
<1>0. RunOK /\ AccOK
    BY DEF IInv, Types
<1>1. /\ Grantable(vlease[a]) /\ run[w].phase = "idle" /\ UNCHANGED faults
      /\ Start(w, "verify", a, "probe", {"status", "session"})
    BY DEF VerifyStarts, Take
<1>2. /\ run'[w].task = "verify" /\ run'[w].acc = a /\ run'[w].phase = "probe"
      /\ \A v \in Workers \ {w} : run'[v] = run[v]
    BY <1>0, <1>1, StartEffect DEF Phases
<1>3. /\ Verifiers = [b \in Accounts |-> Verifiers[b]]
      /\ Verifiers' = [b \in Accounts |-> Verifiers'[b]]
    BY DEF Verifiers
<1>4. \A b \in Accounts : Verifiers'[b] =
            {v \in Workers : "lag" \notin faults /\ run'[v].acc = b /\ Probing(v)'}
    BY <1>1 DEF Verifiers, At, Probing
<1>5. CASE "lag" \in faults
    <2>1. \A b \in Accounts : Verifiers[b] = {} /\ Verifiers'[b] = {}
        BY <1>4, <1>5, VerifiersAre
    <2>. QED  BY <1>3, <2>1
<1>6. CASE "lag" \notin faults
    <2>1. Verifiers[a] = {}
        <3>1. SUFFICES ASSUME NEW v \in Verifiers[a] PROVE FALSE
            OBVIOUS
        <3>2. v \in Workers /\ vlease[a] = Lease(v)
            BY <3>1, VerifiersAre DEF IInv, VerifyHeld
        <3>. QED  BY <1>1, <3>2, AccountAssumption DEF Grantable, Lease
    <2>2. ~Probing(w)
        BY <1>1 DEF Probing
    <2>3. Probing(w)' /\ \A v \in Workers \ {w} : (Probing(v)' <=> Probing(v))
        BY <1>2 DEF Probing
    <2>4. \A b \in Accounts : Verifiers'[b] = IF b = a THEN {w} ELSE Verifiers[b]
        <3>1. Verifiers'[a] = {w}
            <4>1. ASSUME NEW v \in Workers \ {w} PROVE v \notin Verifiers'[a]
                <5>1. run'[v].acc = a /\ Probing(v)' => v \in Verifiers[a]
                    BY <1>2, <1>6, <2>3, VerifiersAre
                <5>. QED  BY <1>4, <2>1, <5>1
            <4>2. w \in Verifiers'[a]
                BY <1>2, <1>4, <1>6, <2>3
            <4>3. Verifiers'[a] \subseteq Workers
                BY <1>4
            <4>. QED  BY <4>1, <4>2, <4>3
        <3>2. ASSUME NEW b \in Accounts, b # a PROVE Verifiers'[b] = Verifiers[b]
            <4>1. w \notin Verifiers'[b] /\ w \notin Verifiers[b]
                BY <1>2, <1>4, <2>2, <3>2, VerifiersAre
            <4>2. ASSUME NEW v \in Workers \ {w}
                  PROVE  v \in Verifiers'[b] <=> v \in Verifiers[b]
                <5>1. run'[v] = run[v] /\ (Probing(v)' <=> Probing(v))
                    BY <1>2, <2>3
                <5>. QED  BY <1>4, <5>1, VerifiersAre
            <4>3. Verifiers'[b] \subseteq Workers /\ Verifiers[b] \subseteq Workers
                BY <1>4, VerifiersAre
            <4>. QED  BY <4>1, <4>2, <4>3
        <3>. QED  BY <3>1, <3>2
    <2>5. Verifiers' = [Verifiers EXCEPT ![a] = {w}]
        BY <1>3, <2>4
    <2>. QED  BY <2>1, <2>5 DEF Verifying!Next, Verifying!Enter
<1>. QED  BY <1>5, <1>6

\* Verification implements exclusion: a second run probes Telegram for an
\* account only after the first has given its verdict, whatever crashes, times
\* out or is delivered twice: acquire_verify_lease and release_verify_lease.
THEOREM VerifiesAlone == Spec => VerifyExclusive
<1>1. Init => Verifying!Init
    BY AccountAssumption DEF Init, Verifying!Init, Verifiers, At, NoRun
<1>2. IInv /\ [Next]_vars => [Verifying!Next]_Verifiers
    BY VerifiersLeave, VerifiersEnter
<1>. QED  BY <1>1, <1>2, Invariance, PTL DEF Spec, VerifyExclusive, Verifying!Spec
=============================================================================
