---------------------------- MODULE ChatSyncProofs ----------------------------
(***************************************************************************)
(* What the copies of an account's dialogs keep, for any number of         *)
(* workers, accounts, chats and members and any faults: the locks that     *)
(* keep two runs of a kind apart, the members a stamp stands for, and why  *)
(* no run waits or goes on for ever.                                       *)
(***************************************************************************)
EXTENDS ChatSync, FiniteSetTheorems, SequenceTheorems, WellFoundedInduction, TLAPS

Runs ==
    [acc : Accounts \cup {None}, only : {0} \cup Chats,
     phase : {"idle", "dialogs", "chats", "list", "upsert", "stamp"}, todo : SUBSET Chats,
     list : Seq(Users), left : Seq(Users), view : Snapshots \cup {None}, new : Snapshots,
     late : BOOLEAN]

Types ==
    /\ status \in [Accounts -> {"verified", "cooldown"}]
    /\ chats \in [Accounts -> [Chats -> {"none", "never", "fresh", "stale"}]]
    /\ rows \in Snapshots
    /\ syncLock \in [Accounts -> Workers \cup {None, Orphan}]
    /\ parseLock \in [Accounts -> [Chats -> Workers \cup {None, Orphan}]]
    /\ queue \subseteq Accounts \X ({0} \cup Chats)
    /\ run \in [Workers -> Runs]
    /\ listed \in [Accounts -> [Chats -> SUBSET Users]]

\* A member listed for the chat in hand is still to come, or is in R or among
\* the rows of the open transaction.
Gathered(q, R) ==
    \A u \in SeqRange(q.list) : u \in SeqRange(q.left) \/ <<Least(q.todo), u>> \in R \cup q.new

\* A run q on a database with the rows R.
GoodRun(q, R) ==
    /\ IF q.phase = "idle" THEN q.acc = None ELSE q.acc \in Accounts
    /\ q.phase \in {"dialogs", "chats"} => q.only = 0
    /\ q.phase \in {"upsert", "stamp"} => q.todo # {} /\ Gathered(q, R)
    /\ q.phase = "stamp" => q.left = <<>> /\ q.new = {}
    /\ q.view # None => q.view \subseteq R

RunsGood == \A w \in Workers : GoodRun(run[w], rows)

\* A run holds its lock, a sync as long as nothing has swallowed its limit.
SyncsHeld ==
    \A w \in Workers :
        run[w].phase # "idle" /\ run[w].only = 0 =>
            "swallow" \in faults \/ syncLock[run[w].acc] = w

ParsesHeld ==
    \A w \in Workers :
        run[w].phase # "idle" /\ run[w].only # 0 => parseLock[run[w].acc][run[w].only] = w

LateSwallowed == \A w \in Workers : run[w].late => "swallow" \in faults

IInv == Types /\ RunsGood /\ SyncsHeld /\ ParsesHeld /\ LateSwallowed /\ StampedIsStored

-----------------------------------------------------------------------------
(* Data.                                                                   *)

LEMMA LeastIn ==
    ASSUME NEW S \in SUBSET Nat, S # {}
    PROVE  Least(S) \in S
<1>1. PICK x \in S : \A y \in S : <<y, x>> \notin OpToRel(<, Nat)
    BY NatLessThanWellFounded, WFMin
<1>2. \A y \in S : x <= y
    <2>1. ASSUME NEW y \in S, y < x
          PROVE  FALSE
        <3>1. <<y, x>> \in OpToRel(<, Nat)
            BY <2>1 DEF OpToRel
        <3>. QED  BY <1>1, <3>1
    <2>. QED  BY <2>1
<1>. QED  BY <1>2 DEF Least

LEMMA LeastChat ==
    ASSUME NEW S \in SUBSET Chats, S # {}
    PROVE  Least(S) \in S /\ Least(S) \in Chats
BY LeastIn, SyncAssumption

LEMMA RangeOfTail ==
    ASSUME NEW s \in Seq(Users), s # <<>>
    PROVE  /\ Head(s) \in Users /\ Tail(s) \in Seq(Users)
           /\ \A u \in SeqRange(s) : u = Head(s) \/ u \in SeqRange(Tail(s))
<1>1. /\ Head(s) \in Users /\ Tail(s) \in Seq(Users) /\ Len(Tail(s)) = Len(s) - 1
      /\ \A i \in 1..Len(Tail(s)) : Tail(s)[i] = s[i + 1]
    BY HeadTailProperties
<1>2. Len(s) \in Nat /\ DOMAIN s = 1..Len(s) /\ DOMAIN Tail(s) = 1..Len(Tail(s))
    BY <1>1
<1>3. ASSUME NEW i \in DOMAIN s
      PROVE  s[i] = Head(s) \/ s[i] \in SeqRange(Tail(s))
    <2>1. CASE i = 1
        BY <2>1
    <2>2. CASE i # 1
        <3>1. i - 1 \in 1..Len(Tail(s)) /\ (i - 1) + 1 = i
            BY <1>1, <1>2, <2>2
        <3>2. Tail(s)[i - 1] = s[i]
            BY <1>1, <3>1
        <3>. QED  BY <1>2, <3>1, <3>2 DEF SeqRange
    <2>. QED  BY <2>1, <2>2
<1>. QED  BY <1>1, <1>3 DEF SeqRange

LEMMA RangeTyped ==
    ASSUME NEW s \in Seq(Users)
    PROVE  SeqRange(s) \subseteq Users
BY DEF SeqRange

LEMMA ListsTyped == Lists \subseteq Seq(Users)
<1>1. SUFFICES ASSUME NEW l \in Lists PROVE l \in Seq(Users)
    OBVIOUS
<1>2. PICK n \in 0..Cardinality(Users) : l \in [1..n -> Users]
    BY DEF Lists
<1>3. Cardinality(Users) \in Nat
    BY SyncAssumption, FS_CardinalityType
<1>4. n \in Nat
    BY <1>2, <1>3
<1>. QED  BY <1>2, <1>4

LEMMA Update ==
    ASSUME NEW A, NEW B, NEW C, NEW f \in [A -> [B -> C]], NEW a \in A, NEW b, NEW c \in C,
           NEW g, g = [f EXCEPT ![a][b] = c]
    PROVE  /\ g \in [A -> [B -> C]]
           /\ \A x \in A, y \in B : g[x][y] = IF x = a /\ y = b THEN c ELSE f[x][y]
<1>1. PICK h : h = [f[a] EXCEPT ![b] = c]
    OBVIOUS
<1>2. h \in [B -> C] /\ \A y \in B : h[y] = IF y = b THEN c ELSE f[a][y]
    BY <1>1
<1>3. g = [f EXCEPT ![a] = h]
    BY <1>1
<1>. QED  BY <1>2, <1>3

LEMMA NoRunGood ==
    /\ NoRun \in Runs /\ NoRun.phase = "idle" /\ NoRun.late = FALSE /\ NoRun.only = 0
    /\ NoRun.acc = None
    /\ \A R : GoodRun(NoRun, R)
<1>1. {} \in Snapshots /\ <<>> \in Seq(Users)
    BY DEF Snapshots
<1>2. NoRun \in Runs
    BY <1>1 DEF NoRun, Runs
<1>. QED  BY <1>2 DEF NoRun, GoodRun

\* What is good on the rows R is good on more of them.
LEMMA GoodGrows ==
    ASSUME NEW q, NEW R, NEW S, R \subseteq S, GoodRun(q, R)
    PROVE  GoodRun(q, S)
BY DEF GoodRun, Gathered

-----------------------------------------------------------------------------
(* Steps of one kind.                                                      *)

\* A run goes on as q.
LEMMA Moves ==
    ASSUME IInv, NEW w \in Workers, NEW q \in Runs, run' = [run EXCEPT ![w] = q],
           run[w].phase # "idle", q.acc = run[w].acc, q.only = run[w].only,
           q.late => "swallow" \in faults', faults \subseteq faults',
           UNCHANGED <<status, locks, queue>>,
           rows \subseteq rows', rows' \in Snapshots, GoodRun(q, rows'),
           chats' \in [Accounts -> [Chats -> {"none", "never", "fresh", "stale"}]],
           listed' \in [Accounts -> [Chats -> SUBSET Users]], StampedIsStored'
    PROVE  IInv'
<1>1. run' \in [Workers -> Runs]
    BY DEF IInv, Types
<1>2. \A v \in Workers : run'[v] = IF v = w THEN q ELSE run[v]
    BY DEF IInv, Types
<1>3. Types'
    BY <1>1 DEF IInv, Types, locks
<1>4. RunsGood'
    <2>1. ASSUME NEW v \in Workers
          PROVE  GoodRun(run'[v], rows')
        BY <1>2, GoodGrows DEF IInv, RunsGood
    <2>. QED  BY <2>1 DEF RunsGood
<1>5. SyncsHeld'
    BY <1>2 DEF IInv, SyncsHeld, locks
<1>6. ParsesHeld'
    BY <1>2 DEF IInv, ParsesHeld, locks
<1>7. LateSwallowed'
    BY <1>2 DEF IInv, LateSwallowed
<1>. QED  BY <1>3, <1>4, <1>5, <1>6, <1>7 DEF IInv

\* The runs and their locks stay.
LEMMA Stays ==
    ASSUME IInv, UNCHANGED <<run, rows, locks, listed>>, faults \subseteq faults',
           status' \in [Accounts -> {"verified", "cooldown"}],
           chats' \in [Accounts -> [Chats -> {"none", "never", "fresh", "stale"}]],
           queue' \subseteq Accounts \X ({0} \cup Chats)
    PROVE  IInv'
<1>1. Types'
    BY DEF IInv, Types, locks
<1>2. RunsGood' /\ StampedIsStored'
    BY DEF IInv, RunsGood, StampedIsStored
<1>3. SyncsHeld' /\ ParsesHeld' /\ LateSwallowed'
    BY DEF IInv, SyncsHeld, ParsesHeld, LateSwallowed, locks
<1>. QED  BY <1>1, <1>2, <1>3 DEF IInv

\* A run ends and takes its lock away: no other run of its kind had it.
LEMMA Finishes ==
    ASSUME IInv, NEW w \in Workers, Ends(w), run[w].phase # "idle", faults \subseteq faults',
           UNCHANGED <<chats, rows, queue, listed>>,
           status' \in [Accounts -> {"verified", "cooldown"}]
    PROVE  IInv'
<1>1. run' \in [Workers -> Runs] /\ \A v \in Workers : run'[v] = IF v = w THEN NoRun ELSE run[v]
    BY NoRunGood DEF IInv, Types, Ends
<1>2. run[w].acc \in Accounts /\ run[w].only \in {0} \cup Chats
    BY DEF IInv, Types, RunsGood, GoodRun, Runs
<1>3. /\ syncLock' \in [Accounts -> Workers \cup {None, Orphan}]
      /\ parseLock' \in [Accounts -> [Chats -> Workers \cup {None, Orphan}]]
      /\ \A a \in Accounts, c \in Chats :
            run[w].only = 0 \/ a # run[w].acc \/ c # run[w].only => parseLock'[a][c] = parseLock[a][c]
    <2>1. CASE run[w].only = 0
        BY <1>2, <2>1 DEF IInv, Types, Ends
    <2>2. CASE run[w].only # 0
        <3>1. parseLock' = [parseLock EXCEPT ![run[w].acc][run[w].only] = None]
            BY <2>2 DEF Ends
        <3>2. syncLock' = syncLock
            BY <2>2 DEF Ends
        <3>3. parseLock \in [Accounts -> [Chats -> Workers \cup {None, Orphan}]]
            BY DEF IInv, Types
        <3>4. None \in Workers \cup {None, Orphan}
            OBVIOUS
        <3>5. /\ parseLock' \in [Accounts -> [Chats -> Workers \cup {None, Orphan}]]
              /\ \A a \in Accounts, c \in Chats : parseLock'[a][c] =
                    IF a = run[w].acc /\ c = run[w].only THEN None ELSE parseLock[a][c]
            BY <1>2, <3>1, <3>3, <3>4, Update
        <3>. QED  BY <2>2, <3>2, <3>5 DEF IInv, Types
    <2>. QED  BY <2>1, <2>2
<1>4. Types'
    BY <1>1, <1>3 DEF IInv, Types
<1>5. RunsGood' /\ StampedIsStored'
    BY <1>1, NoRunGood DEF IInv, RunsGood, StampedIsStored
<1>6. SyncsHeld'
    <2>1. ASSUME NEW v \in Workers, run'[v].phase # "idle", run'[v].only = 0,
                 "swallow" \notin faults'
          PROVE  syncLock'[run'[v].acc] = v
        <3>1. v # w /\ run'[v] = run[v]
            BY <1>1, <2>1, NoRunGood
        <3>2. syncLock[run[v].acc] = v /\ run[v].acc \in Accounts
            BY <2>1, <3>1 DEF IInv, SyncsHeld, RunsGood, GoodRun
        <3>3. run[w].only = 0 => syncLock[run[w].acc] = w
            BY <2>1 DEF IInv, SyncsHeld
        <3>. QED  BY <3>1, <3>2, <3>3 DEF Ends, IInv, Types
    <2>. QED  BY <2>1 DEF SyncsHeld
<1>7. ParsesHeld'
    <2>1. ASSUME NEW v \in Workers, run'[v].phase # "idle", run'[v].only # 0
          PROVE  parseLock'[run'[v].acc][run'[v].only] = v
        <3>1. v # w /\ run'[v] = run[v]
            BY <1>1, <2>1, NoRunGood
        <3>2. /\ parseLock[run[v].acc][run[v].only] = v /\ run[v].acc \in Accounts
              /\ run[v].only \in Chats
            BY <2>1, <3>1 DEF IInv, ParsesHeld, RunsGood, GoodRun, Types, Runs
        <3>3. run[w].only # 0 => parseLock[run[w].acc][run[w].only] = w
            BY DEF IInv, ParsesHeld
        <3>. QED  BY <1>3, <3>1, <3>2, <3>3
    <2>. QED  BY <2>1 DEF ParsesHeld
<1>8. LateSwallowed'
    BY <1>1, NoRunGood DEF IInv, LateSwallowed
<1>. QED  BY <1>4, <1>5, <1>6, <1>7, <1>8 DEF IInv

-----------------------------------------------------------------------------
(* A message is taken.                                                     *)

LEMMA SyncStartsInv ==
    ASSUME IInv, NEW w \in Workers, NEW a \in Accounts, SyncStarts(w, a)
    PROVE  IInv'
<1>1. CASE ~(syncLock[a] = None /\ status[a] = "verified")
    BY <1>1, Stays DEF SyncStarts, IInv, Types, locks, db, history
<1>2. CASE syncLock[a] = None /\ status[a] = "verified"
    <2>1. PICK q : q = [NoRun EXCEPT !.acc = a, !.phase = "dialogs"]
        OBVIOUS
    <2>2. /\ q.acc = a /\ q.phase = "dialogs" /\ q.only = 0 /\ q.late = FALSE /\ q.view = None
          /\ q \in Runs
        BY <2>1, NoRunGood DEF NoRun, Runs
    <2>3. GoodRun(q, rows)
        BY <2>2 DEF GoodRun
    <2>4. /\ run' = [run EXCEPT ![w] = q] /\ syncLock' = [syncLock EXCEPT ![a] = w]
          /\ run[w].phase = "idle"
          /\ queue' \subseteq queue /\ UNCHANGED <<status, chats, rows, parseLock, faults, listed>>
        BY <1>2, <2>1 DEF SyncStarts, At, db, history
    <2>5. \A v \in Workers : run'[v] = IF v = w THEN q ELSE run[v]
        BY <2>4 DEF IInv, Types
    <2>6. /\ run' \in [Workers -> Runs]
          /\ syncLock' \in [Accounts -> Workers \cup {None, Orphan}]
        BY <2>2, <2>4 DEF IInv, Types
    <2>7. Types'
        BY <2>4, <2>6 DEF IInv, Types
    <2>8. RunsGood' /\ StampedIsStored'
        BY <2>3, <2>4, <2>5 DEF IInv, RunsGood, StampedIsStored
    <2>9. SyncsHeld'
        <3>1. ASSUME NEW v \in Workers, run'[v].phase # "idle", run'[v].only = 0,
                     "swallow" \notin faults'
              PROVE  syncLock'[run'[v].acc] = v
            <4>1. CASE v = w
                BY <2>2, <2>4, <2>5, <4>1 DEF IInv, Types
            <4>2. CASE v # w
                <5>1. syncLock[run[v].acc] = v /\ run[v].acc \in Accounts
                    BY <2>4, <2>5, <3>1, <4>2 DEF IInv, SyncsHeld, RunsGood, GoodRun
                <5>2. run[v].acc # a
                    BY <1>2, <5>1, SyncAssumption
                <5>. QED  BY <2>4, <2>5, <4>2, <5>1, <5>2 DEF IInv, Types
            <4>. QED  BY <4>1, <4>2
        <3>. QED  BY <3>1 DEF SyncsHeld
    <2>10. ParsesHeld' /\ LateSwallowed'
        BY <2>2, <2>4, <2>5 DEF IInv, ParsesHeld, LateSwallowed
    <2>. QED  BY <2>7, <2>8, <2>9, <2>10 DEF IInv
<1>. QED  BY <1>1, <1>2

LEMMA ParseStartsInv ==
    ASSUME IInv, NEW w \in Workers, NEW a \in Accounts, NEW c \in Chats, ParseStarts(w, a, c)
    PROVE  IInv'
<1>1. CASE parseLock[a][c] # None
    BY <1>1, Stays DEF ParseStarts, IInv, Types, locks, db, history
<1>2. CASE parseLock[a][c] = None
    <2>1. PICK q : q = [NoRun EXCEPT !.acc = a, !.only = c, !.phase = "list", !.todo = {c},
                                     !.view = rows]
        OBVIOUS
    <2>2. /\ q.acc = a /\ q.phase = "list" /\ q.only = c /\ q.late = FALSE /\ q.view = rows
          /\ c # 0
        BY <2>1, SyncAssumption DEF NoRun
    <2>3. q \in Runs
        BY <2>1, NoRunGood DEF NoRun, Runs, IInv, Types
    <2>4. GoodRun(q, rows)
        BY <2>2 DEF GoodRun
    <2>5. /\ run' = [run EXCEPT ![w] = q] /\ parseLock' = [parseLock EXCEPT ![a][c] = w]
          /\ run[w].phase = "idle"
          /\ queue' \subseteq queue /\ UNCHANGED <<status, chats, rows, syncLock, faults, listed>>
        BY <1>2, <2>1 DEF ParseStarts, At, db, history
    <2>6. \A v \in Workers : run'[v] = IF v = w THEN q ELSE run[v]
        BY <2>5 DEF IInv, Types
    <2>7. run' \in [Workers -> Runs]
        BY <2>3, <2>5 DEF IInv, Types
    <2>8. /\ parseLock' \in [Accounts -> [Chats -> Workers \cup {None, Orphan}]]
          /\ \A b \in Accounts, d \in Chats :
                parseLock'[b][d] = IF b = a /\ d = c THEN w ELSE parseLock[b][d]
        <3>1. parseLock \in [Accounts -> [Chats -> Workers \cup {None, Orphan}]]
            BY DEF IInv, Types
        <3>2. w \in Workers \cup {None, Orphan}
            OBVIOUS
        <3>. QED  BY <2>5, <3>1, <3>2, Update
    <2>9. Types'
        BY <2>5, <2>7, <2>8 DEF IInv, Types
    <2>10. RunsGood' /\ StampedIsStored'
        BY <2>4, <2>5, <2>6 DEF IInv, RunsGood, StampedIsStored
    <2>11. ParsesHeld'
        <3>1. ASSUME NEW v \in Workers, run'[v].phase # "idle", run'[v].only # 0
              PROVE  parseLock'[run'[v].acc][run'[v].only] = v
            <4>1. CASE v = w
                BY <2>2, <2>6, <2>8, <4>1
            <4>2. CASE v # w
                <5>1. /\ parseLock[run[v].acc][run[v].only] = v /\ run[v].acc \in Accounts
                      /\ run[v].only \in Chats
                    BY <2>6, <3>1, <4>2 DEF IInv, ParsesHeld, RunsGood, GoodRun, Types, Runs
                <5>2. ~(run[v].acc = a /\ run[v].only = c)
                    BY <1>2, <5>1, SyncAssumption
                <5>. QED  BY <2>6, <2>8, <4>2, <5>1, <5>2
            <4>. QED  BY <4>1, <4>2
        <3>. QED  BY <3>1 DEF ParsesHeld
    <2>12. SyncsHeld' /\ LateSwallowed'
        BY <2>2, <2>5, <2>6 DEF IInv, SyncsHeld, LateSwallowed
    <2>. QED  BY <2>9, <2>10, <2>11, <2>12 DEF IInv
<1>. QED  BY <1>1, <1>2

-----------------------------------------------------------------------------
(* The steps of a run.                                                     *)

\* A step that changes only the run.
LEMMA Goes ==
    ASSUME IInv, NEW w \in Workers, NEW q \in Runs, run' = [run EXCEPT ![w] = q],
           run[w].phase # "idle", q.acc = run[w].acc, q.only = run[w].only,
           q.late => "swallow" \in faults', faults \subseteq faults',
           UNCHANGED <<db, locks, queue, listed>>, GoodRun(q, rows)
    PROVE  IInv'
<1>1. /\ chats' \in [Accounts -> [Chats -> {"none", "never", "fresh", "stale"}]]
      /\ listed' \in [Accounts -> [Chats -> SUBSET Users]]
      /\ rows' \in Snapshots /\ rows \subseteq rows' /\ GoodRun(q, rows')
      /\ UNCHANGED <<status, locks, queue>>
    BY DEF IInv, Types, db
<1>2. StampedIsStored'
    BY DEF IInv, StampedIsStored, db
<1>. QED  BY <1>1, <1>2, Moves

LEMMA DialogsInv ==
    ASSUME IInv, NEW w \in Workers, Dialogs(w)
    PROVE  IInv'
<1>1. PICK D \in SUBSET Chats :
          run' = [run EXCEPT ![w].phase = "chats", ![w].todo = D]
    BY DEF Dialogs
<1>2. PICK q : q = [run[w] EXCEPT !.phase = "chats", !.todo = D]
    OBVIOUS
<1>3. run' = [run EXCEPT ![w] = q]
    BY <1>1, <1>2 DEF IInv, Types
<1>4. run[w] \in Runs /\ run[w].phase = "dialogs"
    BY DEF IInv, Types, Dialogs, At
<1>5. /\ q \in Runs /\ q.acc = run[w].acc /\ q.only = run[w].only /\ q.late = run[w].late
      /\ q.phase = "chats" /\ q.view = run[w].view
    BY <1>2, <1>4 DEF Runs
<1>6. GoodRun(q, rows) /\ (q.late => "swallow" \in faults)
    BY <1>4, <1>5 DEF IInv, RunsGood, GoodRun, LateSwallowed
<1>. QED  BY <1>3, <1>4, <1>5, <1>6, Goes DEF Dialogs, history

LEMMA ChatUpsertedInv ==
    ASSUME IInv, NEW w \in Workers, ChatUpserted(w)
    PROVE  IInv'
<1>1. PICK c : c = Least(run[w].todo)
    OBVIOUS
<1>2. PICK q : q = [run[w] EXCEPT !.todo = @ \ {c}]
    OBVIOUS
<1>3. /\ run' = [run EXCEPT ![w] = q] /\ run[w].phase = "chats"
      /\ chats' = [chats EXCEPT ![run[w].acc][c] = IF @ = "none" THEN "never" ELSE @]
      /\ UNCHANGED <<status, rows, locks, queue, history, listed>> /\ run[w].todo # {}
    BY <1>1, <1>2 DEF IInv, Types, ChatUpserted, At
<1>4. run[w] \in Runs
    BY DEF IInv, Types
<1>5. /\ q \in Runs /\ q.acc = run[w].acc /\ q.only = run[w].only /\ q.late = run[w].late
      /\ q.phase = "chats" /\ q.view = run[w].view
    BY <1>2, <1>3, <1>4 DEF Runs
<1>6. GoodRun(q, rows) /\ (q.late => "swallow" \in faults)
    BY <1>3, <1>5 DEF IInv, RunsGood, GoodRun, LateSwallowed
<1>7. run[w].acc \in Accounts /\ c \in Chats
    BY <1>1, <1>3, <1>4, LeastChat DEF IInv, RunsGood, GoodRun, Runs
<1>8. chats' \in [Accounts -> [Chats -> {"none", "never", "fresh", "stale"}]]
    <2>1. chats \in [Accounts -> [Chats -> {"none", "never", "fresh", "stale"}]]
        BY DEF IInv, Types
    <2>2. PICK v : v = IF chats[run[w].acc][c] = "none" THEN "never" ELSE chats[run[w].acc][c]
        OBVIOUS
    <2>3. v \in {"none", "never", "fresh", "stale"}
        BY <1>7, <2>1, <2>2
    <2>4. chats' = [chats EXCEPT ![run[w].acc][c] = v]
        BY <1>3, <1>7, <2>1, <2>2
    <2>. QED  BY <1>7, <2>1, <2>3, <2>4, Update
<1>9. StampedIsStored'
    BY <1>3 DEF IInv, StampedIsStored
<1>10. listed' \in [Accounts -> [Chats -> SUBSET Users]] /\ rows' \in Snapshots
       /\ rows \subseteq rows' /\ GoodRun(q, rows') /\ faults \subseteq faults'
       /\ (q.late => "swallow" \in faults')
    BY <1>3, <1>6 DEF IInv, Types, history
<1>. QED  BY <1>3, <1>5, <1>8, <1>9, <1>10, Moves

LEMMA GroupsSelectedInv ==
    ASSUME IInv, NEW w \in Workers, GroupsSelected(w)
    PROVE  IInv'
<1>1. PICK D : /\ D \subseteq Chats
               /\ run' = [run EXCEPT ![w].phase = "list", ![w].view = rows, ![w].todo = D]
    BY DEF GroupsSelected
<1>2. PICK q : q = [run[w] EXCEPT !.phase = "list", !.view = rows, !.todo = D]
    OBVIOUS
<1>3. run' = [run EXCEPT ![w] = q]
    BY <1>1, <1>2 DEF IInv, Types
<1>4. run[w] \in Runs /\ run[w].phase = "chats" /\ rows \in Snapshots
    BY DEF IInv, Types, GroupsSelected, At
<1>5. /\ q \in Runs /\ q.acc = run[w].acc /\ q.only = run[w].only /\ q.late = run[w].late
      /\ q.phase = "list" /\ q.view = rows
    BY <1>1, <1>2, <1>4 DEF Runs
<1>6. GoodRun(q, rows) /\ (q.late => "swallow" \in faults)
    BY <1>4, <1>5 DEF IInv, RunsGood, GoodRun, LateSwallowed
<1>. QED  BY <1>3, <1>4, <1>5, <1>6, Goes DEF GroupsSelected, history

LEMMA MembersListedInv ==
    ASSUME IInv, NEW w \in Workers, MembersListed(w)
    PROVE  IInv'
<1>1. PICK l \in Lists :
          run' = [run EXCEPT ![w].phase = "upsert", ![w].list = l, ![w].left = l]
    BY DEF MembersListed
<1>2. PICK q : q = [run[w] EXCEPT !.phase = "upsert", !.list = l, !.left = l]
    OBVIOUS
<1>3. run' = [run EXCEPT ![w] = q]
    BY <1>1, <1>2 DEF IInv, Types
<1>4. run[w] \in Runs /\ run[w].phase = "list" /\ run[w].todo # {} /\ l \in Seq(Users)
    BY ListsTyped DEF IInv, Types, MembersListed, At
<1>5. /\ q \in Runs /\ q.acc = run[w].acc /\ q.only = run[w].only /\ q.late = run[w].late
      /\ q.phase = "upsert" /\ q.view = run[w].view /\ q.todo = run[w].todo
      /\ q.list = l /\ q.left = l
    BY <1>2, <1>4 DEF Runs
<1>6. GoodRun(q, rows) /\ (q.late => "swallow" \in faults)
    BY <1>4, <1>5 DEF IInv, RunsGood, GoodRun, Gathered, LateSwallowed
<1>. QED  BY <1>3, <1>4, <1>5, <1>6, Goes DEF MembersListed, history

LEMMA AccessDeniedInv ==
    ASSUME IInv, NEW w \in Workers, AccessDenied(w)
    PROVE  IInv'
<1>1. CASE run[w].only = 0
    <2>1. PICK q : q = [run[w] EXCEPT !.todo = @ \ {Least(@)}]
        OBVIOUS
    <2>2. run' = [run EXCEPT ![w] = q] /\ run[w].phase = "list"
        BY <1>1, <2>1 DEF IInv, Types, AccessDenied, At
    <2>3. run[w] \in Runs
        BY DEF IInv, Types
    <2>4. /\ q \in Runs /\ q.acc = run[w].acc /\ q.only = run[w].only /\ q.late = run[w].late
          /\ q.phase = "list" /\ q.view = run[w].view
        BY <2>1, <2>2, <2>3 DEF Runs
    <2>5. GoodRun(q, rows) /\ (q.late => "swallow" \in faults)
        BY <2>2, <2>4 DEF IInv, RunsGood, GoodRun, LateSwallowed
    <2>. QED  BY <1>1, <2>2, <2>4, <2>5, Goes DEF AccessDenied, history
<1>2. CASE run[w].only # 0
    BY <1>2, Finishes DEF AccessDenied, At, db, history, IInv, Types
<1>. QED  BY <1>1, <1>2

LEMMA MemberUpsertedInv ==
    ASSUME IInv, NEW w \in Workers, MemberUpserted(w)
    PROVE  IInv'
<1>0. PICK full \in BOOLEAN :
          /\ rows' = IF full THEN rows \cup (run[w].new \cup Missing(w)) ELSE rows
          /\ run' = [run EXCEPT ![w].left = Tail(@),
                                ![w].new = IF full THEN {} ELSE run[w].new \cup Missing(w),
                                ![w].view = IF full THEN None ELSE Snapshot(w)]
    BY DEF MemberUpserted
<1>1. PICK new, view :
          /\ new = run[w].new \cup Missing(w)
          /\ view = IF full THEN None ELSE Snapshot(w)
          /\ rows' = IF full THEN rows \cup new ELSE rows
          /\ run' = [run EXCEPT ![w].left = Tail(@), ![w].new = IF full THEN {} ELSE new,
                                ![w].view = view]
    BY <1>0
<1>2. PICK q : q = [run[w] EXCEPT !.left = Tail(@), !.new = IF full THEN {} ELSE new,
                                  !.view = view]
    OBVIOUS
<1>3. run' = [run EXCEPT ![w] = q]
    BY <1>1, <1>2 DEF IInv, Types
<1>4. /\ run[w] \in Runs /\ run[w].phase = "upsert" /\ run[w].left # <<>> /\ rows \in Snapshots
      /\ UNCHANGED <<status, chats, locks, queue, history, listed>>
    BY DEF IInv, Types, MemberUpserted, At
<1>5. PICK c, h : c = Least(run[w].todo) /\ h = Head(run[w].left)
    OBVIOUS
<1>6. /\ run[w].todo # {} /\ Gathered(run[w], rows)
      /\ (run[w].view # None => run[w].view \subseteq rows)
    BY <1>4 DEF IInv, RunsGood, GoodRun
<1>7. c \in Chats
    BY <1>4, <1>5, <1>6, LeastChat DEF Runs
<1>8. /\ run[w].left \in Seq(Users) /\ h \in Users /\ Tail(run[w].left) \in Seq(Users)
      /\ \A u \in SeqRange(run[w].left) : u = h \/ u \in SeqRange(Tail(run[w].left))
    BY <1>4, <1>5, RangeOfTail DEF Runs
<1>9. /\ Wanted(w) = {<<0, h>>, <<c, h>>} /\ Wanted(w) \in Snapshots
      /\ <<c, h>> \in Snapshot(w) \cup run[w].new \cup Missing(w)
    BY <1>5, <1>7, <1>8 DEF Wanted, Snapshots, Missing
<1>10. Snapshot(w) \subseteq rows /\ Snapshot(w) \in Snapshots
    BY <1>4, <1>6 DEF Snapshot, Snapshots
<1>11. new \in Snapshots /\ rows' \in Snapshots /\ rows \subseteq rows'
    BY <1>1, <1>4, <1>9 DEF Missing, Snapshots, Runs
<1>12. view \in Snapshots \cup {None} /\ {} \in Snapshots
    BY <1>1, <1>10 DEF Snapshots
<1>13. q \in Runs
    BY <1>2, <1>4, <1>8, <1>11, <1>12 DEF Runs
<1>14. /\ q.acc = run[w].acc /\ q.only = run[w].only /\ q.late = run[w].late
       /\ q.phase = "upsert" /\ q.view = view /\ q.todo = run[w].todo
       /\ q.list = run[w].list /\ q.left = Tail(run[w].left)
       /\ q.new = IF full THEN {} ELSE new
    BY <1>2, <1>4 DEF Runs
<1>15. rows \cup new \subseteq rows' \cup q.new
    BY <1>1, <1>14
<1>16. Gathered(q, rows')
    <2>1. ASSUME NEW u \in SeqRange(q.list), u \notin SeqRange(q.left)
          PROVE  <<c, u>> \in rows' \cup q.new
        <3>1. CASE u = h
            BY <1>1, <1>9, <1>10, <1>15, <3>1
        <3>2. CASE u # h
            BY <1>1, <1>5, <1>6, <1>8, <1>14, <1>15, <2>1, <3>2 DEF Gathered
        <3>. QED  BY <3>1, <3>2
    <2>. QED  BY <1>5, <1>14, <2>1 DEF Gathered
<1>17. GoodRun(q, rows')
    <2>1. q.view # None => q.view \subseteq rows'
        BY <1>1, <1>10, <1>11, <1>14
    <2>2. q.acc \in Accounts
        BY <1>4, <1>14 DEF IInv, RunsGood, GoodRun
    <2>. QED  BY <1>6, <1>14, <1>16, <2>1, <2>2 DEF GoodRun
<1>18. q.late => "swallow" \in faults'
    BY <1>4, <1>14 DEF IInv, LateSwallowed, history
<1>19. StampedIsStored'
    BY <1>4, <1>11 DEF IInv, StampedIsStored
<1>20. /\ chats' \in [Accounts -> [Chats -> {"none", "never", "fresh", "stale"}]]
       /\ listed' \in [Accounts -> [Chats -> SUBSET Users]] /\ faults \subseteq faults'
       /\ UNCHANGED <<status, locks, queue>>
    BY <1>4 DEF IInv, Types, history
<1>. QED  BY <1>3, <1>4, <1>11, <1>13, <1>14, <1>17, <1>18, <1>19, <1>20, Moves

LEMMA MembersCommittedInv ==
    ASSUME IInv, NEW w \in Workers, MembersCommitted(w)
    PROVE  IInv'
<1>1. PICK q : q = [run[w] EXCEPT !.phase = "stamp", !.new = {}, !.view = None]
    OBVIOUS
<1>2. /\ run' = [run EXCEPT ![w] = q] /\ rows' = rows \cup run[w].new
    BY <1>1 DEF IInv, Types, MembersCommitted
<1>3. /\ run[w] \in Runs /\ run[w].phase = "upsert" /\ run[w].left = <<>> /\ rows \in Snapshots
      /\ UNCHANGED <<status, chats, locks, queue, history, listed>>
    BY DEF IInv, Types, MembersCommitted, At
<1>4. rows' \in Snapshots /\ rows \subseteq rows' /\ {} \in Snapshots
    BY <1>2, <1>3 DEF Runs, Snapshots
<1>5. q \in Runs
    BY <1>1, <1>3, <1>4 DEF Runs
<1>6. /\ q.acc = run[w].acc /\ q.only = run[w].only /\ q.late = run[w].late
      /\ q.phase = "stamp" /\ q.view = None /\ q.todo = run[w].todo
      /\ q.list = run[w].list /\ q.left = run[w].left /\ q.new = {}
    BY <1>1, <1>3 DEF Runs
<1>7. GoodRun(q, rows')
    <2>1. run[w].todo # {} /\ Gathered(run[w], rows) /\ run[w].acc \in Accounts
        BY <1>3 DEF IInv, RunsGood, GoodRun
    <2>2. Gathered(q, rows')
        BY <1>2, <1>6, <2>1 DEF Gathered
    <2>. QED  BY <1>3, <1>6, <2>1, <2>2 DEF GoodRun
<1>8. q.late => "swallow" \in faults'
    BY <1>3, <1>6 DEF IInv, LateSwallowed, history
<1>9. StampedIsStored'
    BY <1>3, <1>4 DEF IInv, StampedIsStored
<1>10. /\ chats' \in [Accounts -> [Chats -> {"none", "never", "fresh", "stale"}]]
       /\ listed' \in [Accounts -> [Chats -> SUBSET Users]] /\ faults \subseteq faults'
       /\ UNCHANGED <<status, locks, queue>>
    BY <1>3 DEF IInv, Types, history
<1>. QED  BY <1>2, <1>3, <1>4, <1>5, <1>6, <1>7, <1>8, <1>9, <1>10, Moves

\* The stamp: everyone listed for the chat is in the rows by now.
LEMMA ChatStampedInv ==
    ASSUME IInv, NEW w \in Workers, ChatStamped(w)
    PROVE  IInv'
<1>1. PICK a, c : a = run[w].acc /\ c = Least(run[w].todo)
    OBVIOUS
<1>2. PICK q : q = [run[w] EXCEPT !.phase = "list", !.todo = @ \ {c}, !.list = <<>>]
    OBVIOUS
<1>3. /\ run' = [run EXCEPT ![w] = q] /\ chats' = [chats EXCEPT ![a][c] = "fresh"]
      /\ listed' = [listed EXCEPT ![a][c] = SeqRange(run[w].list)]
    BY <1>1, <1>2 DEF IInv, Types, ChatStamped
<1>4. /\ run[w] \in Runs /\ run[w].phase = "stamp"
      /\ UNCHANGED <<status, rows, locks, queue, history>>
    BY DEF IInv, Types, ChatStamped, At
<1>5. /\ run[w].todo # {} /\ Gathered(run[w], rows) /\ run[w].acc \in Accounts
      /\ run[w].left = <<>> /\ run[w].new = {}
    BY <1>4 DEF IInv, RunsGood, GoodRun
<1>6. a \in Accounts /\ c \in Chats
    BY <1>1, <1>4, <1>5, LeastChat DEF Runs
<1>7. <<>> \in Seq(Users) /\ SeqRange(<<>>) = {}
    BY DEF SeqRange
<1>8. q \in Runs
    BY <1>2, <1>4, <1>7 DEF Runs
<1>9. /\ q.acc = run[w].acc /\ q.only = run[w].only /\ q.late = run[w].late
      /\ q.phase = "list" /\ q.view = run[w].view
    BY <1>2, <1>4 DEF Runs
<1>10. GoodRun(q, rows') /\ (q.late => "swallow" \in faults')
    BY <1>4, <1>9 DEF IInv, RunsGood, GoodRun, LateSwallowed, history
<1>11. SeqRange(run[w].list) \in SUBSET Users
    BY <1>4, RangeTyped DEF Runs
<1>12. /\ listed' \in [Accounts -> [Chats -> SUBSET Users]]
       /\ \A b \in Accounts, d \in Chats : listed'[b][d] =
             IF b = a /\ d = c THEN SeqRange(run[w].list) ELSE listed[b][d]
    <2>1. listed \in [Accounts -> [Chats -> SUBSET Users]]
        BY DEF IInv, Types
    <2>. QED  BY <1>3, <1>6, <1>11, <2>1, Update
<1>13. chats' \in [Accounts -> [Chats -> {"none", "never", "fresh", "stale"}]]
    <2>1. /\ chats \in [Accounts -> [Chats -> {"none", "never", "fresh", "stale"}]]
          /\ "fresh" \in {"none", "never", "fresh", "stale"}
        BY DEF IInv, Types
    <2>. QED  BY <1>3, <1>6, <2>1, Update
<1>14. StampedIsStored'
    <2>1. \A u \in SeqRange(run[w].list) : <<c, u>> \in rows
        BY <1>1, <1>5, <1>7 DEF Gathered
    <2>2. ASSUME NEW b \in Accounts, NEW d \in Chats, NEW u \in listed'[b][d]
          PROVE  <<d, u>> \in rows'
        <3>1. rows' = rows
            BY <1>4
        <3>. QED  BY <1>12, <2>1, <3>1 DEF IInv, StampedIsStored
    <2>. QED  BY <2>2 DEF StampedIsStored
<1>15. rows' \in Snapshots /\ rows \subseteq rows' /\ faults \subseteq faults'
       /\ UNCHANGED <<status, locks, queue>>
    BY <1>4 DEF IInv, Types, history
<1>. QED  BY <1>3, <1>4, <1>8, <1>9, <1>10, <1>12, <1>13, <1>14, <1>15, Moves

\* The ways to end.
LEMMA EndsInv ==
    ASSUME IInv, NEW w \in Workers,
           Done(w) \/ Flooded(w) \/ DuplicateKey(w) \/ Deadlocked(w) \/ Breaks(w)
    PROVE  IInv'
<1>1. Ends(w) /\ UNCHANGED <<chats, rows, queue, listed>>
    BY DEF Done, Flooded, DuplicateKey, Deadlocked, Breaks, db
<1>2. run[w].phase # "idle"
    BY DEF Done, Flooded, DuplicateKey, Deadlocked, Breaks, At
<1>3. faults \subseteq faults'
    BY DEF Done, Flooded, DuplicateKey, Deadlocked, Breaks, Strikes, history
<1>4. status' \in [Accounts -> {"verified", "cooldown"}]
    <2>1. status \in [Accounts -> {"verified", "cooldown"}]
        BY DEF IInv, Types
    <2>2. CASE Flooded(w)
        <3>1. status' = [status EXCEPT ![run[w].acc] = "cooldown"]
            BY <2>2 DEF Flooded
        <3>. QED  BY <2>1, <3>1
    <2>3. CASE Done(w) \/ DuplicateKey(w) \/ Deadlocked(w) \/ Breaks(w)
        BY <2>1, <2>3 DEF Done, DuplicateKey, Deadlocked, Breaks, db
    <2>. QED  BY <2>2, <2>3
<1>. QED  BY <1>1, <1>2, <1>3, <1>4, Finishes

LEMMA OverrunsInv ==
    ASSUME IInv, NEW w \in Workers, Overruns(w)
    PROVE  IInv'
<1>1. PICK q : q = [run[w] EXCEPT !.late = TRUE]
    OBVIOUS
<1>2. run' = [run EXCEPT ![w] = q] /\ run[w].phase = "chats" /\ run[w] \in Runs
    BY <1>1 DEF IInv, Types, Overruns, At
<1>3. /\ q \in Runs /\ q.acc = run[w].acc /\ q.only = run[w].only
      /\ q.phase = "chats" /\ q.view = run[w].view
    BY <1>1, <1>2 DEF Runs
<1>4. GoodRun(q, rows)
    BY <1>2, <1>3 DEF IInv, RunsGood, GoodRun
<1>5. faults \subseteq faults' /\ "swallow" \in faults'
    BY DEF Overruns, Strikes
<1>. QED  BY <1>2, <1>3, <1>4, <1>5, Goes DEF Overruns

-----------------------------------------------------------------------------
(* Locks, crashes and the users of the API.                                *)

\* A lock that expires is nobody's any more, or the lock of a late sync.
LEMMA LockExpiresInv ==
    ASSUME IInv, NEW a \in Accounts, LockExpires(a)
    PROVE  IInv'
<1>1. /\ syncLock' = [syncLock EXCEPT ![a] = None]
      /\ UNCHANGED <<status, chats, rows, parseLock, queue, run, faults, listed>>
    BY DEF LockExpires, db, history
<1>2. Types'
    BY <1>1 DEF IInv, Types
<1>3. RunsGood' /\ StampedIsStored' /\ ParsesHeld' /\ LateSwallowed'
    BY <1>1 DEF IInv, RunsGood, StampedIsStored, ParsesHeld, LateSwallowed
<1>4. SyncsHeld'
    <2>1. ASSUME NEW v \in Workers, run[v].phase # "idle", run[v].only = 0,
                 "swallow" \notin faults
          PROVE  syncLock'[run[v].acc] = v
        <3>1. syncLock[run[v].acc] = v /\ run[v].acc \in Accounts
            BY <2>1 DEF IInv, SyncsHeld, RunsGood, GoodRun
        <3>2. run[v].acc # a
            BY <2>1, <3>1 DEF LockExpires, IInv, LateSwallowed
        <3>. QED  BY <1>1, <3>1, <3>2 DEF IInv, Types
    <2>. QED  BY <1>1, <2>1 DEF SyncsHeld
<1>. QED  BY <1>2, <1>3, <1>4 DEF IInv

LEMMA ParseLockExpiresInv ==
    ASSUME IInv, NEW a \in Accounts, NEW c \in Chats, ParseLockExpires(a, c)
    PROVE  IInv'
<1>1. /\ parseLock' = [parseLock EXCEPT ![a][c] = None] /\ parseLock[a][c] = Orphan
      /\ UNCHANGED <<status, chats, rows, syncLock, queue, run, faults, listed>>
    BY DEF ParseLockExpires, db, history
<1>2. /\ parseLock' \in [Accounts -> [Chats -> Workers \cup {None, Orphan}]]
      /\ \A b \in Accounts, d \in Chats :
            parseLock'[b][d] = IF b = a /\ d = c THEN None ELSE parseLock[b][d]
    <2>1. /\ parseLock \in [Accounts -> [Chats -> Workers \cup {None, Orphan}]]
          /\ None \in Workers \cup {None, Orphan}
        BY DEF IInv, Types
    <2>. QED  BY <1>1, <2>1, Update
<1>3. Types'
    BY <1>1, <1>2 DEF IInv, Types
<1>4. RunsGood' /\ StampedIsStored' /\ SyncsHeld' /\ LateSwallowed'
    BY <1>1 DEF IInv, RunsGood, StampedIsStored, SyncsHeld, LateSwallowed
<1>5. ParsesHeld'
    <2>1. ASSUME NEW v \in Workers, run[v].phase # "idle", run[v].only # 0
          PROVE  parseLock'[run[v].acc][run[v].only] = v
        <3>1. /\ parseLock[run[v].acc][run[v].only] = v /\ run[v].acc \in Accounts
              /\ run[v].only \in Chats
            BY <2>1 DEF IInv, ParsesHeld, RunsGood, GoodRun, Types, Runs
        <3>2. v # Orphan
            BY SyncAssumption
        <3>. QED  BY <1>1, <1>2, <3>1, <3>2
    <2>. QED  BY <1>1, <2>1 DEF ParsesHeld
<1>. QED  BY <1>3, <1>4, <1>5 DEF IInv

LEMMA CrashInv ==
    ASSUME IInv, NEW w \in Workers, Crash(w)
    PROVE  IInv'
<1>1. /\ run' = [run EXCEPT ![w] = NoRun]
      /\ syncLock' = [a \in Accounts |-> IF syncLock[a] = w THEN Orphan ELSE syncLock[a]]
      /\ parseLock' = [a \in Accounts |-> [c \in Chats |->
                          IF parseLock[a][c] = w THEN Orphan ELSE parseLock[a][c]]]
      /\ queue' = queue \cup {Message(w)} /\ run[w].phase # "idle" /\ faults \subseteq faults'
      /\ UNCHANGED <<status, chats, rows, listed>>
    BY DEF Crash, At, Strikes, db
<1>2. run' \in [Workers -> Runs] /\ \A v \in Workers : run'[v] = IF v = w THEN NoRun ELSE run[v]
    BY <1>1, NoRunGood DEF IInv, Types
<1>3. Message(w) \in Accounts \X ({0} \cup Chats)
    BY <1>1 DEF IInv, Types, RunsGood, GoodRun, Runs, Message
<1>4. Types'
    BY <1>1, <1>2, <1>3 DEF IInv, Types
<1>5. RunsGood' /\ StampedIsStored' /\ LateSwallowed'
    BY <1>1, <1>2, NoRunGood DEF IInv, RunsGood, StampedIsStored, LateSwallowed
<1>6. SyncsHeld'
    <2>1. ASSUME NEW v \in Workers, run'[v].phase # "idle", run'[v].only = 0,
                 "swallow" \notin faults'
          PROVE  syncLock'[run'[v].acc] = v
        <3>1. v # w /\ run'[v] = run[v]
            BY <1>2, <2>1, NoRunGood
        <3>2. syncLock[run[v].acc] = v /\ run[v].acc \in Accounts
            BY <1>1, <2>1, <3>1 DEF IInv, SyncsHeld, RunsGood, GoodRun
        <3>. QED  BY <1>1, <3>1, <3>2
    <2>. QED  BY <2>1 DEF SyncsHeld
<1>7. ParsesHeld'
    <2>1. ASSUME NEW v \in Workers, run'[v].phase # "idle", run'[v].only # 0
          PROVE  parseLock'[run'[v].acc][run'[v].only] = v
        <3>1. v # w /\ run'[v] = run[v]
            BY <1>2, <2>1, NoRunGood
        <3>2. /\ parseLock[run[v].acc][run[v].only] = v /\ run[v].acc \in Accounts
              /\ run[v].only \in Chats
            BY <2>1, <3>1 DEF IInv, ParsesHeld, RunsGood, GoodRun, Types, Runs
        <3>. QED  BY <1>1, <3>1, <3>2
    <2>. QED  BY <2>1 DEF ParsesHeld
<1>. QED  BY <1>4, <1>5, <1>6, <1>7 DEF IInv

\* What neither the runs nor the locks notice.
LEMMA OutsideInv ==
    ASSUME IInv,
           \/ \E w \in Workers : Redeliver(w)
           \/ \E a \in Accounts : CooldownEnds(a) \/ AsksSync(a)
           \/ \E a \in Accounts, c \in Chats : Ages(a, c) \/ AsksParse(a, c)
    PROVE  IInv'
<1>1. CASE \E w \in Workers : Redeliver(w)
    <2>1. PICK w \in Workers : Redeliver(w)
        BY <1>1
    <2>2. Message(w) \in Accounts \X ({0} \cup Chats)
        BY <2>1 DEF IInv, Types, RunsGood, GoodRun, Runs, Message, Redeliver, At
    <2>. QED  BY <2>1, <2>2, Stays DEF Redeliver, Strikes, db, IInv, Types
<1>2. CASE \E a \in Accounts : CooldownEnds(a)
    <2>1. PICK a \in Accounts : CooldownEnds(a)
        BY <1>2
    <2>. QED  BY <2>1, Stays DEF CooldownEnds, history, IInv, Types
<1>3. CASE \E a \in Accounts : AsksSync(a)
    <2>1. PICK a \in Accounts : AsksSync(a)
        BY <1>3
    <2>. QED  BY <2>1, Stays DEF AsksSync, Asks, db, IInv, Types
<1>4. CASE \E a \in Accounts, c \in Chats : Ages(a, c)
    <2>1. PICK a \in Accounts, c \in Chats : Ages(a, c)
        BY <1>4
    <2>2. /\ chats \in [Accounts -> [Chats -> {"none", "never", "fresh", "stale"}]]
          /\ "stale" \in {"none", "never", "fresh", "stale"}
          /\ chats' = [chats EXCEPT ![a][c] = "stale"]
        BY <2>1 DEF IInv, Types, Ages
    <2>3. chats' \in [Accounts -> [Chats -> {"none", "never", "fresh", "stale"}]]
        BY <2>2, Update
    <2>. QED  BY <2>1, <2>3, Stays DEF Ages, history, IInv, Types
<1>5. CASE \E a \in Accounts, c \in Chats : AsksParse(a, c)
    <2>1. PICK a \in Accounts, c \in Chats : AsksParse(a, c)
        BY <1>5
    <2>. QED  BY <2>1, Stays DEF AsksParse, Asks, db, IInv, Types
<1>. QED  BY <1>1, <1>2, <1>3, <1>4, <1>5

-----------------------------------------------------------------------------
(* The theorems.                                                           *)

LEMMA InitInv == Init => IInv
<1>. SUFFICES ASSUME Init PROVE IInv
    OBVIOUS
<1>1. {} \in Snapshots
    BY DEF Snapshots
<1>2. Types
    BY <1>1, NoRunGood DEF Init, Types
<1>3. RunsGood /\ SyncsHeld /\ ParsesHeld /\ LateSwallowed
    BY NoRunGood DEF Init, RunsGood, SyncsHeld, ParsesHeld, LateSwallowed
<1>4. StampedIsStored
    BY DEF Init, StampedIsStored
<1>. QED  BY <1>2, <1>3, <1>4 DEF IInv

LEMMA NextInv == IInv /\ [Next]_vars => IInv'
<1>. SUFFICES ASSUME IInv, [Next]_vars PROVE IInv'
    OBVIOUS
<1>1. ASSUME NEW w \in Workers, WorkerStep(w)
      PROVE  IInv'
    BY <1>1, DialogsInv, ChatUpsertedInv, GroupsSelectedInv, MembersListedInv, AccessDeniedInv,
       MemberUpsertedInv, MembersCommittedInv, ChatStampedInv, EndsInv DEF WorkerStep
<1>2. ASSUME NEW w \in Workers, Starts(w)
      PROVE  IInv'
    BY <1>2, SyncStartsInv, ParseStartsInv DEF Starts
<1>3. ASSUME NEW w \in Workers, Breaks(w) \/ Overruns(w) \/ Crash(w) \/ Redeliver(w)
      PROVE  IInv'
    BY <1>3, EndsInv, OverrunsInv, CrashInv, OutsideInv
<1>4. ASSUME NEW a \in Accounts, LockExpires(a) \/ CooldownEnds(a) \/ AsksSync(a)
      PROVE  IInv'
    BY <1>4, LockExpiresInv, OutsideInv
<1>5. ASSUME NEW a \in Accounts, NEW c \in Chats,
             ParseLockExpires(a, c) \/ Ages(a, c) \/ AsksParse(a, c)
      PROVE  IInv'
    BY <1>5, ParseLockExpiresInv, OutsideInv
<1>6. CASE UNCHANGED vars
    BY <1>6, Stays DEF vars, db, locks, history, IInv, Types
<1>. QED  BY <1>1, <1>2, <1>3, <1>4, <1>5, <1>6 DEF Next

LEMMA Invariance == Spec => []IInv
BY InitInv, NextInv, PTL DEF Spec

\* Every variable keeps its shape, whatever is listed, denied or interrupted.
THEOREM SyncTypes == Spec => []TypeOK
<1>1. IInv => TypeOK
    BY DEF IInv, Types, Runs, TypeOK
<1>. QED  BY <1>1, Invariance, PTL

\* A chat that counts as parsed has every member that was listed for it in the
\* database: the stamp of _parse_chat_members comes after the commits, and a
\* rollback takes back only what no stamp stands for.
THEOREM StampsHold == Spec => []StampedIsStored
<1>1. IInv => StampedIsStored
    BY DEF IInv
<1>. QED  BY <1>1, Invariance, PTL

\* SET NX keeps two runs of a kind apart although every run deletes its lock
\* without looking at the value: no run of the kind is left when one begins,
\* unless a sync has swallowed its soft limit and outlived its lock.
THEOREM RunsAlone == Spec => []OneOfAKind
<1>1. IInv => OneOfAKind
    <2>. SUFFICES ASSUME IInv, NEW v \in Workers, NEW w \in Workers, v # w,
                         run[v].phase # "idle", Message(v) = Message(w)
                  PROVE  run[v].only = 0 /\ "swallow" \in faults
        BY DEF OneOfAKind
    <2>1. run[v].acc = run[w].acc /\ run[v].only = run[w].only
        BY DEF Message
    <2>2. CASE run[w].phase # "idle"
        BY <2>1, <2>2 DEF IInv, SyncsHeld, ParsesHeld
    <2>3. CASE run[w].phase = "idle"
        BY <2>1, <2>3, SyncAssumption DEF IInv, RunsGood, GoodRun
    <2>. QED  BY <2>2, <2>3
<1>. QED  BY <1>1, Invariance, PTL

-----------------------------------------------------------------------------
(* Why runs end: nobody waits for ever, and every step is one towards the  *)
(* end.                                                                    *)

\* Only an upsert has a transaction with rows in it.
RowsHeld == \A w \in Workers : run[w].new # {} => run[w].phase = "upsert"

\* A run waits for a row that another transaction holds ...
Waits(w) ==
    /\ At(w, {"upsert"}) /\ run[w].left # <<>>
    /\ \E v \in Workers : Blocks(v, w)

\* ... and what it waits for waits in turn, which the database ends.
Circular(w) ==
    \E S \in SUBSET Workers :
        /\ w \in S
        /\ \A v \in S :
              /\ At(v, {"upsert"}) /\ run[v].left # <<>>
              /\ \E u \in S : Blocks(u, v)

\* If a run waits outside of any circle, a run that does not wait is at work on
\* rows that are waited for.
NoStandstill ==
    \A w \in Workers :
        Waits(w) =>
            \/ Circular(w)
            \/ \E v \in Workers :
                  /\ At(v, {"upsert"}) /\ ~Waits(v)
                  /\ \E u \in Workers : Waits(u) /\ Blocks(v, u)

\* How far a run is from its end: its stage, the chats left, the members left.
Stage(q) ==
    CASE q.phase = "idle"    -> 0
      [] q.phase = "dialogs" -> 3
      [] q.phase = "chats"   -> 2
      [] OTHER               -> 1

Within(q) ==
    CASE q.phase = "list"   -> Cardinality(Users) + 2
      [] q.phase = "upsert" -> Len(q.left) + 1
      [] OTHER              -> 0

Nearer(p, q) ==
    \/ Stage(p) < Stage(q)
    \/ /\ Stage(p) = Stage(q)
       /\ \/ Cardinality(p.todo) < Cardinality(q.todo)
          \/ p.todo = q.todo /\ Within(p) < Within(q)

\* A step of its own brings a run nearer to its end; nothing throws it back.
Approach ==
    \A w \in Workers :
        /\ WorkerStep(w) => Nearer(run'[w], run[w])
        /\ ~At(w, {"idle"}) => \/ Nearer(run'[w], run[w])
                               \/ run'[w] = run[w]
                               \/ run'[w] = [run[w] EXCEPT !.late = TRUE]

LEMMA Fewer ==
    ASSUME NEW S \in SUBSET Chats, S # {}
    PROVE  Cardinality(S \ {Least(S)}) < Cardinality(S)
<1>1. Least(S) \in S
    BY LeastChat
<1>2. IsFiniteSet(S)
    BY SyncAssumption, FS_Subset
<1>3. /\ Cardinality(S) \in Nat
      /\ Cardinality(S \ {Least(S)}) = Cardinality(S) - 1
    BY <1>1, <1>2, FS_RemoveElement, FS_CardinalityType
<1>. QED  BY <1>3

LEMMA ListsBounded ==
    ASSUME NEW l \in Lists
    PROVE  Len(l) \in Nat /\ Cardinality(Users) \in Nat /\ Len(l) <= Cardinality(Users)
<1>1. Cardinality(Users) \in Nat
    BY SyncAssumption, FS_CardinalityType
<1>2. PICK n \in 0..Cardinality(Users) : l \in [1..n -> Users]
    BY DEF Lists
<1>3. n \in Nat /\ n <= Cardinality(Users)
    BY <1>1, <1>2
<1>4. Len(l) = n
    BY <1>2, <1>3
<1>. QED  BY <1>1, <1>3, <1>4

LEMMA EndIsNearer ==
    ASSUME NEW q, q.phase # "idle"
    PROVE  Nearer(NoRun, q)
<1>1. Stage(NoRun) = 0
    BY DEF Stage, NoRun
<1>2. Stage(q) \in {1, 2, 3}
    BY DEF Stage
<1>. QED  BY <1>1, <1>2 DEF Nearer

LEMMA OwnStep ==
    ASSUME IInv, RowsHeld, NEW w \in Workers, WorkerStep(w)
    PROVE  \E q : /\ run' = [run EXCEPT ![w] = q] /\ Nearer(q, run[w])
                  /\ q.new # {} => q.phase = "upsert"
<1>1. /\ run[w] \in Runs /\ run \in [Workers -> Runs]
      /\ run[w].new # {} => run[w].phase = "upsert"
    BY DEF IInv, Types, RowsHeld
<1>2. CASE Ends(w)
    <2>1. run[w].phase # "idle"
        BY DEF WorkerStep, Dialogs, ChatUpserted, GroupsSelected, MembersListed, AccessDenied,
               MemberUpserted, MembersCommitted, ChatStamped, Done, Flooded, DuplicateKey,
               Deadlocked, At
    <2>2. Nearer(NoRun, run[w])
        BY <2>1, EndIsNearer
    <2>3. run' = [run EXCEPT ![w] = NoRun] /\ NoRun.new = {}
        BY <1>2 DEF Ends, NoRun
    <2>. QED  BY <2>2, <2>3
<1>3. CASE Dialogs(w)
    <2>1. PICK D \in SUBSET Chats :
              run' = [run EXCEPT ![w].phase = "chats", ![w].todo = D]
        BY <1>3 DEF Dialogs
    <2>2. PICK q : q = [run[w] EXCEPT !.phase = "chats", !.todo = D]
        OBVIOUS
    <2>3. /\ run' = [run EXCEPT ![w] = q] /\ q.phase = "chats" /\ q.new = run[w].new
          /\ run[w].phase = "dialogs"
        BY <1>1, <1>3, <2>1, <2>2 DEF Runs, Dialogs, At
    <2>4. Nearer(q, run[w])
        BY <2>3 DEF Nearer, Stage
    <2>. QED  BY <1>1, <2>3, <2>4
<1>4. CASE ChatUpserted(w)
    <2>1. PICK q : q = [run[w] EXCEPT !.todo = @ \ {Least(run[w].todo)}]
        OBVIOUS
    <2>2. run' = [run EXCEPT ![w] = q]
        BY <1>1, <1>4, <2>1 DEF ChatUpserted
    <2>3. /\ q.phase = "chats" /\ q.new = run[w].new
          /\ q.todo = run[w].todo \ {Least(run[w].todo)}
          /\ run[w].phase = "chats" /\ run[w].todo # {} /\ run[w].todo \in SUBSET Chats
        BY <1>1, <1>4, <2>1 DEF Runs, ChatUpserted, At
    <2>4. Nearer(q, run[w])
        BY <2>3, Fewer DEF Nearer, Stage
    <2>. QED  BY <1>1, <2>2, <2>3, <2>4
<1>5. CASE GroupsSelected(w)
    <2>1. PICK D : run' = [run EXCEPT ![w].phase = "list", ![w].view = rows, ![w].todo = D]
        BY <1>5 DEF GroupsSelected
    <2>2. PICK q : q = [run[w] EXCEPT !.phase = "list", !.view = rows, !.todo = D]
        OBVIOUS
    <2>3. /\ run' = [run EXCEPT ![w] = q] /\ q.phase = "list" /\ q.new = run[w].new
          /\ run[w].phase = "chats"
        BY <1>1, <1>5, <2>1, <2>2 DEF Runs, GroupsSelected, At
    <2>4. Nearer(q, run[w])
        BY <2>3 DEF Nearer, Stage
    <2>. QED  BY <1>1, <2>3, <2>4
<1>6. CASE MembersListed(w)
    <2>1. PICK l \in Lists :
              run' = [run EXCEPT ![w].phase = "upsert", ![w].list = l, ![w].left = l]
        BY <1>6 DEF MembersListed
    <2>2. PICK q : q = [run[w] EXCEPT !.phase = "upsert", !.list = l, !.left = l]
        OBVIOUS
    <2>3. /\ run' = [run EXCEPT ![w] = q] /\ q.phase = "upsert" /\ q.left = l
          /\ q.todo = run[w].todo /\ run[w].phase = "list"
        BY <1>1, <1>6, <2>1, <2>2 DEF Runs, MembersListed, At
    <2>4. Stage(q) = Stage(run[w])
        BY <2>3 DEF Stage
    <2>5. Within(q) = Len(l) + 1 /\ Within(run[w]) = Cardinality(Users) + 2
        BY <2>3 DEF Within
    <2>6. Within(q) < Within(run[w])
        BY <2>5, ListsBounded
    <2>. QED  BY <2>3, <2>4, <2>6 DEF Nearer
<1>7. CASE AccessDenied(w) /\ run[w].only = 0
    <2>1. PICK q : q = [run[w] EXCEPT !.todo = @ \ {Least(@)}]
        OBVIOUS
    <2>2. run' = [run EXCEPT ![w] = q]
        BY <1>1, <1>7, <2>1 DEF AccessDenied
    <2>3. /\ q.phase = "list" /\ q.new = run[w].new
          /\ q.todo = run[w].todo \ {Least(run[w].todo)}
          /\ run[w].phase = "list" /\ run[w].todo # {} /\ run[w].todo \in SUBSET Chats
        BY <1>1, <1>7, <2>1 DEF Runs, AccessDenied, At
    <2>4. Nearer(q, run[w])
        BY <2>3, Fewer DEF Nearer, Stage
    <2>. QED  BY <1>1, <2>2, <2>3, <2>4
<1>8. CASE MemberUpserted(w)
    <2>1. PICK n, x : run' = [run EXCEPT ![w].left = Tail(@), ![w].new = n, ![w].view = x]
        BY <1>8 DEF MemberUpserted
    <2>2. PICK q : q = [run[w] EXCEPT !.left = Tail(@), !.new = n, !.view = x]
        OBVIOUS
    <2>3. run' = [run EXCEPT ![w] = q]
        BY <1>1, <2>1, <2>2
    <2>4. /\ q.phase = "upsert" /\ q.left = Tail(run[w].left) /\ q.todo = run[w].todo
          /\ run[w].phase = "upsert" /\ run[w].left # <<>> /\ run[w].left \in Seq(Users)
        BY <1>1, <1>8, <2>2 DEF Runs, MemberUpserted, At
    <2>5. Stage(q) = Stage(run[w])
        BY <2>4 DEF Stage
    <2>6. /\ Within(q) = Len(Tail(run[w].left)) + 1
          /\ Within(run[w]) = Len(run[w].left) + 1
        BY <2>4 DEF Within
    <2>7. Within(q) < Within(run[w])
        BY <2>4, <2>6
    <2>. QED  BY <2>3, <2>4, <2>5, <2>7 DEF Nearer
<1>9. CASE MembersCommitted(w)
    <2>1. PICK q : q = [run[w] EXCEPT !.phase = "stamp", !.new = {}, !.view = None]
        OBVIOUS
    <2>2. run' = [run EXCEPT ![w] = q]
        BY <1>1, <1>9, <2>1 DEF MembersCommitted
    <2>3. /\ q.phase = "stamp" /\ q.new = {} /\ q.todo = run[w].todo
          /\ run[w].phase = "upsert" /\ run[w].left = <<>> /\ run[w].left \in Seq(Users)
        BY <1>1, <1>9, <2>1 DEF Runs, MembersCommitted, At
    <2>4. Within(q) = 0 /\ Within(run[w]) = Len(run[w].left) + 1
        BY <2>3 DEF Within
    <2>5. Within(q) < Within(run[w])
        BY <2>3, <2>4
    <2>6. Stage(q) = Stage(run[w])
        BY <2>3 DEF Stage
    <2>. QED  BY <2>2, <2>3, <2>5, <2>6 DEF Nearer
<1>10. CASE ChatStamped(w)
    <2>1. PICK q : q = [run[w] EXCEPT !.phase = "list", !.todo = @ \ {Least(run[w].todo)},
                                      !.list = <<>>]
        OBVIOUS
    <2>2. run' = [run EXCEPT ![w] = q]
        BY <1>1, <1>10, <2>1 DEF ChatStamped
    <2>3. /\ q.phase = "list" /\ q.new = run[w].new
          /\ q.todo = run[w].todo \ {Least(run[w].todo)}
          /\ run[w].phase = "stamp" /\ run[w].todo \in SUBSET Chats
        BY <1>1, <1>10, <2>1 DEF Runs, ChatStamped, At
    <2>4. run[w].todo # {}
        BY <2>3 DEF IInv, RunsGood, GoodRun
    <2>5. Nearer(q, run[w])
        BY <2>3, <2>4, Fewer DEF Nearer, Stage
    <2>. QED  BY <1>1, <2>2, <2>3, <2>5
<1>11. CASE \/ Done(w) \/ Flooded(w) \/ DuplicateKey(w) \/ Deadlocked(w)
            \/ AccessDenied(w) /\ run[w].only # 0
    BY <1>2, <1>11 DEF Done, Flooded, DuplicateKey, Deadlocked, AccessDenied
<1>. QED  BY <1>3, <1>4, <1>5, <1>6, <1>7, <1>8, <1>9, <1>10, <1>11 DEF WorkerStep

\* What else happens starts a run, ends it, makes it late or leaves it alone.
LEMMA OtherStep ==
    ASSUME IInv, RowsHeld, [Next]_vars, \A w \in Workers : ~WorkerStep(w)
    PROVE  \/ UNCHANGED run
           \/ \E w \in Workers : \E q :
                 /\ run' = [run EXCEPT ![w] = q] /\ (q.new # {} => q.phase = "upsert")
                 /\ \/ run[w].phase = "idle"
                    \/ run[w].phase # "idle" /\ q = NoRun
                    \/ q = [run[w] EXCEPT !.late = TRUE]
<1>1. \A w \in Workers : run[w] \in Runs /\ (run[w].new # {} => run[w].phase = "upsert")
    BY DEF IInv, Types, RowsHeld
<1>2. NoRun.new = {} /\ NoRun.phase = "idle"
    BY DEF NoRun
<1>3. ASSUME NEW w \in Workers, Starts(w)
      PROVE  \/ UNCHANGED run
             \/ \E q : /\ run' = [run EXCEPT ![w] = q] /\ (q.new # {} => q.phase = "upsert")
                       /\ run[w].phase = "idle"
    <2>1. ASSUME NEW a \in Accounts, SyncStarts(w, a), run' # run
          PROVE  \E q : /\ run' = [run EXCEPT ![w] = q] /\ (q.new # {} => q.phase = "upsert")
                        /\ run[w].phase = "idle"
        <3>1. PICK q : q = [NoRun EXCEPT !.acc = a, !.phase = "dialogs"]
            OBVIOUS
        <3>2. q.new = {}
            BY <3>1 DEF NoRun
        <3>3. run' = [run EXCEPT ![w] = q] /\ run[w].phase = "idle"
            BY <2>1, <3>1 DEF SyncStarts, At
        <3>. QED  BY <3>2, <3>3
    <2>2. ASSUME NEW a \in Accounts, NEW c \in Chats, ParseStarts(w, a, c), run' # run
          PROVE  \E q : /\ run' = [run EXCEPT ![w] = q] /\ (q.new # {} => q.phase = "upsert")
                        /\ run[w].phase = "idle"
        <3>1. PICK q : q = [NoRun EXCEPT !.acc = a, !.only = c, !.phase = "list",
                                         !.todo = {c}, !.view = rows]
            OBVIOUS
        <3>2. q.new = {}
            BY <3>1 DEF NoRun
        <3>3. run' = [run EXCEPT ![w] = q] /\ run[w].phase = "idle"
            BY <2>2, <3>1 DEF ParseStarts, At
        <3>. QED  BY <3>2, <3>3
    <2>. QED  BY <1>3, <2>1, <2>2 DEF Starts
<1>4. ASSUME NEW w \in Workers, Breaks(w) \/ Crash(w)
      PROVE  run' = [run EXCEPT ![w] = NoRun] /\ run[w].phase # "idle"
    BY <1>4 DEF Breaks, Crash, Ends, At
<1>5. ASSUME NEW w \in Workers, Overruns(w)
      PROVE  \E q : /\ run' = [run EXCEPT ![w] = q] /\ (q.new # {} => q.phase = "upsert")
                    /\ q = [run[w] EXCEPT !.late = TRUE]
    <2>1. PICK q : q = [run[w] EXCEPT !.late = TRUE]
        OBVIOUS
    <2>2. q.new = run[w].new /\ q.phase = run[w].phase
        BY <1>1, <2>1 DEF Runs
    <2>3. run' = [run EXCEPT ![w] = q]
        BY <1>5, <2>1 DEF Overruns, IInv, Types
    <2>. QED  BY <1>1, <2>1, <2>2, <2>3
<1>6. ASSUME NEW w \in Workers, Redeliver(w)
      PROVE  UNCHANGED run
    BY <1>6 DEF Redeliver
<1>7. ASSUME NEW a \in Accounts, LockExpires(a) \/ CooldownEnds(a) \/ AsksSync(a)
      PROVE  UNCHANGED run
    BY <1>7 DEF LockExpires, CooldownEnds, AsksSync, Asks
<1>8. ASSUME NEW a \in Accounts, NEW c \in Chats,
             ParseLockExpires(a, c) \/ Ages(a, c) \/ AsksParse(a, c)
      PROVE  UNCHANGED run
    BY <1>8 DEF ParseLockExpires, Ages, AsksParse, Asks
<1>9. CASE UNCHANGED vars
    BY <1>9 DEF vars
<1>10. ASSUME NEW w \in Workers, \/ Starts(w) \/ Breaks(w) \/ Crash(w)
                                 \/ Overruns(w) \/ Redeliver(w)
       PROVE  \/ UNCHANGED run
              \/ \E q : /\ run' = [run EXCEPT ![w] = q]
                        /\ (q.new # {} => q.phase = "upsert")
                        /\ \/ run[w].phase = "idle"
                           \/ run[w].phase # "idle" /\ q = NoRun
                           \/ q = [run[w] EXCEPT !.late = TRUE]
    BY <1>2, <1>3, <1>4, <1>5, <1>6, <1>10
<1>. QED  BY <1>7, <1>8, <1>9, <1>10 DEF Next

LEMMA RowsHeldInvariant == Spec => [](IInv /\ RowsHeld)
<1>1. Init => RowsHeld
    BY DEF Init, RowsHeld, NoRun
<1>2. IInv /\ RowsHeld /\ [Next]_vars => RowsHeld'
    <2>. SUFFICES ASSUME IInv, RowsHeld, [Next]_vars PROVE RowsHeld'
        OBVIOUS
    <2>1. CASE UNCHANGED run
        BY <2>1 DEF RowsHeld
    <2>2. CASE \E w \in Workers : \E q :
                  run' = [run EXCEPT ![w] = q] /\ (q.new # {} => q.phase = "upsert")
        BY <2>2 DEF RowsHeld, IInv, Types
    <2>. QED  BY <2>1, <2>2, OwnStep, OtherStep
<1>. QED  BY <1>1, <1>2, InitInv, NextInv, PTL DEF Spec

\* However many transactions of _parse_chat_members wait for each other's rows,
\* they wait in a circle, which InnoDB finds, or for one that goes on.
THEOREM WaitsResolve == Spec => []NoStandstill
<1>1. IInv /\ RowsHeld => NoStandstill
    <2>. SUFFICES ASSUME IInv, RowsHeld, NEW w \in Workers, Waits(w), ~Circular(w)
                  PROVE  \E v \in Workers :
                            /\ At(v, {"upsert"}) /\ ~Waits(v)
                            /\ \E u \in Workers : Waits(u) /\ Blocks(v, u)
        BY DEF NoStandstill
    <2>1. PICK S : S = {v \in Workers : Waits(v)}
        OBVIOUS
    <2>2. PICK u \in S : \A v \in S : ~Blocks(v, u)
        BY <2>1 DEF Circular, Waits
    <2>3. PICK v \in Workers : Blocks(v, u)
        BY <2>1, <2>2 DEF Waits
    <2>4. At(v, {"upsert"})
        BY <2>3 DEF Blocks, RowsHeld, At
    <2>. QED  BY <2>1, <2>2, <2>3, <2>4
<1>. QED  BY <1>1, RowsHeldInvariant, PTL

\* Every step of a run of tg_sync_tasks brings it nearer to its end, in an
\* order without infinite descent, and no step of anybody throws it back.
THEOREM RunsApproach == Spec => [][Approach]_vars
<1>1. IInv /\ RowsHeld /\ [Next]_vars => [Approach]_vars
    <2>. SUFFICES ASSUME IInv, RowsHeld, [Next]_vars, NEW w \in Workers
                  PROVE  /\ WorkerStep(w) => Nearer(run'[w], run[w])
                         /\ ~At(w, {"idle"}) => \/ Nearer(run'[w], run[w])
                                                \/ run'[w] = run[w]
                                                \/ run'[w] = [run[w] EXCEPT !.late = TRUE]
        BY DEF Approach
    <2>1. run \in [Workers -> Runs]
        BY DEF IInv, Types
    <2>2. ASSUME WorkerStep(w)
          PROVE  Nearer(run'[w], run[w])
        BY <2>1, <2>2, OwnStep
    <2>3. ASSUME NEW v \in Workers, WorkerStep(v), v # w
          PROVE  run'[w] = run[w]
        BY <2>1, <2>3, OwnStep
    <2>4. ASSUME \A v \in Workers : ~WorkerStep(v), run[w].phase # "idle"
          PROVE  \/ Nearer(run'[w], run[w])
                 \/ run'[w] = run[w]
                 \/ run'[w] = [run[w] EXCEPT !.late = TRUE]
        <3>1. CASE UNCHANGED run
            BY <3>1
        <3>2. ASSUME NEW v \in Workers, NEW q, run' = [run EXCEPT ![v] = q],
                     \/ run[v].phase = "idle"
                     \/ run[v].phase # "idle" /\ q = NoRun
                     \/ q = [run[v] EXCEPT !.late = TRUE]
              PROVE  \/ Nearer(run'[w], run[w])
                     \/ run'[w] = run[w]
                     \/ run'[w] = [run[w] EXCEPT !.late = TRUE]
            BY <2>1, <2>4, <3>2, EndIsNearer
        <3>. QED  BY <2>4, <3>1, <3>2, OtherStep
    <2>. QED  BY <2>2, <2>3, <2>4 DEF At
<1>. QED  BY <1>1, RowsHeldInvariant, PTL DEF Spec

=============================================================================
