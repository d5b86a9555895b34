----------------------------- MODULE AccountWork -----------------------------
(***************************************************************************)
(* What is done to signed-in Telegram accounts: verification, health       *)
(* checks and warming cycles by Celery workers, the two periodic tasks     *)
(* that take accounts out of cooldown and dispatch warming, and the API    *)
(* handlers that read and set an account's status.                         *)
(*                                                                         *)
(* A task remembers what it loaded, and its commit writes a column only    *)
(* where the new value differs from the remembered one (Written), over     *)
(* whatever is there by now.  Verification and warming each take a lease,  *)
(* a conditional UPDATE of columns of the account's own row.               *)
(***************************************************************************)
EXTENDS Integers, FiniteSets

CONSTANTS
    Accounts,    \* TelegramAccount.id, in the order a query returns the rows
    Workers,     \* worker processes
    None,
    Orphan,      \* the task id a dead run has left in a lease
    Target,      \* the warming_day that ends warming (15)
    Setback,     \* days a FloodWait costs (3)
    MaxDay,      \* bound: cycles are run up to this warming_day
    Operations,  \* the API operations the users perform
    Calls,       \* bound: how many of them
    MaxFaults    \* bound: how many kinds of fault strike, each once

\* Worker crashes, messages delivered twice, soft time limits that end a run,
\* that strike a verification after its verdict, and that _safe_action swallows.
Faults == {"crash", "duplicate", "timeout", "lag", "swallow"}

AllOperations == {"verify", "health", "warmup", "activate", "disconnect", "live"}

ASSUME AccountAssumption ==
    /\ Accounts \subseteq Nat
    /\ None \notin Workers
    /\ None \notin Accounts
    /\ None \notin AllOperations \cup {"verify", "health", "warm"}
    /\ Orphan \notin Workers \cup {None}
    /\ Target \in Nat \ {0}
    /\ Setback \in Nat
    /\ MaxDay \in Nat /\ MaxDay >= Target
    /\ Operations \subseteq AllOperations
    /\ Calls \in Nat
    /\ MaxFaults \in Nat

VARIABLES
    acc,      \* the columns of each account's row
    vlease,   \* verifying, verifying_task_id and verifying_started_at
    wlease,   \* warming_task_id and warming_task_started_at
    queue,    \* messages the broker holds: <<task, account>>
    run,      \* the task each worker is running
    sweep,    \* what check_tg_cooldowns is about to commit
    call,     \* the API request that has read and not yet written
    calls,    \* API operations still to come
    faults    \* the kinds of fault that have struck

leases == <<vlease, wlease>>
env    == <<queue, calls, faults>>
vars   == <<acc, leases, run, sweep, call, env>>

Statuses == {"verified", "active", "warming", "cooldown", "password_required", "error",
             "banned", "disconnected"}

\* A timestamp column: NULL, still to come, or past.
Stamps == {"null", "ahead", "past"}

Rows == [status: Statuses, session: BOOLEAN, until: Stamps, day: 0..MaxDay,
         flood: BOOLEAN, rest: Stamps]

Free == [holder |-> None, over |-> FALSE]

NewRow == [status |-> "verified", session |-> TRUE, until |-> "null", day |-> 0,
           flood |-> FALSE, rest |-> "null"]

NoRun == [task |-> None, acc |-> None, phase |-> "idle", late |-> FALSE, seen |-> NewRow]

NoCall == [op |-> None, acc |-> None, seen |-> NewRow]

NoSweep == [a \in Accounts |-> None]

Init ==
    /\ acc = [a \in Accounts |-> NewRow]
    /\ vlease = [a \in Accounts |-> Free]
    /\ wlease = [a \in Accounts |-> Free]
    /\ queue = {}
    /\ run = [w \in Workers |-> NoRun]
    /\ sweep = NoSweep
    /\ call = NoCall
    /\ calls = Calls
    /\ faults = {}

-----------------------------------------------------------------------------
(* Helpers.                                                                *)

\* What a column holds after a session that remembers seen has committed new.
Written(current, seen, new) == IF new = seen THEN current ELSE new

Strikes(f) ==
    /\ f \notin faults
    /\ Cardinality(faults) < MaxFaults
    /\ faults' = faults \cup {f}

Larger(m, n) == IF m > n THEN m ELSE n

At(w, task, P) == run[w].task = task /\ run[w].phase \in P

\* The row of run w's account once the session has set its columns to new.
Commit(w, new) ==
    acc' = [acc EXCEPT ![run[w].acc] =
               [c \in DOMAIN @ |-> Written(@[c], run[w].seen[c], new[c])]]

\* status cooldown and cooldown_until, an instant no session has seen before.
Cooled(row) == [row EXCEPT !.status = "cooldown", !.until = "ahead"]

\* Mutant: a FloodWait that sets the status only.
CommitStatusOnly(w, new) ==
    acc' = [acc EXCEPT ![run[w].acc].status = "cooldown"]

CommitCooldown(w, new) ==
    acc' = [acc EXCEPT ![run[w].acc] =
               [[c \in DOMAIN @ |-> Written(@[c], run[w].seen[c], Cooled(new)[c])]
                   EXCEPT !.until = "ahead"]]

\* After its last commit a run has no more use for what it remembers.
Go(w, phase) == run' = [run EXCEPT ![w].phase = phase, ![w].seen = NewRow]

EndRun(w) == run' = [run EXCEPT ![w] = NoRun]

\* Mutant: the lease is taken without looking at it.
GrantableAlways(lease) == TRUE

\* An UPDATE ... WHERE that matches a row without a lease in force.
Grantable(lease) == lease.holder = None \/ lease.over

\* A message is taken off the queue by an idle worker.
Take(w, task, a) ==
    /\ run[w].phase = "idle"
    /\ <<task, a>> \in queue
    /\ queue' = queue \ {<<task, a>>}

\* Of the row a session remembers, the columns in C.  What it remembers of
\* the others makes no difference: it sets them not at all, or to a value
\* they cannot have had.
Remembered(row, C) == [c \in DOMAIN row |-> IF c \in C THEN row[c] ELSE NewRow[c]]

Start(w, task, a, phase, C) ==
    run' = [run EXCEPT ![w] = [NoRun EXCEPT !.task = task, !.acc = a, !.phase = phase,
                                            !.seen = Remembered(acc[a], C)]]

-----------------------------------------------------------------------------
(* verify_account_task.                                                    *)

\* acquire_verify_lease, which reloads the account when it is granted.
VerifyStarts(w, a) ==
    /\ Take(w, "verify", a)
    /\ IF Grantable(vlease[a])
       THEN /\ vlease' = [vlease EXCEPT ![a] = [holder |-> w, over |-> FALSE]]
            /\ Start(w, "verify", a, "probe", {"status", "session"})
       ELSE UNCHANGED <<vlease, run>>
    /\ UNCHANGED <<acc, wlease, sweep, call, calls, faults>>

\* release_verify_lease: nothing looks at whose lease it is.
ReleaseVerify(w) == vlease' = [vlease EXCEPT ![run[w].acc] = Free]

\* get_me answers, or one of the exceptions that end in a single commit:
\* SessionPasswordNeeded, PhoneNumberBanned, a revoked session, any other.
VerifyEnds(w) ==
    /\ At(w, "verify", {"probe"})
    /\ \E s \in {"verified", "password_required", "banned", "error"} :
          \/ Commit(w, [run[w].seen EXCEPT !.status = s])
          \/ s = "error" /\ Commit(w, [run[w].seen EXCEPT !.status = s, !.session = FALSE])
    /\ ReleaseVerify(w)
    /\ Go(w, "close")
    /\ UNCHANGED <<wlease, sweep, call, env>>

\* FloodWait: _handle_floodwait commits before the lease is released.
VerifyFlooded(w) ==
    /\ At(w, "verify", {"probe"})
    /\ CommitCooldown(w, run[w].seen)
    /\ Go(w, "flooded")
    /\ UNCHANGED <<leases, sweep, call, env>>

VerifyFloodedEnds(w) ==
    /\ At(w, "verify", {"flooded"})
    /\ ReleaseVerify(w)
    /\ Go(w, "close")
    /\ UNCHANGED <<acc, wlease, sweep, call, env>>

\* The client is disconnected and the message acknowledged.
VerifyCloses(w) ==
    /\ At(w, "verify", {"close"})
    /\ EndRun(w)
    /\ UNCHANGED <<acc, leases, sweep, call, env>>

\* SoftTimeLimitExceeded outside the inner try, after the commit of the
\* outcome too: a new session sets error and releases whatever lease there is.
VerifyTimesOut(w) ==
    /\ \/ At(w, "verify", {"probe", "flooded"}) /\ Strikes("timeout")
       \/ At(w, "verify", {"close"}) /\ Strikes("lag")
    /\ acc' = [acc EXCEPT ![run[w].acc].status = "error"]
    /\ ReleaseVerify(w)
    /\ EndRun(w)
    /\ UNCHANGED <<wlease, queue, sweep, call, calls>>

-----------------------------------------------------------------------------
(* account_health_check, which takes no lease and checks no status.        *)

HealthStarts(w, a) ==
    /\ Take(w, "health", a)
    /\ Start(w, "health", a, "probe", {"status", "until"})
    /\ UNCHANGED <<acc, leases, sweep, call, calls, faults>>

\* get_me answers: a cooldown that is over ends here too, in active.  The
\* instant is the remembered one, compared with the present.
HealthEnds(w) ==
    /\ At(w, "health", {"probe"})
    /\ \/ /\ run[w].seen.status = "cooldown"
          /\ run[w].seen.until # "null"
          /\ Commit(w, [run[w].seen EXCEPT !.status = "active"])
       \/ /\ run[w].seen.status # "cooldown" \/ run[w].seen.until # "past"
          /\ UNCHANGED acc
    /\ EndRun(w)
    /\ UNCHANGED <<leases, sweep, call, env>>

\* A disabled client or FloodWait, a client that cannot be made, and the
\* exceptions that are only logged.
HealthFails(w) ==
    /\ At(w, "health", {"probe"})
    /\ \/ CommitCooldown(w, run[w].seen)
       \/ Commit(w, [run[w].seen EXCEPT !.status = "error"])
       \/ UNCHANGED acc
    /\ EndRun(w)
    /\ UNCHANGED <<leases, sweep, call, env>>

-----------------------------------------------------------------------------
(* start_tg_warming.                                                       *)

\* acquire_warming_lease; in quiet hours the message is dropped before it.
WarmStarts(w, a) ==
    /\ Take(w, "warm", a)
    /\ \/ /\ Grantable(wlease[a])
          /\ wlease' = [wlease EXCEPT ![a] = [holder |-> w, over |-> FALSE]]
          /\ Start(w, "warm", a, "leased", {})
       \/ UNCHANGED <<wlease, run>>
    /\ UNCHANGED <<acc, vlease, sweep, call, calls, faults>>

\* The rest period of day 0 that warming_joined_channels holds.
Resting(a) == acc[a].day = 0 /\ acc[a].rest = "ahead"

\* The cycle loads the account again and has nothing to do.
CycleSkips(w) ==
    /\ At(w, "warm", {"leased"})
    /\ acc[run[w].acc].status # "warming" \/ Resting(run[w].acc)
    /\ Go(w, "release")
    /\ UNCHANGED <<acc, leases, sweep, call, env>>

\* Day 0 becomes day 1; then the throttle may stop the cycle, and a client
\* that cannot be made puts the account on cooldown.
CycleLoads(w) ==
    LET a   == run[w].acc
        row == [acc[a] EXCEPT !.day = Larger(1, @)]
    IN  /\ At(w, "warm", {"leased"})
        /\ row.status = "warming"
        /\ ~Resting(a)
        /\ \/ /\ acc' = [acc EXCEPT ![a] = row]
              /\ run' = [run EXCEPT ![w].phase = "work",
                                    ![w].seen = Remembered(row, {"status", "day", "flood"})]
           \/ /\ acc' = [acc EXCEPT ![a] = row]
              /\ Go(w, "release")
           \/ /\ acc' = [acc EXCEPT ![a] = Cooled(row)]
              /\ Go(w, "release")
        /\ UNCHANGED <<leases, sweep, call, env>>

\* The day's plan is done.  flood_wait_at comes from MySQL without a time
\* zone, so at the last day the age of a FloodWait cannot be computed: the
\* TypeError ends in the generic handler, which commits the new day as well.
CycleDone(w) ==
    LET seen == run[w].seen
        next == [seen EXCEPT !.day = @ + 1]
    IN  /\ At(w, "warm", {"work"})
        /\ seen.day < MaxDay
        /\ \/ next.day < Target /\ Commit(w, next)
           \/ /\ next.day >= Target /\ ~seen.flood
              /\ Commit(w, [next EXCEPT !.status = "active"])
           \/ next.day >= Target /\ seen.flood /\ CommitCooldown(w, next)
        /\ Go(w, "release")
        /\ UNCHANGED <<leases, sweep, call, env>>

\* Mutant: the days a FloodWait costs are taken off without a lower bound.
CycleFloodedFar(w) ==
    LET seen == run[w].seen
    IN  /\ At(w, "warm", {"work"})
        /\ CommitCooldown(w, [seen EXCEPT !.flood = TRUE, !.day = @ - Setback])
        /\ Go(w, "release")
        /\ UNCHANGED <<leases, sweep, call, env>>

CycleFlooded(w) ==
    LET seen == run[w].seen
    IN  /\ At(w, "warm", {"work"})
        /\ CommitCooldown(w, [seen EXCEPT !.flood = TRUE,
                                          !.day = Larger(1, @ - Setback)])
        /\ Go(w, "release")
        /\ UNCHANGED <<leases, sweep, call, env>>

\* UserDeactivatedBan and AuthKeyUnregistered; any other exception.
CycleFails(w) ==
    /\ At(w, "warm", {"work"})
    /\ \/ Commit(w, [run[w].seen EXCEPT !.status = "banned"])
       \/ CommitCooldown(w, run[w].seen)
    /\ Go(w, "release")
    /\ UNCHANGED <<leases, sweep, call, env>>

\* SoftTimeLimitExceeded reaches the task: a new session sets the cooldown
\* whatever the account has become.
WarmTimesOut(w) ==
    /\ At(w, "warm", {"leased", "work"})
    /\ ~run[w].late
    /\ Strikes("timeout")
    /\ acc' = [acc EXCEPT ![run[w].acc] = Cooled(@)]
    /\ Go(w, "release")
    /\ UNCHANGED <<leases, queue, sweep, call, calls>>

\* It is raised inside an action: _safe_action logs it, the plan goes on.
WarmOverruns(w) ==
    /\ At(w, "warm", {"work"})
    /\ ~run[w].late
    /\ Strikes("swallow")
    /\ run' = [run EXCEPT ![w].late = TRUE]
    /\ UNCHANGED <<acc, leases, queue, sweep, call, calls>>

\* The hard limit kills the process; the message counts as done.
WarmKilled(w) ==
    /\ At(w, "warm", {"work", "release"})
    /\ run[w].late
    /\ EndRun(w)
    /\ wlease' = [a \in Accounts |-> IF wlease[a].holder = w
                                     THEN [wlease[a] EXCEPT !.holder = Orphan]
                                     ELSE wlease[a]]
    /\ UNCHANGED <<acc, vlease, sweep, call, env>>

\* Mutant: a run that ends early keeps its lease.
WarmKeepsLease(w) ==
    /\ At(w, "warm", {"release"})
    /\ EndRun(w)
    /\ UNCHANGED <<acc, leases, sweep, call, env>>

\* release_warming_lease in a session of its own, whoever holds the lease.
WarmReleases(w) ==
    /\ At(w, "warm", {"release"})
    /\ wlease' = [wlease EXCEPT ![run[w].acc] = Free]
    /\ EndRun(w)
    /\ UNCHANGED <<acc, vlease, sweep, call, env>>

-----------------------------------------------------------------------------
(* The periodic tasks.                                                     *)

\* resume_tg_warming reaches account a and compares the start of a lease,
\* which has no time zone, with the present: the TypeError ends the task.
Stumbles(a) ==
    /\ acc[a].status = "warming"
    /\ acc[a].until # "ahead"
    /\ wlease[a].holder # None

\* The accounts resume_tg_warming dispatches: those before the first one it
\* stumbles over that are neither cooling down nor resting.
Resumable ==
    {a \in Accounts :
        /\ acc[a].status = "warming"
        /\ acc[a].until # "ahead"
        /\ \A b \in Accounts : b <= a => ~Stumbles(b)
        /\ ~Resting(a)}

ResumeWarming ==
    /\ Resumable # {}
    /\ acc' = [a \in Accounts |-> IF a \in Resumable
                                  THEN [acc[a] EXCEPT !.day = Larger(1, @)] ELSE acc[a]]
    /\ queue' = queue \cup {<<"warm", a>> : a \in Resumable}
    /\ UNCHANGED <<leases, run, sweep, call, calls, faults>>

\* An account whose cooldown is over.
CooledDown(a) == acc[a].status = "cooldown" /\ acc[a].until = "past"

\* Its warming is complete, but it had a FloodWait: the age of flood_wait_at
\* cannot be computed (TypeError) and the whole sweep is given up.
Trips(a) == acc[a].day >= Target /\ acc[a].flood

\* check_tg_cooldowns reads all accounts on cooldown ...
SweepReads ==
    /\ sweep = NoSweep
    /\ \E a \in Accounts : CooledDown(a)
    /\ \A a \in Accounts : CooledDown(a) => ~Trips(a)
    /\ sweep' = [a \in Accounts |->
                    IF ~CooledDown(a) THEN None
                    ELSE IF acc[a].day >= Target THEN "active" ELSE "warming"]
    /\ UNCHANGED <<acc, leases, run, call, env>>

\* ... and commits their new status at the end.
SweepCommits ==
    /\ sweep # NoSweep
    /\ acc' = [a \in Accounts |->
                  IF sweep[a] = None THEN acc[a]
                  ELSE [acc[a] EXCEPT !.status = sweep[a], !.until = "null"]]
    /\ sweep' = NoSweep
    /\ UNCHANGED <<leases, run, call, env>>

-----------------------------------------------------------------------------
(* The API.                                                                *)

Ask(op) == op \in Operations /\ calls > 0 /\ calls' = calls - 1

\* verify_tg_account: a lease in force is reported, not taken.
AskVerify(a) ==
    /\ Ask("verify")
    /\ acc[a].status \in {"verified", "active", "cooldown", "warming", "error"}
    /\ Grantable(vlease[a])
    /\ queue' = queue \cup {<<"verify", a>>}
    /\ UNCHANGED <<acc, leases, run, sweep, call, faults>>

\* tg_health_check
AskHealth(a) ==
    /\ Ask("health")
    /\ acc[a].status \in {"verified", "active", "cooldown", "warming"}
    /\ queue' = queue \cup {<<"health", a>>}
    /\ UNCHANGED <<acc, leases, run, sweep, call, faults>>

\* The checks of the handlers that write.
Admits(op, row) ==
    \/ op = "warmup" /\ row.status \in {"verified", "active"}
    \/ op = "activate" /\ row.status \in {"verified", "cooldown"} /\ row.session
    \/ op = "disconnect"
    \/ op = "live" /\ row.status \in {"active", "verified"} /\ row.session

Begin(op, a) ==
    /\ call = NoCall
    /\ Ask(op)
    /\ Admits(op, acc[a])
    /\ call' = [op |-> op, acc |-> a,
                seen |-> Remembered(acc[a],
                             CASE op = "warmup" -> {"status", "day", "until", "flood"}
                               [] op = "disconnect" -> {"status", "session"}
                               [] OTHER -> {"session"})]
    /\ UNCHANGED <<acc, leases, queue, run, sweep, faults>>

\* What the handlers make of the row they read; "live" is one of
\* get_account_dialogs and get_chat_messages finding the session dead.
Results(op, seen) ==
    CASE op = "warmup" -> {[seen EXCEPT !.status = "warming", !.day = 0, !.until = "null",
                                        !.flood = FALSE, !.rest = "ahead"]}
      [] op = "activate" -> {[seen EXCEPT !.status = "active"]}
      [] op = "disconnect" -> {[seen EXCEPT !.status = "disconnected", !.session = FALSE]}
      [] op = "live" -> {seen, [seen EXCEPT !.status = "banned"],
                         [seen EXCEPT !.status = "error", !.session = FALSE]}

Finish ==
    /\ call # NoCall
    /\ \E new \in Results(call.op, call.seen) :
          acc' = [acc EXCEPT ![call.acc] =
             [c \in DOMAIN @ |-> IF c = "rest" THEN IF call.op = "warmup" THEN "ahead" ELSE @[c]
                                 ELSE Written(@[c], call.seen[c], new[c])]]
    /\ call' = NoCall
    /\ UNCHANGED <<leases, run, sweep, env>>

\* unified_auth_task signs the account in again (module AuthFlow).
SignsIn(a) ==
    /\ acc[a].status \in {"error", "disconnected", "password_required"}
    /\ acc' = [acc EXCEPT ![a].status = "verified", ![a].session = TRUE]
    /\ UNCHANGED <<leases, run, sweep, call, env>>

-----------------------------------------------------------------------------
(* Time and crashes.                                                       *)

CooldownEnds(a) ==
    /\ acc[a].until = "ahead"
    /\ acc' = [acc EXCEPT ![a].until = "past"]
    /\ UNCHANGED <<leases, run, sweep, call, env>>

\* A rest of a day or more outlasts every cycle that was running before it.
RestEnds(a) ==
    /\ acc[a].rest = "ahead"
    /\ \A w \in Workers : run[w].task = "warm" => run[w].acc # a
    /\ acc' = [acc EXCEPT ![a].rest = "past"]
    /\ UNCHANGED <<leases, run, sweep, call, env>>

\* VERIFY_LEASE_TTL_SECONDS (900) is longer than the hard limit (360), so
\* only the lease of a dead run grows old.
VerifyLeaseEnds(a) ==
    /\ vlease[a].holder = Orphan
    /\ ~vlease[a].over
    /\ vlease' = [vlease EXCEPT ![a].over = TRUE]
    /\ UNCHANGED <<acc, wlease, run, sweep, call, env>>

\* Mutant: a time to live shorter than a cycle may take.
WarmLeaseShort(a) ==
    /\ wlease[a].holder # None
    /\ ~wlease[a].over
    /\ wlease' = [wlease EXCEPT ![a].over = TRUE]
    /\ UNCHANGED <<acc, vlease, run, sweep, call, env>>

\* WARMING_LEASE_TTL_SECONDS is the soft limit (5400), before the hard one.
WarmLeaseEnds(a) ==
    /\ wlease[a].holder # None
    /\ ~wlease[a].over
    /\ wlease[a].holder \in Workers => run[wlease[a].holder].late
    /\ wlease' = [wlease EXCEPT ![a].over = TRUE]
    /\ UNCHANGED <<acc, vlease, run, sweep, call, env>>

Orphaned(lease, w) ==
    [a \in Accounts |-> IF lease[a].holder = w THEN [lease[a] EXCEPT !.holder = Orphan]
                        ELSE lease[a]]

\* The worker process dies; its message goes back to the queue.
Crash(w) ==
    /\ run[w].phase # "idle"
    /\ Strikes("crash")
    /\ queue' = queue \cup {<<run[w].task, run[w].acc>>}
    /\ vlease' = Orphaned(vlease, w)
    /\ wlease' = Orphaned(wlease, w)
    /\ EndRun(w)
    /\ UNCHANGED <<acc, sweep, call, calls>>

\* A message unacknowledged for the broker's visibility timeout (3600 s, less
\* than a long cycle takes) is delivered again.
Redeliver(w) ==
    /\ run[w].phase # "idle"
    /\ Strikes("duplicate")
    /\ queue' = queue \cup {<<run[w].task, run[w].acc>>}
    /\ UNCHANGED <<acc, leases, run, sweep, call, calls>>

-----------------------------------------------------------------------------
WorkerStep(w) ==
    \/ VerifyEnds(w) \/ VerifyFlooded(w) \/ VerifyFloodedEnds(w) \/ VerifyCloses(w)
    \/ HealthEnds(w) \/ HealthFails(w)
    \/ CycleSkips(w) \/ CycleLoads(w) \/ CycleDone(w) \/ CycleFlooded(w)
    \/ CycleFails(w) \/ WarmReleases(w)

Starts(w, a) == VerifyStarts(w, a) \/ HealthStarts(w, a) \/ WarmStarts(w, a)

Beat == ResumeWarming \/ SweepReads \/ SweepCommits

Clock(a) ==
    CooldownEnds(a) \/ RestEnds(a) \/ VerifyLeaseEnds(a) \/ WarmLeaseEnds(a)

Fails(w) == VerifyTimesOut(w) \/ WarmTimesOut(w) \/ WarmOverruns(w) \/ WarmKilled(w)
            \/ Crash(w) \/ Redeliver(w)

Users ==
    \/ \E a \in Accounts : AskVerify(a) \/ AskHealth(a) \/ SignsIn(a)
    \/ \E a \in Accounts, op \in Operations : Begin(op, a)
    \/ Finish

Next ==
    \/ \E w \in Workers : WorkerStep(w) \/ Fails(w)
    \/ \E w \in Workers, a \in Accounts : Starts(w, a)
    \/ Beat
    \/ \E a \in Accounts : Clock(a)
    \/ Users

Spec == Init /\ [][Next]_vars

\* The broker delivers, workers and handlers go on with what they have begun,
\* beat keeps sending its tasks and time passes; the warming message of an
\* account whose lease is free is not dropped by quiet hours for ever.
Fairness ==
    /\ \A w \in Workers : WF_vars(WorkerStep(w))
    /\ \A w \in Workers, a \in Accounts :
          /\ WF_vars(VerifyStarts(w, a) \/ HealthStarts(w, a))
          /\ SF_vars(WarmStarts(w, a) /\ wlease' # wlease)
    /\ WF_vars(ResumeWarming)
    /\ SF_vars(SweepReads)
    /\ WF_vars(SweepCommits)
    /\ \A a \in Accounts : WF_vars(CooldownEnds(a)) /\ SF_vars(RestEnds(a))
                            /\ WF_vars(WarmLeaseEnds(a))
    /\ WF_vars(Finish)

FairSpec == Spec /\ Fairness

-----------------------------------------------------------------------------
(* Properties.                                                             *)

Leases == [holder : Workers \cup {None, Orphan}, over : BOOLEAN]

Runs ==
    [task : {None, "verify", "health", "warm"}, acc : Accounts \cup {None},
     phase : {"idle", "probe", "flooded", "close", "leased", "work", "release"},
     late : BOOLEAN, seen : Rows]

\* Every variable keeps its shape.
TypeOK ==
    /\ acc \in [Accounts -> Rows]
    /\ vlease \in [Accounts -> Leases]
    /\ wlease \in [Accounts -> Leases]
    /\ queue \subseteq {"verify", "health", "warm"} \X Accounts
    /\ run \in [Workers -> Runs]
    /\ \A w \in Workers : run[w].task # None => run[w].acc \in Accounts
    /\ sweep \in [Accounts -> {None, "active", "warming"}]
    /\ call \in [op : AllOperations \cup {None}, acc : Accounts \cup {None}, seen : Rows]
    /\ call # NoCall => call.acc \in Accounts
    /\ calls \in 0..Calls
    /\ faults \subseteq Faults

\* Who verifies account a: the runs between the grant of the lease and the
\* commit that gives it back, as long as no soft limit has struck a run
\* between that commit and its end.
Verifiers == [a \in Accounts |->
    {w \in Workers : "lag" \notin faults /\ run[w].acc = a
                        /\ At(w, "verify", {"probe", "flooded"})}]

Verifying == INSTANCE Exclusion WITH Things <- Accounts, Holders <- Workers,
                                     inside <- Verifiers

\* Verification keeps what its lease promises: whatever crashes, times out or
\* is delivered again, the second run on an account probes Telegram only
\* after the first has given its verdict or died.  release_verify_lease looks
\* at no owner, so this rests on when leases grow old, and ends when the soft
\* limit makes a run release a lease it no longer has.
VerifyExclusive == Verifying!Spec

\* An account on cooldown always has an end of it: no interleaving of commits
\* that skip unchanged columns leaves status cooldown with cooldown_until
\* NULL, which check_tg_cooldowns would never look at.
CooldownHasEnd ==
    \A a \in Accounts : acc[a].status = "cooldown" => acc[a].until # "null"

Cycles(a) == {w \in Workers : run[w].task = "warm" /\ run[w].acc = a}

\* Two warming cycles run on one account only after some cycle has outlived
\* its soft limit.
WarmExclusive ==
    "swallow" \notin faults =>
        \A a \in Accounts : Cardinality(Cycles(a)) <= 1

\* A warming account gets another cycle, or stops warming, unless a dead run
\* has left its lease.
WarmingServed ==
    \A a \in Accounts :
        (acc[a].status = "warming")
            ~> (acc[a].status # "warming" \/ Cycles(a) # {} \/ wlease[a].holder = Orphan)

-----------------------------------------------------------------------------
(* What comments and docs say, and the code does not do.                   *)

\* check_tg_cooldowns takes every account out of a cooldown that is over.
CooldownOver ==
    \A a \in Accounts : (acc[a].status = "cooldown") ~> (acc[a].status # "cooldown")

\* An expired lease does not keep an account from being warmed.
WarmingResumed ==
    \A a \in Accounts :
        (acc[a].status = "warming") ~> (acc[a].status # "warming" \/ Cycles(a) # {})

\* During the rest period an account stays at day 0.
RestKept ==
    [][\A a \in Accounts :
          acc[a].rest = "ahead" /\ acc'[a].rest = "ahead" /\ acc[a].day = 0
              => acc'[a].day = 0]_vars
=============================================================================
