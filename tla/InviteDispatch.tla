--------------------------- MODULE InviteDispatch ---------------------------
(***************************************************************************)
(* The dispatch of one invite campaign: the API handlers that start,       *)
(* pause, resume and delete it, the Celery broker that carries its         *)
(* dispatch messages, the worker processes that run                        *)
(* invite_campaign_dispatch, and the periodic cleanup of orphan tasks.     *)
(*                                                                         *)
(* One step of this module is one database transaction or one call to      *)
(* Telegram.  A run holds no transaction across two steps, so everything   *)
(* another process does may happen between them.                           *)
(***************************************************************************)
EXTENDS Integers, FiniteSets

CONSTANTS
    Workers,         \* worker processes (children of the Celery pool)
    Tasks,           \* InviteTask rows of the campaign
    Accounts,        \* warmed-up TelegramAccount rows of its owner
    Ids,             \* Celery task ids, reused once nothing refers to them
    None,
    InvitesPerHour,  \* invites_per_hour_per_account
    MaxAccounts,     \* max_accounts
    BatchCap,        \* the 10 of batch_size = min(10, available_slots + 5)
    BatchSlack,      \* the 5 of it
    TimeLimited,     \* does the pool enforce soft and hard time limits (prefork)?
    Budget           \* how many faults of each kind a behaviour may contain

\* Worker crashes, redeliveries of a message, failed enqueues, answers that
\* put the account on cooldown, API resumes, soft time limits swallowed by an except clause.
Faults == {"crash", "duplicate", "enqueue", "flood", "resume", "swallow"}

\* How an attempt to invite one user ends.
Results == {"success", "failed", "skipped", "flood", "banned"}

ASSUME DispatchAssumption ==
    /\ None \notin Workers \cup Tasks \cup Accounts \cup Ids
    /\ None \notin Results
    /\ IsFiniteSet(Tasks)
    /\ IsFiniteSet(Accounts)
    /\ InvitesPerHour \in Nat \ {0}
    /\ MaxAccounts \in Nat \ {0}
    /\ BatchCap \in Nat \ {0}
    /\ BatchSlack \in Nat
    /\ TimeLimited \in BOOLEAN
    /\ Budget \in [Faults -> Nat]

VARIABLES
    campaign,     \* InviteCampaign.status, "deleted" once the row is gone
    lease,        \* dispatch_task_id
    leaseFresh,   \* dispatch_started_at is less than 600 s ago
    tstatus,      \* InviteTask.status, "gone" once the row is deleted
    tacct,        \* InviteTask.account_id
    old,          \* tasks whose attempted_at is more than 15 min ago
    recent,       \* tasks whose completed_at is less than one hour ago
    astatus,      \* TelegramAccount.status, see AccountStates
    completed,    \* invites_completed
    failed,       \* invites_failed
    queue,        \* how many copies of each dispatch message the broker holds
    late,         \* messages whose countdown outlasts the lease now in force
    budget,       \* the faults still to come
    member,       \* Telegram: the users (one per task) the target chat contains
    pc,           \* where each worker is in its run
    mid,          \* self.request.id of its run
    todo,         \* account_ids its loop has still to visit
    acct,         \* acct_id
    slots,        \* available_slots - actual_invites, 0 once account_broke
    hold,         \* the tasks of task_data the run may still write
    job,          \* the task being invited and its outcome
    sent,         \* the message it has scheduled, whose countdown outlasts the run
    doomed        \* the soft time limit has been raised and swallowed

campaignRow == <<campaign, lease, leaseFresh, completed, failed>>
taskRows    == <<tstatus, tacct, old, recent>>
dbVars      == <<campaignRow, taskRows, astatus>>
brokerVars  == <<queue, late, budget>>
locals      == <<mid, todo, acct, slots, hold, job, sent, doomed>>
runVars     == <<pc, locals>>
vars        == <<dbVars, brokerVars, member, runVars>>

CampaignStates == {"draft", "active", "paused", "completed", "error", "deleted"}
TaskStates     == {"pending", "in_progress", "success", "failed", "skipped", "gone"}
Settled        == {"success", "failed", "skipped"}
\* "cooling": status cooldown with cooldown_until in the future;
\* "cooled": status still cooldown, cooldown_until already past.
AccountStates  == {"active", "cooling", "cooled", "warming"}

\* The places where the soft time limit leaves the run through its finally.
Interruptible  == {"load", "pick", "account", "claim", "open", "connect",
                   "invite", "finish", "complete"}
Phases == Interruptible \cup
          {"idle", "wake", "lease", "record", "count", "cool", "release",
           "unwind", "requeue"}

NoJob == [task |-> None, result |-> None]
Jobs  == [task: Tasks, result: Results] \cup {NoJob}

Init ==
    /\ campaign = "draft"
    /\ lease = None
    /\ leaseFresh = FALSE
    /\ tstatus = [t \in Tasks |-> "pending"]
    /\ tacct = [t \in Tasks |-> None]
    /\ old = {}
    /\ recent = {}
    /\ astatus = [a \in Accounts |-> "active"]
    /\ completed = 0
    /\ failed = 0
    /\ queue = [i \in Ids |-> 0]
    /\ late = {}
    /\ budget = Budget
    /\ member = {}
    /\ pc = [w \in Workers |-> "idle"]
    /\ mid = [w \in Workers |-> None]
    /\ todo = [w \in Workers |-> {}]
    /\ acct = [w \in Workers |-> None]
    /\ slots = [w \in Workers |-> 0]
    /\ hold = [w \in Workers |-> {}]
    /\ job = [w \in Workers |-> NoJob]
    /\ sent = [w \in Workers |-> None]
    /\ doomed = [w \in Workers |-> FALSE]

-----------------------------------------------------------------------------
(* Helpers.                                                                *)

Least(a, b) == IF a <= b THEN a ELSE b

Goto(w, p) == pc' = [pc EXCEPT ![w] = p]

Spend(f) == budget[f] > 0 /\ budget' = [budget EXCEPT ![f] = @ - 1]

InFlight == {mid[w] : w \in Workers}

\* Message i, with a fresh task id, is sent.
Send(i) ==
    /\ queue[i] = 0 /\ i # lease /\ i \notin InFlight
    /\ queue' = [queue EXCEPT ![i] = 1]

\* Mutant: the run ends without sending the next message.
RescheduleDropped(w) == UNCHANGED <<queue, sent, budget, late>>

\* apply_async at the end of run w: the message is sent, not to be delivered
\* before the run is over, or the broker cannot be reached.
Reschedule(w) ==
    /\ \/ /\ \E i \in Ids : Send(i) /\ sent' = [sent EXCEPT ![w] = i]
          /\ UNCHANGED budget
       \/ Spend("enqueue") /\ UNCHANGED <<queue, sent>>
    /\ UNCHANGED late

\* The run is over: its message is acknowledged and its locals are gone.
EndRun(w) ==
    /\ Goto(w, "idle")
    /\ mid' = [mid EXCEPT ![w] = None]
    /\ todo' = [todo EXCEPT ![w] = {}]
    /\ acct' = [acct EXCEPT ![w] = None]
    /\ slots' = [slots EXCEPT ![w] = 0]
    /\ hold' = [hold EXCEPT ![w] = {}]
    /\ job' = [job EXCEPT ![w] = NoJob]
    /\ sent' = [sent EXCEPT ![w] = None]
    /\ doomed' = [doomed EXCEPT ![w] = FALSE]

\* The tasks of S go back to pending; rows deleted meanwhile stay deleted.
GiveBack(S) ==
    /\ tstatus' = [t \in Tasks |-> IF t \in S /\ tstatus[t] # "gone"
                                   THEN "pending" ELSE tstatus[t]]
    /\ tacct' = [t \in Tasks |-> IF t \in S THEN None ELSE tacct[t]]

InvitesThisHour(a) ==
    Cardinality({t \in recent : tstatus[t] = "success" /\ tacct[t] = a})

\* Mutant: the limit ignores what the account has sent within the hour.
SlotsLeftStale(a) == InvitesPerHour

SlotsLeft(a) == InvitesPerHour - InvitesThisHour(a)

\* Mutant: tasks a run has claimed do not count as remaining.
OpenUnclaimed == {t \in Tasks : tstatus[t] = "pending"}

Pending == {t \in Tasks : tstatus[t] = "pending"}
Open    == {t \in Tasks : tstatus[t] \in {"pending", "in_progress"}}

-----------------------------------------------------------------------------
(* The dispatch task: entry and lease (phase 0).                           *)

Deliver(w) ==
    /\ pc[w] = "idle"
    /\ \E i \in Ids : /\ queue[i] > 0 /\ i \notin late /\ \A v \in Workers : sent[v] # i
                      /\ queue' = [queue EXCEPT ![i] = @ - 1]
                      /\ mid' = [mid EXCEPT ![w] = i]
    /\ Goto(w, "wake")
    /\ UNCHANGED <<dbVars, late, budget, member, todo, acct, slots, hold, job,
                   sent, doomed>>

\* The countdown of 1800 s outlasts a lease that is in force.
QuietHours(w) ==
    /\ pc[w] = "wake"
    /\ \/ /\ \E i \in Ids : /\ Send(i)
                            /\ late' = IF leaseFresh THEN late \cup {i} ELSE late
          /\ UNCHANGED budget
       \/ Spend("enqueue") /\ UNCHANGED <<queue, late>>
    /\ EndRun(w)
    /\ UNCHANGED <<dbVars, member>>

\* Mutant: a redelivered message is turned away by its own lease.
LeaseHeldByAnyone(w) == lease # None /\ leaseFresh

LeaseHeldByOther(w) == lease \notin {None, mid[w]} /\ leaseFresh

CheckLease(w) ==
    /\ pc[w] = "wake"
    /\ \/ /\ campaign = "deleted" \/ LeaseHeldByOther(w)
          /\ EndRun(w)
       \/ /\ campaign # "deleted" /\ ~LeaseHeldByOther(w)
          /\ Goto(w, "lease")
          /\ UNCHANGED locals
    /\ UNCHANGED <<dbVars, brokerVars, member>>

\* The commit of what CheckLease decided on; it fails if the row is gone.
TakeLease(w) ==
    /\ pc[w] = "lease"
    /\ \/ /\ campaign = "deleted"
          /\ EndRun(w)
          /\ UNCHANGED <<lease, leaseFresh, late>>
       \/ /\ campaign # "deleted"
          /\ lease' = mid[w]
          /\ leaseFresh' = TRUE
          /\ late' = {}
          /\ Goto(w, "load")
          /\ UNCHANGED locals
    /\ UNCHANGED <<campaign, completed, failed, taskRows, astatus, queue, budget,
                   member>>

DropLease(w) ==
    IF lease = mid[w] THEN lease' = None /\ leaseFresh' = FALSE /\ late' = {}
                      ELSE UNCHANGED <<lease, leaseFresh, late>>

Release(w) ==
    /\ pc[w] = "release"
    /\ DropLease(w)
    /\ EndRun(w)
    /\ UNCHANGED <<campaign, completed, failed, taskRows, astatus, queue, budget,
                   member>>

-----------------------------------------------------------------------------
(* Phases 1 and 2: the campaign and the accounts.                          *)

\* Mutant: any campaign that still exists is dispatched.
LoadAny(w) ==
    /\ pc[w] = "load"
    /\ Goto(w, IF campaign # "deleted" THEN "pick" ELSE "release")
    /\ UNCHANGED <<dbVars, brokerVars, member, locals>>

Load(w) ==
    /\ pc[w] = "load"
    /\ Goto(w, IF campaign = "active" THEN "pick" ELSE "release")
    /\ UNCHANGED <<dbVars, brokerVars, member, locals>>

Usable == {a \in Accounts : astatus[a] = "active"}

PickAccounts(w) ==
    /\ pc[w] = "pick"
    /\ Usable # {}
    /\ \E S \in SUBSET Usable :
          /\ Cardinality(S) = Least(MaxAccounts, Cardinality(Usable))
          /\ todo' = [todo EXCEPT ![w] = S]
    /\ Goto(w, "account")
    /\ UNCHANGED <<dbVars, brokerVars, member, mid, acct, slots, hold, job, sent,
                   doomed>>

AllCooling(w) ==
    /\ pc[w] = "pick"
    /\ Usable = {}
    /\ \E a \in Accounts : astatus[a] = "cooling"
    /\ Reschedule(w)
    /\ Goto(w, "release")
    /\ UNCHANGED <<dbVars, member, mid, todo, acct, slots, hold, job, doomed>>

NoAccounts(w) ==
    /\ pc[w] = "pick"
    /\ Usable = {}
    /\ \A a \in Accounts : astatus[a] # "cooling"
    /\ campaign' = IF campaign = "deleted" THEN campaign ELSE "error"
    /\ Goto(w, "release")
    /\ UNCHANGED <<lease, leaseFresh, completed, failed, taskRows, astatus,
                   brokerVars, member, locals>>

-----------------------------------------------------------------------------
(* Phase 3: one account after the other.                                   *)

\* Re-check the campaign, then the hourly limit of the next account.
NextAccount(w) ==
    /\ pc[w] = "account"
    /\ \/ todo[w] = {} /\ Goto(w, "finish") /\ UNCHANGED <<todo, acct, slots>>
       \/ todo[w] # {} /\ campaign # "active"
          /\ Goto(w, "release") /\ UNCHANGED <<todo, acct, slots>>
       \/ /\ campaign = "active"
          /\ \E a \in todo[w] :
               /\ todo' = [todo EXCEPT ![w] = @ \ {a}]
               /\ \/ /\ SlotsLeft(a) <= 0
                     /\ UNCHANGED <<pc, acct, slots>>
                  \/ /\ SlotsLeft(a) > 0
                     /\ acct' = [acct EXCEPT ![w] = a]
                     /\ slots' = [slots EXCEPT ![w] = SlotsLeft(a)]
                     /\ Goto(w, "claim")
    /\ UNCHANGED <<dbVars, brokerVars, member, mid, hold, job, sent, doomed>>

\* SELECT ... FOR UPDATE SKIP LOCKED and the commit that marks the batch.
Claim(w) ==
    /\ pc[w] = "claim"
    /\ \/ Pending = {} /\ Goto(w, "finish") /\ UNCHANGED <<tstatus, tacct, old,
                                                           hold>>
       \/ /\ Pending # {}
          /\ \E B \in SUBSET Pending :
               /\ Cardinality(B) = Least(Least(BatchCap, slots[w] + BatchSlack),
                                         Cardinality(Pending))
               /\ tstatus' = [t \in Tasks |-> IF t \in B THEN "in_progress" ELSE tstatus[t]]
               /\ tacct' = [t \in Tasks |-> IF t \in B THEN acct[w] ELSE tacct[t]]
               /\ old' = old \ B
               /\ hold' = [hold EXCEPT ![w] = B]
          /\ Goto(w, "open")
    /\ UNCHANGED <<campaignRow, recent, astatus, brokerVars, member, mid, todo,
                   acct, slots, job, sent, doomed>>

\* The batch is written back and the loop goes on with the next account.
PutBatchBack(w) ==
    /\ GiveBack(hold[w])
    /\ hold' = [hold EXCEPT ![w] = {}]
    /\ Goto(w, "account")
    /\ UNCHANGED <<campaignRow, old, recent, astatus, brokerVars, member, mid,
                   todo, acct, slots, job, sent, doomed>>

\* An exception nobody inside handles: what is left of the batch stays
\* in_progress and the loop goes on with the next account.
Abandon(w) ==
    /\ hold' = [hold EXCEPT ![w] = {}]
    /\ job' = [job EXCEPT ![w] = NoJob]
    /\ Goto(w, "account")

\* The account is no longer active, or its client cannot be built.
ClientFails(w) == pc[w] = "open" /\ PutBatchBack(w)

ClientReady(w) ==
    /\ pc[w] = "open"
    /\ astatus[acct[w]] = "active"
    /\ Goto(w, "connect")
    /\ UNCHANGED <<dbVars, brokerVars, member, locals>>

\* Resolving target_link fails, or the campaign has no target at all.
LinkFails(w) == pc[w] = "connect" /\ PutBatchBack(w)

\* Connecting fails, or get_chat on target_chat_id does.
ConnectFails(w) ==
    /\ pc[w] = "connect"
    /\ Abandon(w)
    /\ UNCHANGED <<dbVars, brokerVars, member, mid, todo, acct, slots, sent,
                   doomed>>

Connected(w) ==
    /\ pc[w] = "connect"
    /\ Goto(w, "invite")
    /\ UNCHANGED <<dbVars, brokerVars, member, locals>>

\* account_broke, available_slots used up, or the batch is done.
EndBatch(w) ==
    /\ pc[w] = "invite"
    /\ hold[w] = {} \/ slots[w] = 0
    /\ GiveBack({t \in hold[w] : tstatus[t] = "in_progress"})
    /\ hold' = [hold EXCEPT ![w] = {}]
    /\ Goto(w, "account")
    /\ UNCHANGED <<campaignRow, old, recent, astatus, brokerVars, member, mid,
                   todo, acct, slots, job, sent, doomed>>

\* The answer of Telegram to the invitation of the user of task t.  A call
\* that ends in an error, or that is retried, may have added the user.
Answers(t, r) ==
    \/ r = "success" /\ t \notin member /\ member' = member \cup {t} /\ UNCHANGED budget
    \/ r \in {"failed", "skipped"} /\ member' \in {member, member \cup {t}} /\ UNCHANGED budget
    \/ r \in {"flood", "banned"} /\ UNCHANGED member /\ Spend("flood")

Invite(w) ==
    /\ pc[w] = "invite"
    /\ slots[w] > 0
    /\ \E t \in hold[w], r \in Results :
          /\ Answers(t, r)
          /\ job' = [job EXCEPT ![w] = [task |-> t, result |-> r]]
    /\ Goto(w, "record")
    /\ UNCHANGED <<dbVars, queue, late, mid, todo, acct, slots, hold, sent, doomed>>

\* The commit of the task's new status.  A task put back or skipped leaves
\* the run here, one that is counted leaves it when the counter is written.
\* Mutant: the row gets the outcome's own name.
StatusOfRaw(r) == r

StatusOf(r) == CASE r = "flood" -> "pending" [] r = "banned" -> "failed" [] OTHER -> r

Record(w) ==
    LET t == job[w].task
        r == job[w].result
    IN  /\ pc[w] = "record"
        /\ tstatus' = [tstatus EXCEPT ![t] = IF @ = "gone" THEN @ ELSE StatusOf(r)]
        /\ tacct' = [tacct EXCEPT ![t] = IF r = "flood" THEN None ELSE @]
        /\ recent' = IF r = "success" /\ tstatus[t] # "gone" THEN recent \cup {t} ELSE recent
        /\ IF r \in {"flood", "skipped"}
           THEN hold' = [hold EXCEPT ![w] = @ \ {t}] /\ job' = [job EXCEPT ![w] = NoJob]
           ELSE UNCHANGED <<hold, job>>
        /\ Goto(w, CASE r = "flood" -> "cool" [] r = "skipped" -> "invite" [] OTHER -> "count")
        /\ UNCHANGED <<campaignRow, old, astatus, brokerVars, member, mid, todo,
                       acct, slots, sent, doomed>>

\* _atomic_increment, a transaction of its own.
Count(w) ==
    LET r == job[w].result
        one == IF campaign = "deleted" THEN 0 ELSE 1
    IN  /\ pc[w] = "count"
        /\ IF r = "success"
           THEN /\ completed' = completed + one
                /\ slots' = [slots EXCEPT ![w] = @ - 1]
                /\ UNCHANGED failed
           ELSE failed' = failed + one /\ UNCHANGED <<completed, slots>>
        /\ hold' = [hold EXCEPT ![w] = @ \ {job[w].task}]
        /\ job' = [job EXCEPT ![w] = NoJob]
        /\ Goto(w, IF r = "banned" THEN "cool" ELSE "invite")
        /\ UNCHANGED <<campaign, lease, leaseFresh, taskRows, astatus, brokerVars,
                       member, mid, todo, acct, sent, doomed>>

\* FloodWait, PeerFlood and a ban put the account on cooldown and end the batch.
Cool(w) ==
    /\ pc[w] = "cool"
    /\ astatus' = [astatus EXCEPT ![acct[w]] = "cooling"]
    /\ slots' = [slots EXCEPT ![w] = 0]
    /\ Goto(w, "invite")
    /\ UNCHANGED <<campaignRow, taskRows, brokerVars, member, mid, todo, acct,
                   hold, job, sent, doomed>>

-----------------------------------------------------------------------------
(* Phase 4: complete, or reschedule.                                       *)

\* One snapshot of the campaign and of its open tasks decides.
Finish(w) ==
    /\ pc[w] = "finish"
    /\ \/ /\ campaign # "deleted" /\ Open = {}
          /\ Goto(w, "complete") /\ UNCHANGED <<brokerVars, sent>>
       \/ /\ campaign = "active" /\ Open # {}
          /\ Goto(w, "release") /\ Reschedule(w)
       \/ /\ campaign = "deleted" \/ (campaign # "active" /\ Open # {})
          /\ Goto(w, "release") /\ UNCHANGED <<brokerVars, sent>>
    /\ UNCHANGED <<dbVars, member, mid, todo, acct, slots, hold, job, doomed>>

\* The commit of status = completed, whatever the status is by now.
Complete(w) ==
    /\ pc[w] = "complete"
    /\ campaign' = IF campaign = "deleted" THEN campaign ELSE "completed"
    /\ Goto(w, "release")
    /\ UNCHANGED <<lease, leaseFresh, completed, failed, taskRows, astatus,
                   brokerVars, member, locals>>

-----------------------------------------------------------------------------
(* Time limits, crashes and redeliveries.                                  *)

\* SoftTimeLimitExceeded leaves the event loop and cancels the run; an
\* invitation under way may have reached Telegram.
SoftTimeout(w) ==
    /\ TimeLimited
    /\ ~doomed[w]
    /\ pc[w] \in Interruptible
    /\ \/ UNCHANGED member
       \/ /\ pc[w] = "invite" /\ slots[w] > 0
          /\ \E t \in hold[w] : member' = member \cup {t}
    /\ Goto(w, "unwind")
    /\ todo' = [todo EXCEPT ![w] = {}]
    /\ acct' = [acct EXCEPT ![w] = None]
    /\ slots' = [slots EXCEPT ![w] = 0]
    /\ hold' = [hold EXCEPT ![w] = {}]
    /\ UNCHANGED <<dbVars, brokerVars, mid, job, sent, doomed>>

\* The finally clause of the cancelled run.
Unwind(w) ==
    /\ pc[w] = "unwind"
    /\ DropLease(w)
    /\ Goto(w, "requeue")
    /\ UNCHANGED <<campaign, completed, failed, taskRows, astatus, queue, budget,
                   member, locals>>

\* The except clause of the Celery task.
Requeue(w) ==
    /\ pc[w] = "requeue"
    /\ DropLease(w)
    /\ \/ campaign # "active" /\ UNCHANGED <<queue, budget>>
       \/ campaign = "active" /\ (\E i \in Ids : Send(i)) /\ UNCHANGED budget
       \/ campaign = "active" /\ Spend("enqueue") /\ UNCHANGED queue
    /\ EndRun(w)
    /\ UNCHANGED <<campaign, completed, failed, taskRows, astatus, member>>

\* Mutant: "already a participant" at the retry counts as a success.
RetryOutcomesCounted == {"success", "failed", "skipped"}

\* What becomes of a task whose success the swallowed exception interrupts:
\* the retry by username fails, or finds the user already in the chat.
RetryOutcomes == {"failed", "skipped"}

\* The same exception raised while the coroutine runs database code is caught
\* by its except clauses: a success becomes a failure (or, after the retry by
\* username, a skip), other outcomes end the batch.  Nothing but the hard
\* limit stops the run afterwards.
Swallow(w) ==
    /\ TimeLimited
    /\ ~doomed[w]
    /\ pc[w] \in {"record", "count", "cool"}
    /\ Spend("swallow")
    /\ doomed' = [doomed EXCEPT ![w] = TRUE]
    /\ \/ /\ job[w].result = "success"
          /\ \E r \in RetryOutcomes : job' = [job EXCEPT ![w].result = r]
          /\ Goto(w, "record")
          /\ completed' \in {completed} \cup
                IF pc[w] = "count" /\ campaign # "deleted" THEN {completed + 1} ELSE {}
          /\ UNCHANGED hold
       \/ /\ job[w].result # "success"
          /\ Abandon(w)
          /\ UNCHANGED completed
    /\ UNCHANGED <<campaign, lease, leaseFresh, failed, taskRows, astatus, queue,
                   late, member, mid, todo, acct, slots, sent>>

\* The hard limit kills the process; the message counts as acknowledged.
HardKill(w) ==
    /\ doomed[w]
    /\ EndRun(w)
    /\ UNCHANGED <<dbVars, brokerVars, member>>

\* The process dies: acks_late and reject_on_worker_lost put the message back.
Crash(w) ==
    /\ pc[w] # "idle"
    /\ Spend("crash")
    /\ queue' = [queue EXCEPT ![mid[w]] = @ + 1]
    /\ EndRun(w)
    /\ UNCHANGED <<dbVars, late, member>>

\* A message unacknowledged for the broker's visibility timeout (one hour) is
\* delivered again: one that waits for a long countdown, or one whose run
\* takes that long.
Redeliver(i) ==
    /\ queue[i] > 0 \/ (~TimeLimited /\ i \in InFlight)
    /\ Spend("duplicate")
    /\ queue' = [queue EXCEPT ![i] = @ + 1]
    /\ UNCHANGED <<dbVars, late, member, runVars>>

-----------------------------------------------------------------------------
(* Time and the periodic tasks.                                            *)

\* 600 s after it was taken.  The hard limit ends a run in less.
LeaseExpires ==
    /\ lease # None
    /\ leaseFresh
    /\ TimeLimited => \A w \in Workers : mid[w] = lease => pc[w] \in {"wake", "lease"}
    /\ leaseFresh' = FALSE
    /\ late' = {}
    /\ UNCHANGED <<campaign, lease, completed, failed, taskRows, astatus, queue,
                   budget, member, runVars>>

\* 15 min after it was claimed, so later than the end of a time-limited run
\* and than the expiry of the lease under which it was claimed.
TaskAges(t) ==
    /\ tstatus[t] = "in_progress"
    /\ \A w \in Workers : t \in hold[w] =>
          ~TimeLimited /\ ~(lease = mid[w] /\ leaseFresh)
    /\ t \notin old
    /\ old' = old \cup {t}
    /\ UNCHANGED <<campaignRow, tstatus, tacct, recent, astatus, brokerVars,
                   member, runVars>>

\* Periodic tasks run on the same workers: a solo worker serves them only
\* between two runs, a prefork pool is taken to have a child to spare.
BeatServed == TimeLimited \/ \E w \in Workers : pc[w] = "idle"

\* Mutant: every claim counts as an orphan, whatever its age.
OrphansOfAnyAge == {t \in Tasks : tstatus[t] = "in_progress"}

\* Mutant: only the orphans of active campaigns are cleaned up.
OrphansOfActive == {t \in old : tstatus[t] = "in_progress" /\ campaign = "active"}

Orphans == {t \in old : tstatus[t] = "in_progress"}

CleanupOrphans ==
    /\ BeatServed
    /\ Orphans # {}
    /\ GiveBack(Orphans)
    /\ old' = old \ Orphans
    /\ UNCHANGED <<campaignRow, recent, astatus, brokerVars, member, runVars>>

HourPasses(t) ==
    /\ t \in recent
    /\ recent' = recent \ {t}
    /\ UNCHANGED <<campaignRow, tstatus, tacct, old, astatus, brokerVars, member,
                   runVars>>

SetAccount(a, from, to) ==
    /\ astatus[a] \in from
    /\ astatus' = [astatus EXCEPT ![a] = to]
    /\ UNCHANGED <<campaignRow, taskRows, brokerVars, member, runVars>>

CooldownEnds(a) == SetAccount(a, {"cooling"}, "cooled")

\* check_tg_cooldowns, one pass over the expired cooldowns.
CheckCooldowns ==
    /\ BeatServed
    /\ \E a \in Accounts : astatus[a] = "cooled"
    /\ astatus' \in {f \in [Accounts -> AccountStates] :
          \A a \in Accounts : IF astatus[a] = "cooled" THEN f[a] \in {"active", "warming"}
                                                       ELSE f[a] = astatus[a]}
    /\ UNCHANGED <<campaignRow, taskRows, brokerVars, member, runVars>>

\* The warming cycle promotes the account.
Promote(a) == SetAccount(a, {"warming"}, "active")

\* POST /tg-accounts/{id}/activate
Activate(a) == SetAccount(a, {"cooling", "cooled"}, "active")

-----------------------------------------------------------------------------
(* The API.                                                                *)

Start ==
    /\ campaign = "draft"
    /\ campaign' = "active"
    /\ \/ (\E i \in Ids : Send(i)) /\ UNCHANGED budget
       \/ Spend("enqueue") /\ UNCHANGED queue
    /\ UNCHANGED <<lease, leaseFresh, completed, failed, taskRows, astatus, late,
                   member, runVars>>

Pause ==
    /\ campaign = "active"
    /\ campaign' = "paused"
    /\ UNCHANGED <<lease, leaseFresh, completed, failed, taskRows, astatus,
                   brokerVars, member, runVars>>

Resume ==
    /\ campaign = "paused"
    /\ campaign' = "active"
    /\ \/ (\E i \in Ids : Send(i)) /\ Spend("resume")
       \/ /\ budget["resume"] > 0 /\ budget["enqueue"] > 0
          /\ budget' = [budget EXCEPT !["resume"] = @ - 1, !["enqueue"] = @ - 1]
          /\ UNCHANGED queue
    /\ UNCHANGED <<lease, leaseFresh, completed, failed, taskRows, astatus, late,
                   member, runVars>>

Delete ==
    /\ campaign \notin {"active", "deleted"}
    /\ campaign' = "deleted"
    /\ lease' = None
    /\ leaseFresh' = FALSE
    /\ tstatus' = [t \in Tasks |-> "gone"]
    /\ tacct' = [t \in Tasks |-> None]
    /\ old' = {}
    /\ recent' = {}
    /\ completed' = 0
    /\ failed' = 0
    /\ late' = {}
    /\ UNCHANGED <<astatus, queue, budget, member, runVars>>

-----------------------------------------------------------------------------
Run(w) ==
    \/ Deliver(w) \/ CheckLease(w) \/ TakeLease(w) \/ Release(w)
    \/ Load(w) \/ PickAccounts(w) \/ AllCooling(w) \/ NoAccounts(w)
    \/ NextAccount(w) \/ Claim(w)
    \/ ClientFails(w) \/ ClientReady(w) \/ LinkFails(w) \/ ConnectFails(w) \/ Connected(w)
    \/ EndBatch(w) \/ Invite(w) \/ Record(w) \/ Count(w) \/ Cool(w)
    \/ Finish(w) \/ Complete(w) \/ Unwind(w) \/ Requeue(w)

Disturb(w) ==
    \/ QuietHours(w) \/ SoftTimeout(w) \/ Swallow(w) \/ HardKill(w) \/ Crash(w)

Clock ==
    \/ LeaseExpires \/ CleanupOrphans \/ CheckCooldowns
    \/ \E t \in Tasks : TaskAges(t) \/ HourPasses(t)
    \/ \E a \in Accounts : CooldownEnds(a) \/ Promote(a)

User ==
    \/ Start \/ Pause \/ Resume \/ Delete
    \/ \E a \in Accounts : Activate(a)

Next ==
    \/ \E w \in Workers : Run(w) \/ Disturb(w)
    \/ \E i \in Ids : Redeliver(i)
    \/ Clock
    \/ User

Spec == Init /\ [][Next]_vars

(***************************************************************************)
(* Fairness.  A worker takes its next step, time passes and beat sends the *)
(* periodic tasks.  Quiet hours end (every morning), and a campaign that   *)
(* is dispatched again and again gets, now and then, through each stage of *)
(* a run before the soft time limit: the account's client can be built,    *)
(* Telegram can be reached and answers.  Users and faults are under no     *)
(* obligation.                                                             *)
(***************************************************************************)
Fairness ==
    /\ \A w \in Workers :
          /\ WF_vars(Run(w))
          /\ SF_vars(CheckLease(w)) /\ SF_vars(Load(w)) /\ SF_vars(PickAccounts(w))
          /\ SF_vars(NextAccount(w)) /\ SF_vars(Claim(w))
          /\ SF_vars(ClientReady(w)) /\ SF_vars(Connected(w)) /\ SF_vars(Invite(w))
          /\ SF_vars(Finish(w)) /\ SF_vars(Complete(w))
    /\ \A t \in Tasks : WF_vars(TaskAges(t)) /\ WF_vars(HourPasses(t))
    /\ \A a \in Accounts : WF_vars(CooldownEnds(a)) /\ WF_vars(Promote(a))
    /\ WF_vars(LeaseExpires) /\ WF_vars(CleanupOrphans) /\ WF_vars(CheckCooldowns)

FairSpec == Spec /\ Fairness

-----------------------------------------------------------------------------
(* Properties.                                                             *)

\* Every variable has its type (models/invite_campaign.py, models/invite_task.py).
TypeOK ==
    /\ campaign \in CampaignStates
    /\ lease \in Ids \cup {None}
    /\ leaseFresh \in BOOLEAN
    /\ tstatus \in [Tasks -> TaskStates]
    /\ tacct \in [Tasks -> Accounts \cup {None}]
    /\ old \in SUBSET Tasks
    /\ recent \in SUBSET Tasks
    /\ astatus \in [Accounts -> AccountStates]
    /\ completed \in Nat
    /\ failed \in Nat
    /\ queue \in [Ids -> Nat]
    /\ late \in SUBSET Ids
    /\ budget \in [Faults -> Nat]
    /\ member \in SUBSET Tasks
    /\ pc \in [Workers -> Phases]
    /\ mid \in [Workers -> Ids \cup {None}]
    /\ todo \in [Workers -> SUBSET Accounts]
    /\ acct \in [Workers -> Accounts \cup {None}]
    /\ slots \in [Workers -> Nat]
    /\ hold \in [Workers -> SUBSET Tasks]
    /\ job \in [Workers -> Jobs]
    /\ sent \in [Workers -> Ids \cup {None}]
    /\ doomed \in [Workers -> BOOLEAN]

\* Parallel dispatches never work on the same task: SKIP LOCKED claims, the
\* reverts and the 15-minute orphan cleanup together hand a task to one run at
\* a time, however messages are duplicated, leases raced and workers killed.
ClaimsDisjoint ==
    \A v, w \in Workers : v # w => hold[v] \cap hold[w] = {}

\* A task a run is about to invite is still the run's own in the database: in
\* progress, charged to the account that will send the invitation.
HeldIsClaimed ==
    \A w \in Workers : \A t \in hold[w] :
        pc[w] \in {"open", "connect", "invite"} =>
            tstatus[t] = "gone" \/ (tstatus[t] = "in_progress" /\ tacct[t] = acct[w])

\* A campaign marked completed has no task left to do: the counts Finish read
\* are still true when Complete writes and for ever after.
CompletedIsDrained ==
    campaign = "completed" => \A t \in Tasks : tstatus[t] \notin {"pending", "in_progress"}

\* invites_completed never claims an invitation that Telegram did not carry
\* out, whatever is killed between the call, the commit and the increment.
CompletedIsReal == completed <= Cardinality(member)

\* The two progress counters never run ahead of the task rows they count.
CountersLag ==
    /\ completed <= Cardinality({t \in Tasks : tstatus[t] = "success"})
    /\ failed <= Cardinality({t \in Tasks : tstatus[t] = "failed"})

\* An account never has more successes within an hour than
\* invites_per_hour_per_account, also over several runs and restarts.
HourlyLimit == \A a \in Accounts : InvitesThisHour(a) <= InvitesPerHour

\* An active campaign always has a message under way or a run that will send
\* the next one or end it: no chain of dispatches is ever lost.
Awake ==
    campaign = "active" =>
        \/ \E i \in Ids : queue[i] > 0
        \/ \E w \in Workers : pc[w] \notin {"idle", "release"}

\* "Acquire dispatch lease (prevent parallel runs)": two runs are never past
\* the acquisition of the lease together.
Exclusive ==
    \A v, w \in Workers : v # w =>
        pc[v] \in {"idle", "wake", "lease"} \/ pc[w] \in {"idle", "wake", "lease"}

\* A settled task stays settled as it is until its campaign is deleted: no
\* stale run, revert or cleanup reopens or rewrites it.
SettledForGood ==
    [][\A t \in Tasks :
          tstatus[t] \in Settled => tstatus'[t] = tstatus[t] \/ tstatus'[t] = "gone"]_vars

\* completed and error are final: only the deletion of the campaign follows.
EndIsFinal ==
    [][(campaign = "completed" \/ campaign = "error") =>
          campaign' = campaign \/ campaign' = "deleted"]_vars

\* A campaign is given up for want of accounts only when no account is on
\* cooldown, that is when waiting could not help.
ErrorMeansNoAccounts ==
    [][(campaign' = "error" /\ campaign # "error") =>
         \A a \in Accounts : astatus[a] \notin {"cooling", "cooled"}]_vars

\* The abstract ledger: who works on a task, and what has become of it.
OwnerIn(h, t) ==
    IF \E w \in Workers : t \in h[w] THEN CHOOSE w \in Workers : t \in h[w] ELSE None
VerdictOf(t) == IF tstatus[t] \in Settled \cup {"gone"} THEN tstatus[t] ELSE "open"

Ledger == INSTANCE TaskLedger
            WITH Runs <- Workers,
                 owner <- [t \in Tasks |-> OwnerIn(hold, t)],
                 verdict <- [t \in Tasks |-> VerdictOf(t)]

\* Dispatch implements the ledger: one owner per task, verdicts by the owner
\* only, none revised after the run has let go, by any interleaving of runs,
\* reverts, kills and orphan cleanups.
ImplementsLedger == Ledger!Spec

\* A claimed task does not stay claimed for ever: its run settles it or puts
\* it back, or the orphan cleanup does after the run has died.
ClaimsEnd ==
    \A t \in Tasks : tstatus[t] = "in_progress" ~> tstatus[t] # "in_progress"

\* A started campaign that nobody pauses ends, unless a soft limit that was
\* swallowed has let the hard one kill a run with its message acknowledged.
CampaignEnds ==
    campaign = "active" ~> campaign # "active" \/ budget["swallow"] < Budget["swallow"]
=============================================================================
