------------------------ MODULE InviteDispatchProofs ------------------------
(***************************************************************************)
(* Proofs about InviteDispatch, for any number of workers, tasks, accounts *)
(* and messages and any budget of faults.                                  *)
(***************************************************************************)
EXTENDS InviteDispatch, FiniteSetTheorems, TLAPS

USE DispatchAssumption
    DEF vars, dbVars, campaignRow, taskRows, brokerVars, locals, runVars, Goto

\* A run that records or counts an outcome has one, for a task it holds, and
\* room left under the hourly limit.
JobInv ==
    \A w \in Workers :
        IF pc[w] \in {"record", "count"}
        THEN /\ job[w] \in [task : Tasks, result : Results]
             /\ job[w].task \in hold[w]
             /\ slots[w] > 0
        ELSE job[w] = NoJob

TypeInv == TypeOK /\ JobInv

\* The part of it that is about the runs' locals.
LocalsOK ==
    /\ pc \in [Workers -> Phases]
    /\ mid \in [Workers -> Ids \cup {None}]
    /\ todo \in [Workers -> SUBSET Accounts]
    /\ acct \in [Workers -> Accounts \cup {None}]
    /\ slots \in [Workers -> Nat]
    /\ hold \in [Workers -> SUBSET Tasks]
    /\ job \in [Workers -> Jobs]
    /\ sent \in [Workers -> Ids \cup {None}]
    /\ doomed \in [Workers -> BOOLEAN]
    /\ JobInv

-----------------------------------------------------------------------------
(* Helpers.                                                                *)

\* The hourly count of an account is a number.
LEMMA InvitesThisHourNat ==
    ASSUME TypeOK, NEW a \in Accounts
    PROVE  InvitesThisHour(a) \in Nat
<1> DEFINE S == {t \in recent : tstatus[t] = "success" /\ tacct[t] = a}
<1>1. S \subseteq Tasks
    BY DEF TypeOK
<1>2. IsFiniteSet(S)
    BY <1>1, FS_Subset
<1>. QED  BY <1>2, FS_CardinalityType DEF InvitesThisHour

\* A run that ends leaves nothing behind in its locals.
LEMMA EndRunType ==
    ASSUME TypeInv, NEW w \in Workers, EndRun(w)
    PROVE  LocalsOK'
<1>1. pc' \in [Workers -> Phases]
    BY DEF EndRun, TypeInv, TypeOK, Phases
<1>2. job' \in [Workers -> Jobs]
    BY DEF EndRun, TypeInv, TypeOK, Jobs, NoJob
<1>3. JobInv'
    BY DEF EndRun, TypeInv, TypeOK, JobInv
<1>. QED  BY <1>1, <1>2, <1>3 DEF EndRun, TypeInv, TypeOK, LocalsOK

\* Sending a message changes nothing but the queue.
LEMMA SendType ==
    ASSUME TypeOK, NEW i \in Ids, Send(i)
    PROVE  queue' \in [Ids -> Nat]
BY DEF Send, TypeOK

LEMMA SpendType ==
    ASSUME TypeOK, NEW f \in Faults, Spend(f)
    PROVE  budget' \in [Faults -> Nat]
BY DEF Spend, TypeOK

LEMMA RescheduleType ==
    ASSUME TypeOK, NEW w \in Workers, Reschedule(w)
    PROVE  /\ queue' \in [Ids -> Nat]
           /\ sent' \in [Workers -> Ids \cup {None}]
           /\ budget' \in [Faults -> Nat]
           /\ late' = late
<1>1. CASE \E i \in Ids : Send(i) /\ sent' = [sent EXCEPT ![w] = i]
    BY <1>1, SendType DEF Reschedule, TypeOK, Spend, Faults
<1>2. CASE Spend("enqueue") /\ UNCHANGED <<queue, sent>>
    BY <1>2, SpendType DEF Reschedule, TypeOK, Faults
<1>. QED  BY <1>1, <1>2 DEF Reschedule

LEMMA GiveBackType ==
    ASSUME TypeOK, NEW S, GiveBack(S)
    PROVE  /\ tstatus' \in [Tasks -> TaskStates]
           /\ tacct' \in [Tasks -> Accounts \cup {None}]
BY DEF GiveBack, TypeOK, TaskStates

LEMMA DropLeaseType ==
    ASSUME TypeOK, NEW w \in Workers, DropLease(w)
    PROVE  /\ lease' \in Ids \cup {None}
           /\ leaseFresh' \in BOOLEAN
           /\ late' \in SUBSET Ids
BY DEF DropLease, TypeOK

-----------------------------------------------------------------------------
(* Type correctness.                                                       *)

LEMMA InitType == Init => TypeInv
<1>. SUFFICES ASSUME Init PROVE TypeInv
    OBVIOUS
<1>1. pc \in [Workers -> Phases] /\ job \in [Workers -> Jobs]
    BY DEF Init, Phases, Jobs
<1>2. JobInv
    BY DEF Init, JobInv
<1>3. budget \in [Faults -> Nat] /\ astatus \in [Accounts -> AccountStates]
    BY DEF Init, AccountStates
<1>. QED
    BY <1>1, <1>2, <1>3 DEF Init, TypeInv, TypeOK, CampaignStates, TaskStates

\* The steps of a run.
LEMMA RunType ==
    ASSUME TypeInv, NEW w \in Workers, Run(w)
    PROVE  TypeInv'
<1>. USE DEF TypeInv, TypeOK, JobInv
<1>1. CASE Deliver(w)
    BY <1>1 DEF Deliver, Phases, Interruptible
<1>2. CASE CheckLease(w)
    <2>1. CASE EndRun(w)
        <3>1. LocalsOK'
            BY <2>1, EndRunType
        <3>. QED  BY <1>2, <3>1 DEF CheckLease, LocalsOK
    <2>2. CASE Goto(w, "lease") /\ UNCHANGED locals
        BY <1>2, <2>2 DEF CheckLease, Phases, Interruptible
    <2>. QED  BY <1>2, <2>1, <2>2 DEF CheckLease
<1>3. CASE TakeLease(w)
    <2>1. CASE campaign = "deleted"
        <3>1. EndRun(w)
            BY <1>3, <2>1 DEF TakeLease
        <3>2. LocalsOK'
            BY <3>1, EndRunType
        <3>. QED  BY <1>3, <2>1, <3>2 DEF TakeLease, LocalsOK
    <2>2. CASE campaign # "deleted"
        BY <1>3, <2>2 DEF TakeLease, Phases, Interruptible
    <2>. QED  BY <2>1, <2>2
<1>4. CASE Release(w)
    <2>1. DropLease(w) /\ EndRun(w)
        BY <1>4 DEF Release
    <2>2. LocalsOK'
        BY <2>1, EndRunType
    <2>. QED  BY <1>4, <2>1, <2>2, DropLeaseType DEF Release, LocalsOK
<1>5. CASE Load(w)
    BY <1>5 DEF Load, Phases, Interruptible
<1>6. CASE PickAccounts(w)
    BY <1>6 DEF PickAccounts, Usable, Phases, Interruptible
<1>7. CASE AllCooling(w)
    BY <1>7, RescheduleType DEF AllCooling, Phases, Interruptible
<1>8. CASE NoAccounts(w)
    BY <1>8 DEF NoAccounts, CampaignStates, Phases, Interruptible
<1>9. CASE NextAccount(w)
    <2>1. CASE acct' = acct /\ slots' = slots
        BY <1>9, <2>1 DEF NextAccount, Phases, Interruptible
    <2>2. CASE ~(acct' = acct /\ slots' = slots)
        <3>1. PICK a \in todo[w] :
                  /\ todo' = [todo EXCEPT ![w] = @ \ {a}] /\ SlotsLeft(a) > 0
                  /\ acct' = [acct EXCEPT ![w] = a] /\ slots' = [slots EXCEPT ![w] = SlotsLeft(a)]
                  /\ pc' = [pc EXCEPT ![w] = "claim"]
            BY <1>9, <2>2 DEF NextAccount
        <3>2. a \in Accounts /\ SlotsLeft(a) \in Nat
            BY <3>1, InvitesThisHourNat DEF SlotsLeft
        <3>. QED  BY <1>9, <3>1, <3>2 DEF NextAccount, Phases, Interruptible
    <2>. QED  BY <2>1, <2>2
<1>10. CASE Claim(w)
    <2>1. CASE Pending = {}
        BY <1>10, <2>1 DEF Claim, Phases, Interruptible
    <2>2. CASE Pending # {}
        <3>1. PICK B \in SUBSET Pending :
                  /\ tstatus' = [t \in Tasks |-> IF t \in B THEN "in_progress" ELSE tstatus[t]]
                  /\ tacct' = [t \in Tasks |-> IF t \in B THEN acct[w] ELSE tacct[t]]
                  /\ old' = old \ B
                  /\ hold' = [hold EXCEPT ![w] = B]
            BY <1>10, <2>2 DEF Claim
        <3>2. pc[w] = "claim" /\ pc' = [pc EXCEPT ![w] = "open"]
            BY <1>10, <2>2 DEF Claim
        <3>3. TypeOK'
            BY <1>10, <3>1, <3>2 DEF Claim, Pending, TaskStates, Phases, Interruptible
        <3>4. JobInv'
            BY <1>10, <3>1, <3>2 DEF Claim
        <3>. QED  BY <3>3, <3>4
    <2>. QED  BY <2>1, <2>2
<1>11. CASE ClientFails(w)
    BY <1>11, GiveBackType DEF ClientFails, PutBatchBack, Phases, Interruptible
<1>12. CASE ClientReady(w)
    BY <1>12 DEF ClientReady, Phases, Interruptible
<1>13. CASE LinkFails(w)
    BY <1>13, GiveBackType DEF LinkFails, PutBatchBack, Phases, Interruptible
<1>14. CASE ConnectFails(w)
    BY <1>14 DEF ConnectFails, Abandon, NoJob, Jobs, Phases, Interruptible
<1>15. CASE Connected(w)
    BY <1>15 DEF Connected, Phases, Interruptible
<1>16. CASE EndBatch(w)
    BY <1>16, GiveBackType DEF EndBatch, Phases, Interruptible
<1>17. CASE Invite(w)
    BY <1>17, SpendType DEF Invite, Answers, Jobs, Faults, Phases, Interruptible
<1>18. CASE Record(w)
    BY <1>18 DEF Record, StatusOf, Results, TaskStates, Jobs, NoJob, Phases, Interruptible
<1>19. CASE Count(w)
    BY <1>19 DEF Count, Jobs, NoJob, Phases, Interruptible
<1>20. CASE Cool(w)
    BY <1>20 DEF Cool, AccountStates, Phases, Interruptible
<1>21. CASE Finish(w)
    BY <1>21, RescheduleType DEF Finish, Phases, Interruptible
<1>22. CASE Complete(w)
    BY <1>22 DEF Complete, CampaignStates, Phases, Interruptible
<1>23. CASE Unwind(w)
    BY <1>23, DropLeaseType DEF Unwind, Phases, Interruptible
<1>24. CASE Requeue(w)
    BY <1>24, EndRunType, DropLeaseType, SendType, SpendType DEF Requeue, Faults, LocalsOK
<1>. QED
    BY <1>1, <1>2, <1>3, <1>4, <1>5, <1>6, <1>7, <1>8, <1>9, <1>10, <1>11, <1>12, <1>13, <1>14, <1>15, <1>16, <1>17, <1>18, <1>19, <1>20, <1>21, <1>22, <1>23, <1>24 DEF Run

\* Time limits, crashes and quiet hours.
LEMMA DisturbType ==
    ASSUME TypeInv, NEW w \in Workers, Disturb(w)
    PROVE  TypeInv'
<1>. USE DEF TypeInv, TypeOK, JobInv
<1>1. CASE QuietHours(w)
    BY <1>1, EndRunType, SendType, SpendType DEF QuietHours, Faults, LocalsOK
<1>2. CASE SoftTimeout(w)
    BY <1>2 DEF SoftTimeout, Phases, Interruptible
<1>3. CASE Swallow(w)
    <2>1. budget' \in [Faults -> Nat]
        BY <1>3, SpendType DEF Swallow, Faults
    <2>2. CASE job[w].result = "success"
        <3>1. PICK r \in RetryOutcomes : job' = [job EXCEPT ![w].result = r]
            BY <1>3, <2>2 DEF Swallow
        <3>2. job[w] \in [task : Tasks, result : Results] /\ job[w].task \in hold[w] /\ slots[w] > 0
            BY <2>2 DEF NoJob, Results
        <3>3. job'[w] \in [task : Tasks, result : Results] /\ job'[w].task = job[w].task
            BY <3>1, <3>2 DEF RetryOutcomes, Results
        <3>4. job' \in [Workers -> Jobs]
            BY <3>1, <3>3 DEF Jobs
        <3>5. pc' = [pc EXCEPT ![w] = "record"] /\ hold' = hold /\ slots' = slots
            BY <1>3, <2>2 DEF Swallow
        <3>6. completed' \in Nat
            BY <1>3, <2>2 DEF Swallow
        <3>7. JobInv'
            BY <3>1, <3>2, <3>3, <3>5
        <3>. QED  BY <1>3, <2>1, <3>4, <3>5, <3>6, <3>7 DEF Swallow, Phases
    <2>3. CASE job[w].result # "success"
        <3>1. /\ hold' = [hold EXCEPT ![w] = {}]
              /\ job' = [job EXCEPT ![w] = NoJob]
              /\ pc' = [pc EXCEPT ![w] = "account"]
            BY <1>3, <2>3 DEF Swallow, Abandon
        <3>2. completed' = completed /\ slots' = slots
            BY <1>3, <2>3 DEF Swallow
        <3>3. job' \in [Workers -> Jobs]
            BY <3>1 DEF Jobs
        <3>4. JobInv'
            BY <3>1, <3>2
        <3>5. hold' \in [Workers -> SUBSET Tasks] /\ pc' \in [Workers -> Phases]
            BY <3>1 DEF Phases, Interruptible
        <3>6. doomed' \in [Workers -> BOOLEAN]
            BY <1>3 DEF Swallow
        <3>. QED  BY <1>3, <2>1, <3>2, <3>3, <3>4, <3>5, <3>6 DEF Swallow
    <2>. QED  BY <2>2, <2>3
<1>4. CASE HardKill(w)
    <2>1. LocalsOK'
        BY <1>4, EndRunType DEF HardKill
    <2>. QED  BY <1>4, <2>1 DEF HardKill, LocalsOK
<1>5. CASE Crash(w)
    <2>1. budget' \in [Faults -> Nat]
        BY <1>5, SpendType DEF Crash, Faults
    <2>2. queue' \in [Ids -> Nat]
        <3>1. queue \in [Ids -> Nat] /\ queue' = [queue EXCEPT ![mid[w]] = @ + 1]
            BY <1>5 DEF Crash
        <3>2. CASE mid[w] \in Ids
            BY <3>1, <3>2
        <3>3. CASE mid[w] \notin Ids
            <4>1. queue' = queue
                BY <3>1, <3>3
            <4>. QED  BY <3>1, <4>1
        <3>. QED  BY <3>2, <3>3
    <2>3. LocalsOK'
        BY <1>5, EndRunType DEF Crash
    <2>. QED  BY <1>5, <2>1, <2>2, <2>3 DEF Crash, LocalsOK
<1>. QED
    BY <1>1, <1>2, <1>3, <1>4, <1>5 DEF Disturb

\* Steps that no run takes: redeliveries, the clock, the periodic tasks and
\* the users.
LEMMA OtherType ==
    ASSUME TypeInv, (\E i \in Ids : Redeliver(i)) \/ Clock \/ User
    PROVE  TypeInv'
<1>. USE DEF TypeInv, TypeOK, JobInv
<1>1. CASE \E i \in Ids : Redeliver(i)
    BY <1>1, SpendType DEF Redeliver, Faults
<1>2. CASE LeaseExpires
    BY <1>2 DEF LeaseExpires
<1>3. CASE CleanupOrphans
    BY <1>3, GiveBackType DEF CleanupOrphans
<1>4. CASE CheckCooldowns
    BY <1>4 DEF CheckCooldowns
<1>5. CASE \E t \in Tasks : TaskAges(t) \/ HourPasses(t)
    BY <1>5 DEF TaskAges, HourPasses
<1>6. CASE \E a \in Accounts : CooldownEnds(a) \/ Promote(a) \/ Activate(a)
    BY <1>6 DEF CooldownEnds, Promote, Activate, SetAccount, AccountStates
<1>7. CASE Start
    BY <1>7, SendType, SpendType DEF Start, CampaignStates, Faults
<1>8. CASE Pause
    BY <1>8 DEF Pause, CampaignStates
<1>9. CASE Resume
    BY <1>9, SendType, SpendType DEF Resume, CampaignStates, Faults
<1>10. CASE Delete
    <2>1. tstatus' \in [Tasks -> TaskStates] /\ campaign' \in CampaignStates
        BY <1>10 DEF Delete, TaskStates, CampaignStates
    <2>. QED  BY <1>10, <2>1 DEF Delete
<1>. QED
    BY <1>1, <1>2, <1>3, <1>4, <1>5, <1>6, <1>7, <1>8, <1>9,
       <1>10 DEF Clock, User

LEMMA StutterType == ASSUME TypeInv, UNCHANGED vars PROVE TypeInv'
BY DEF TypeInv, TypeOK, JobInv

LEMMA TypeInvariant == Spec => []TypeInv
<1>1. TypeInv /\ [Next]_vars => TypeInv'
    BY RunType, DisturbType, OtherType, StutterType DEF Next
<1>. QED  BY <1>1, InitType, PTL DEF Spec

\* Every variable keeps its type: in particular no counter goes below zero,
\* whatever the interleaving of runs, crashes and users.
THEOREM TypeCorrect == Spec => []TypeOK
<1>1. TypeInv => TypeOK
    BY DEF TypeInv
<1>. QED  BY <1>1, TypeInvariant, PTL

-----------------------------------------------------------------------------
(* Who may write a task.  In a guarded pool the orphan cleanup never meets *)
(* a task a run still holds; from there on, a held task is in              *)
(* progress and charged to the run's account, or is the one whose verdict  *)
(* the run has just written.                                               *)

Busy == {"open", "connect", "invite", "record", "count", "cool"}

\* The pools the proofs are about: the prefork pool, whose time limits end a run
\* before its claims grow old, and the solo pool with one worker.
Guarded == TimeLimited \/ \A v, w \in Workers : v = w

\* The run has written its verdict on t and has still to count it.
Written(w, t) ==
    /\ job[w].task = t
    /\ tstatus[t] \in Settled
    /\ \/ pc[w] = "count"
       \/ pc[w] = "record" /\ job[w].result \in RetryOutcomes

OwnedBy(w) ==
    /\ hold[w] # {} => pc[w] \in Busy
    /\ \A t \in hold[w] :
          /\ TimeLimited => t \notin old
          /\ \/ tstatus[t] = "gone"
             \/ tstatus[t] = "in_progress" /\ tacct[t] = acct[w]
             \/ Written(w, t)

Owned == \A w \in Workers : OwnedBy(w)

\* From the moment a run has decided to complete the campaign, nothing is
\* left that could become open again.
Drained ==
    campaign = "completed" \/ (\E w \in Workers : pc[w] = "complete") => Open = {}

OwnerInv == TypeInv /\ ClaimsDisjoint /\ Owned

IInv == OwnerInv /\ Drained

\* The rows of the other runs' tasks, and those runs themselves, are as before.
Aside(w) ==
    \A v \in Workers \ {w} :
        /\ hold'[v] = hold[v] /\ pc'[v] = pc[v] /\ acct'[v] = acct[v] /\ job'[v] = job[v]
        /\ \A t \in hold[v] : /\ tstatus'[t] = tstatus[t] /\ tacct'[t] = tacct[t]
                              /\ t \in old' => t \in old

LEMMA OwnedAside ==
    ASSUME OwnerInv, NEW w \in Workers, NEW v \in Workers \ {w}, Aside(w)
    PROVE  OwnedBy(v)'
BY DEF OwnerInv, Owned, OwnedBy, Written, Aside

\* A run that goes on with some of the tasks it holds.
LEMMA GoesOn ==
    ASSUME OwnerInv, NEW w \in Workers, Aside(w), hold'[w] \subseteq hold[w],
           OwnedBy(w)'
    PROVE  ClaimsDisjoint' /\ Owned'
<1>1. Owned'
    BY OwnedAside DEF Owned
<1>2. \A v \in Workers : hold'[v] \subseteq hold[v]
    BY DEF Aside
<1>. QED  BY <1>1, <1>2 DEF OwnerInv, ClaimsDisjoint

\* A run that ends the step without a task.
LEMMA LetsGo ==
    ASSUME OwnerInv, NEW w \in Workers, Aside(w), hold'[w] = {}
    PROVE  ClaimsDisjoint' /\ Owned'
<1>1. OwnedBy(w)'
    BY DEF OwnedBy
<1>. QED  BY <1>1, GoesOn

\* A step that is no run's, and writes no row a run holds but to delete it.
LEMMA Outside ==
    ASSUME OwnerInv, UNCHANGED runVars,
           \A v \in Workers : \A t \in hold[v] :
               /\ TimeLimited => t \notin old'
               /\ \/ tstatus'[t] = "gone"
                  \/ tstatus'[t] = tstatus[t] /\ tacct'[t] = tacct[t]
    PROVE  ClaimsDisjoint' /\ Owned'
BY DEF OwnerInv, ClaimsDisjoint, Owned, OwnedBy, Written, runVars, locals

\* Giving back tasks of one run leaves the rows of the others alone.
LEMMA GiveBackAside ==
    ASSUME OwnerInv, NEW w \in Workers, NEW S \in SUBSET hold[w], GiveBack(S)
    PROVE  \A v \in Workers \ {w} : \A t \in hold[v] :
               tstatus'[t] = tstatus[t] /\ tacct'[t] = tacct[t]
BY DEF OwnerInv, ClaimsDisjoint, GiveBack, TypeInv, TypeOK

-----------------------------------------------------------------------------
(* The steps of a run that holds nothing, or lets go of everything.        *)

LEMMA EmptyHanded ==
    ASSUME OwnerInv, NEW w \in Workers, pc[w] \notin Busy
    PROVE  hold[w] = {}
BY DEF OwnerInv, Owned, OwnedBy

LEMMA LeavingStep ==
    ASSUME OwnerInv, NEW w \in Workers,
           \/ Deliver(w) \/ CheckLease(w) \/ TakeLease(w) \/ Release(w) \/ Load(w)
           \/ PickAccounts(w) \/ AllCooling(w) \/ NoAccounts(w) \/ NextAccount(w)
           \/ Finish(w) \/ Complete(w) \/ Unwind(w) \/ Requeue(w) \/ QuietHours(w)
    PROVE  ClaimsDisjoint' /\ Owned'
<1>1. pc[w] \notin Busy /\ UNCHANGED taskRows
    BY DEF Deliver, CheckLease, TakeLease, Release, Load, PickAccounts, AllCooling,
           NoAccounts, NextAccount, Finish, Complete, Unwind, Requeue, QuietHours, Busy
<1>2. hold[w] = {}
    BY <1>1, EmptyHanded
<1>3. hold' = hold \/ hold' = [hold EXCEPT ![w] = {}]
    BY DEF Deliver, CheckLease, TakeLease, Release, Load, PickAccounts, AllCooling,
           NoAccounts, NextAccount, Finish, Complete, Unwind, Requeue, QuietHours, EndRun
<1>4. \A v \in Workers \ {w} : pc'[v] = pc[v] /\ acct'[v] = acct[v] /\ job'[v] = job[v]
    BY DEF Deliver, CheckLease, TakeLease, Release, Load, PickAccounts, AllCooling,
           NoAccounts, NextAccount, Finish, Complete, Unwind, Requeue, QuietHours, EndRun,
           OwnerInv, TypeInv, TypeOK
<1>5. Aside(w) /\ hold'[w] = {}
    BY <1>1, <1>2, <1>3, <1>4 DEF Aside, OwnerInv, TypeInv, TypeOK
<1>. QED  BY <1>5, LetsGo
LEMMA DroppingStep ==
    ASSUME OwnerInv, NEW w \in Workers,
           \/ ClientFails(w) \/ LinkFails(w) \/ ConnectFails(w) \/ EndBatch(w)
           \/ SoftTimeout(w) \/ HardKill(w) \/ Crash(w)
    PROVE  ClaimsDisjoint' /\ Owned'
<1>1. hold' = [hold EXCEPT ![w] = {}] /\ old' = old
    BY DEF ClientFails, LinkFails, PutBatchBack, ConnectFails, Abandon, EndBatch,
           SoftTimeout, HardKill, Crash, EndRun
<1>2. UNCHANGED <<tstatus, tacct>> \/ \E S \in SUBSET hold[w] : GiveBack(S)
    BY DEF ClientFails, LinkFails, PutBatchBack, ConnectFails, EndBatch,
           SoftTimeout, HardKill, Crash
<1>3. \A v \in Workers \ {w} : pc'[v] = pc[v] /\ acct'[v] = acct[v] /\ job'[v] = job[v]
    BY DEF ClientFails, LinkFails, PutBatchBack, ConnectFails, Abandon, EndBatch,
           SoftTimeout, HardKill, Crash, EndRun, OwnerInv, TypeInv, TypeOK
<1>4. \A v \in Workers \ {w} : \A t \in hold[v] : tstatus'[t] = tstatus[t] /\ tacct'[t] = tacct[t]
    BY <1>2, GiveBackAside
<1>5. Aside(w) /\ hold'[w] = {}
    BY <1>1, <1>3, <1>4 DEF Aside, OwnerInv, TypeInv, TypeOK
<1>. QED  BY <1>5, LetsGo

-----------------------------------------------------------------------------
(* The steps of a run that keeps tasks.                                    *)

\* SKIP LOCKED claims pending rows only, and no run holds a pending row.
LEMMA ClaimStep ==
    ASSUME OwnerInv, NEW w \in Workers, Claim(w)
    PROVE  ClaimsDisjoint' /\ Owned'
<1>1. hold[w] = {}
    BY EmptyHanded DEF Claim, Busy
<1>2. CASE Pending = {}
    <2>1. Aside(w) /\ hold'[w] = {}
        BY <1>1, <1>2 DEF Claim, Aside, OwnerInv, TypeInv, TypeOK
    <2>. QED  BY <2>1, LetsGo
<1>3. CASE Pending # {}
    <2>1. PICK B \in SUBSET Pending :
              /\ tstatus' = [t \in Tasks |-> IF t \in B THEN "in_progress" ELSE tstatus[t]]
              /\ tacct' = [t \in Tasks |-> IF t \in B THEN acct[w] ELSE tacct[t]]
              /\ old' = old \ B
              /\ hold' = [hold EXCEPT ![w] = B]
        BY <1>3 DEF Claim
    <2>2. pc' = [pc EXCEPT ![w] = "open"] /\ acct' = acct /\ job' = job
        BY <1>3 DEF Claim
    <2>3. \A v \in Workers : \A t \in hold[v] : t \in Tasks /\ t \notin B
        BY DEF OwnerInv, Owned, OwnedBy, Written, Pending, Settled, TypeInv, TypeOK
    <2>4. Aside(w)
        BY <2>1, <2>2, <2>3 DEF Aside, OwnerInv, TypeInv, TypeOK
    <2>5. OwnedBy(w)'
        BY <2>1, <2>2 DEF OwnedBy, Busy, Pending, OwnerInv, TypeInv, TypeOK
    <2>6. Owned'
        BY <2>4, <2>5, OwnedAside DEF Owned
    <2>7. ClaimsDisjoint'
        BY <2>1, <2>3 DEF OwnerInv, ClaimsDisjoint, TypeInv, TypeOK
    <2>. QED  BY <2>6, <2>7
<1>. QED  BY <1>2, <1>3

LEMMA WaitingStep ==
    ASSUME OwnerInv, NEW w \in Workers,
           ClientReady(w) \/ Connected(w) \/ Invite(w) \/ Cool(w)
    PROVE  ClaimsDisjoint' /\ Owned'
<1>1. UNCHANGED <<taskRows, hold, acct>> /\ pc[w] \notin {"record", "count"}
    BY DEF ClientReady, Connected, Invite, Cool
<1>2. \A v \in Workers \ {w} : pc'[v] = pc[v] /\ job'[v] = job[v]
    BY DEF ClientReady, Connected, Invite, Cool, OwnerInv, TypeInv, TypeOK
<1>3. pc'[w] \in Busy
    BY DEF ClientReady, Connected, Invite, Cool, Busy, OwnerInv, TypeInv, TypeOK
<1>4. Aside(w)
    BY <1>1, <1>2 DEF Aside
<1>5. OwnedBy(w)'
    BY <1>1, <1>3 DEF OwnerInv, Owned, OwnedBy, Written
<1>. QED  BY <1>1, <1>4, <1>5, GoesOn

\* The verdict is written on a task of the run's own.
LEMMA RecordStep ==
    ASSUME OwnerInv, NEW w \in Workers, Record(w)
    PROVE  ClaimsDisjoint' /\ Owned'
<1> DEFINE t == job[w].task
           r == job[w].result
<1>1. t \in hold[w] /\ t \in Tasks /\ r \in Results
    BY DEF Record, OwnerInv, TypeInv, JobInv
<1>2. /\ tstatus' = [tstatus EXCEPT ![t] = IF @ = "gone" THEN @ ELSE StatusOf(r)]
      /\ tacct' = [tacct EXCEPT ![t] = IF r = "flood" THEN None ELSE @]
      /\ old' = old /\ acct' = acct
    BY DEF Record
<1>3. \A v \in Workers \ {w} : hold'[v] = hold[v] /\ pc'[v] = pc[v] /\ job'[v] = job[v]
    BY DEF Record, OwnerInv, TypeInv, TypeOK
<1>4. \A v \in Workers \ {w} : t \notin hold[v]
    BY <1>1 DEF OwnerInv, ClaimsDisjoint
<1>5. Aside(w)
    BY <1>2, <1>3, <1>4 DEF Aside, OwnerInv, TypeInv, TypeOK
<1>6. CASE r \in {"flood", "skipped"}
    <2>1. hold'[w] = hold[w] \ {t} /\ pc'[w] \in {"cool", "invite"}
        BY <1>6 DEF Record, OwnerInv, TypeInv, TypeOK
    <2>2. \A u \in hold'[w] : ~Written(w, u) /\ tstatus'[u] = tstatus[u] /\ tacct'[u] = tacct[u]
        BY <1>2, <2>1 DEF Written, OwnerInv, TypeInv, TypeOK
    <2>3. OwnedBy(w)'
        BY <1>2, <2>1, <2>2 DEF OwnerInv, Owned, OwnedBy, Busy
    <2>. QED  BY <1>5, <2>1, <2>3, GoesOn
<1>7. CASE r \notin {"flood", "skipped"}
    <2>1. hold' = hold /\ job' = job /\ pc'[w] = "count"
        BY <1>7 DEF Record, OwnerInv, TypeInv, TypeOK
    <2>2. \A u \in hold[w] \ {t} : ~Written(w, u) /\ tstatus'[u] = tstatus[u] /\ tacct'[u] = tacct[u]
        BY <1>2 DEF Written, OwnerInv, TypeInv, TypeOK
    <2>3. tstatus'[t] = "gone" \/ tstatus'[t] \in Settled
        BY <1>1, <1>2, <1>7 DEF StatusOf, Results, Settled, OwnerInv, TypeInv, TypeOK
    <2>4. tstatus'[t] = "gone" \/ Written(w, t)'
        BY <2>1, <2>3 DEF Written
    <2>5. OwnedBy(w)'
        BY <1>2, <2>1, <2>2, <2>4 DEF OwnerInv, Owned, OwnedBy, Busy
    <2>. QED  BY <1>5, <2>1, <2>5, GoesOn
<1>. QED  BY <1>6, <1>7

LEMMA CountStep ==
    ASSUME OwnerInv, NEW w \in Workers, Count(w)
    PROVE  ClaimsDisjoint' /\ Owned'
<1>1. /\ hold' = [hold EXCEPT ![w] = @ \ {job[w].task}]
      /\ pc'[w] \in {"cool", "invite"}
      /\ UNCHANGED <<taskRows, acct>>
      /\ \A v \in Workers \ {w} : pc'[v] = pc[v] /\ job'[v] = job[v]
    BY DEF Count, OwnerInv, TypeInv, TypeOK
<1>2. Aside(w)
    BY <1>1 DEF Aside, OwnerInv, TypeInv, TypeOK
<1>3. hold'[w] = hold[w] \ {job[w].task}
    BY <1>1 DEF OwnerInv, TypeInv, TypeOK
<1>4. OwnedBy(w)'
    BY <1>1, <1>3 DEF OwnerInv, Owned, OwnedBy, Written, Busy
<1>. QED  BY <1>2, <1>3, <1>4, GoesOn

LEMMA SwallowStep ==
    ASSUME OwnerInv, NEW w \in Workers, Swallow(w)
    PROVE  ClaimsDisjoint' /\ Owned'
<1>1. UNCHANGED <<taskRows>>
    BY DEF Swallow
<1>2. CASE job[w].result = "success"
    <2>1. PICK r \in RetryOutcomes : job' = [job EXCEPT ![w].result = r]
        BY <1>2 DEF Swallow
    <2>2. hold' = hold /\ acct' = acct /\ pc' = [pc EXCEPT ![w] = "record"]
        BY <1>2 DEF Swallow
    <2>3. Aside(w)
        BY <1>1, <2>1, <2>2 DEF Aside, OwnerInv, TypeInv, TypeOK
    <2>4. job[w] \in [task : Tasks, result : Results]
        BY <1>2 DEF OwnerInv, TypeInv, JobInv, NoJob, Results
    <2>5. job'[w].task = job[w].task /\ job'[w].result \in RetryOutcomes
        BY <2>1, <2>4 DEF OwnerInv, TypeInv, TypeOK
    <2>6. pc'[w] = "record"
        BY <2>2 DEF OwnerInv, TypeInv, TypeOK
    <2>7. OwnedBy(w)'
        BY <1>1, <2>2, <2>5, <2>6 DEF OwnerInv, Owned, OwnedBy, Written, Busy
    <2>. QED  BY <2>2, <2>3, <2>7, GoesOn
<1>3. CASE job[w].result # "success"
    <2>1. Aside(w) /\ hold'[w] = {}
        BY <1>1, <1>3 DEF Swallow, Abandon, Aside, OwnerInv, TypeInv, TypeOK
    <2>. QED  BY <2>1, LetsGo
<1>. QED  BY <1>2, <1>3
-----------------------------------------------------------------------------
(* The steps no run takes, and the first theorem about the runs.           *)

\* A held task is too young for the cleanup of a time-limited pool, and a lone
\* worker runs the cleanup when it holds nothing: that is what Guarded is for.
LEMMA OutsideStep ==
    ASSUME OwnerInv, Guarded,
           (\E i \in Ids : Redeliver(i)) \/ Clock \/ User \/ UNCHANGED vars
    PROVE  ClaimsDisjoint' /\ Owned'
<1>1. UNCHANGED runVars
    BY DEF Redeliver, Clock, User, LeaseExpires, CleanupOrphans, CheckCooldowns,
           TaskAges, HourPasses, CooldownEnds, Promote, Activate, SetAccount,
           Start, Pause, Resume, Delete
<1> DEFINE Safe == \A v \in Workers : \A t \in hold[v] :
                       /\ TimeLimited => t \notin old'
                       /\ \/ tstatus'[t] = "gone"
                          \/ tstatus'[t] = tstatus[t] /\ tacct'[t] = tacct[t]
<1>0. \A v \in Workers : \A t \in hold[v] : t \in Tasks /\ (TimeLimited => t \notin old)
    <2>1. hold \in [Workers -> SUBSET Tasks]
        BY DEF OwnerInv, TypeInv, TypeOK
    <2>. QED  BY <2>1 DEF OwnerInv, Owned, OwnedBy
<1>2. ASSUME UNCHANGED <<tstatus, tacct, old>> PROVE Safe
    BY <1>0, <1>2
<1>3. ASSUME NEW a \in Tasks, TaskAges(a) PROVE Safe
    BY <1>0, <1>3 DEF TaskAges
<1>4. ASSUME CleanupOrphans PROVE Safe
    <2>1. CASE TimeLimited
        BY <1>0, <1>4, <2>1 DEF CleanupOrphans, Orphans, GiveBack
    <2>2. CASE ~TimeLimited
        <3>1. PICK w \in Workers : pc[w] = "idle"
            BY <1>4, <2>2 DEF CleanupOrphans, BeatServed
        <3>2. hold[w] = {}
            BY <3>1, EmptyHanded DEF Busy
        <3>. QED  BY <2>2, <3>2 DEF Guarded
    <2>. QED  BY <2>1, <2>2
<1>5. ASSUME Delete PROVE Safe
    BY <1>0, <1>5 DEF Delete
<1>6. Safe
    BY <1>2, <1>3, <1>4, <1>5
       DEF Redeliver, Clock, User, LeaseExpires, CheckCooldowns, HourPasses,
           CooldownEnds, Promote, Activate, SetAccount, Start, Pause, Resume
<1>. QED  BY <1>1, <1>6, Outside

LEMMA OwnerStep ==
    ASSUME OwnerInv, Guarded, [Next]_vars
    PROVE  OwnerInv'
<1>1. TypeInv'
    BY RunType, DisturbType, OtherType, StutterType DEF Next, OwnerInv
<1>2. ASSUME NEW w \in Workers, Run(w) PROVE ClaimsDisjoint' /\ Owned'
    BY <1>2, LeavingStep, DroppingStep, ClaimStep, WaitingStep, RecordStep, CountStep
       DEF Run
<1>3. ASSUME NEW w \in Workers, Disturb(w) PROVE ClaimsDisjoint' /\ Owned'
    BY <1>3, LeavingStep, DroppingStep, SwallowStep DEF Disturb
<1>4. ClaimsDisjoint' /\ Owned'
    BY <1>2, <1>3, OutsideStep DEF Next
<1>. QED  BY <1>1, <1>4 DEF OwnerInv

LEMMA InitOwner == Init => OwnerInv
BY InitType DEF Init, OwnerInv, ClaimsDisjoint, Owned, OwnedBy

LEMMA OwnerInvariant == ASSUME Guarded PROVE Spec => []OwnerInv
BY InitOwner, OwnerStep, PTL DEF Spec

\* However many runs there are at once, whatever is duplicated, killed or
\* cleaned up, a task is worked on by one run at a time.
THEOREM ClaimsAreDisjoint == ASSUME Guarded PROVE Spec => []ClaimsDisjoint
<1>1. OwnerInv => ClaimsDisjoint
    BY DEF OwnerInv
<1>. QED  BY <1>1, OwnerInvariant, PTL

\* A task about to be invited is still the run's own in the database.
THEOREM HeldTasksAreClaimed == ASSUME Guarded PROVE Spec => []HeldIsClaimed
<1>1. OwnerInv => HeldIsClaimed
    BY DEF OwnerInv, Owned, OwnedBy, Written, HeldIsClaimed
<1>. QED  BY <1>1, OwnerInvariant, PTL

-----------------------------------------------------------------------------
(* A completed campaign has nothing left to do.                            *)

\* Once no task is open, no step opens one.
LEMMA OpenStaysEmpty ==
    ASSUME OwnerInv, Open = {}, [Next]_vars
    PROVE  Open' = {}
<1>1. ASSUME UNCHANGED tstatus PROVE Open' = {}
    BY <1>1 DEF Open
<1>2. \A v \in Workers : \A t \in hold[v] :
          t \in Tasks /\ (tstatus[t] = "gone" \/ Written(v, t))
    BY DEF Open, OwnerInv, Owned, OwnedBy, TypeInv, TypeOK
<1>3. ASSUME NEW w \in Workers, Claim(w) PROVE Open' = {}
    BY <1>3 DEF Claim, Pending, Open
<1>4. ASSUME NEW w \in Workers, ClientFails(w) \/ LinkFails(w) PROVE Open' = {}
    BY <1>2, <1>4 DEF ClientFails, LinkFails, PutBatchBack, GiveBack, Written, Open
<1>5. ASSUME NEW w \in Workers, EndBatch(w) PROVE Open' = {}
    BY <1>5 DEF EndBatch, GiveBack, Open, OwnerInv, TypeInv, TypeOK
<1>6. ASSUME NEW w \in Workers, Record(w) PROVE Open' = {}
    <2>1. job[w].task \in hold[w] /\ job[w].result \in Results
        BY <1>6 DEF Record, OwnerInv, TypeInv, JobInv
    <2>2. tstatus[job[w].task] = "gone" \/ job[w].result \in RetryOutcomes
        BY <1>2, <1>6, <2>1 DEF Written, Record
    <2>. QED
        BY <1>6, <2>2 DEF Record, StatusOf, RetryOutcomes, Open, OwnerInv, TypeInv, TypeOK
<1>7. CASE CleanupOrphans
    BY <1>7 DEF CleanupOrphans, Orphans, GiveBack, Open
<1>8. CASE Delete
    BY <1>8 DEF Delete, Open
<1>. QED
    BY <1>1, <1>3, <1>4, <1>5, <1>6, <1>7, <1>8
       DEF Next, Run, Disturb, Clock, User, Redeliver, LeaseExpires, CheckCooldowns,
           TaskAges, HourPasses, CooldownEnds, Promote, Activate, SetAccount,
           Start, Pause, Resume, Deliver, CheckLease, TakeLease, Release, Load,
           PickAccounts, AllCooling, NoAccounts, NextAccount, ClientReady,
           ConnectFails, Connected, Invite, Count, Cool, Finish, Complete, Unwind,
           Requeue, QuietHours, SoftTimeout, Swallow, HardKill, Crash
LEMMA DrainedStep ==
    ASSUME OwnerInv, Drained, [Next]_vars
    PROVE  Drained'
<1>1. CASE Open = {}
    BY <1>1, OpenStaysEmpty DEF Drained
<1>2. CASE Open # {}
    <2>1. campaign # "completed" /\ \A w \in Workers : pc[w] # "complete"
        BY <1>2 DEF Drained
    <2>2. ASSUME NEW w \in Workers, Run(w)
          PROVE  campaign' # "completed" /\ \A v \in Workers : pc'[v] # "complete"
        BY <1>2, <2>1, <2>2
           DEF Run, Deliver, CheckLease, TakeLease, Release, Load,
               PickAccounts, AllCooling, NoAccounts, NextAccount, Claim, ClientFails,
               ClientReady, LinkFails, ConnectFails, Connected, EndBatch, Invite,
               Record, Count, Cool, Finish, Complete, Unwind, Requeue, PutBatchBack,
               Abandon, EndRun, OwnerInv, TypeInv, TypeOK
    <2>3. ASSUME NEW w \in Workers, Disturb(w)
          PROVE  campaign' # "completed" /\ \A v \in Workers : pc'[v] # "complete"
        BY <2>1, <2>3
           DEF Disturb, QuietHours, SoftTimeout, Swallow, HardKill, Crash, Abandon,
               EndRun, OwnerInv, TypeInv, TypeOK
    <2>4. ASSUME (\E i \in Ids : Redeliver(i)) \/ Clock \/ User \/ UNCHANGED vars
          PROVE  campaign' # "completed" /\ pc' = pc
        BY <2>1, <2>4
           DEF Redeliver, Clock, User, LeaseExpires, CleanupOrphans, CheckCooldowns,
               TaskAges, HourPasses, CooldownEnds, Promote, Activate, SetAccount,
               Start, Pause, Resume, Delete
    <2>. QED  BY <2>1, <2>2, <2>3, <2>4 DEF Next, Drained
<1>. QED  BY <1>1, <1>2

\* A campaign marked completed has no task left to do, although the decision
\* and the commit are two transactions and other runs go on in between.
THEOREM CompletedCampaignsAreDrained ==
    ASSUME Guarded PROVE Spec => []CompletedIsDrained
<1>1. Init => IInv
    BY InitOwner DEF Init, IInv, Drained
<1>2. IInv /\ [Next]_vars => IInv'
    BY OwnerStep, DrainedStep DEF IInv
<1>3. IInv => CompletedIsDrained
    BY DEF IInv, Drained, Open, CompletedIsDrained
<1>. QED  BY <1>1, <1>2, <1>3, PTL DEF Spec
-----------------------------------------------------------------------------
(* Dispatch implements the ledger.                                         *)

LEMMA OwnerOfHeld ==
    ASSUME NEW h, \A v, w \in Workers : v # w => h[v] \cap h[w] = {},
           NEW w \in Workers, NEW t \in h[w]
    PROVE  OwnerIn(h, t) = w
BY DEF OwnerIn

LEMMA OwnerOfFree ==
    ASSUME NEW h, NEW t, \A w \in Workers : t \notin h[w]
    PROVE  OwnerIn(h, t) = None
BY DEF OwnerIn

\* Who owns a task follows from who holds it.
LEMMA SameHolders ==
    ASSUME NEW g, NEW h, NEW t, \A v \in Workers : t \in h[v] <=> t \in g[v]
    PROVE  OwnerIn(h, t) = OwnerIn(g, t)
BY DEF OwnerIn

\* A step of the ledger, or none at all.
LedgerStep ==
    Ledger!Next \/ UNCHANGED <<[t \in Tasks |-> OwnerIn(hold, t)],
                              [t \in Tasks |-> VerdictOf(t)]>>

\* A run that lets go of S, no verdict changing.
LEMMA LetGoMaps ==
    ASSUME OwnerInv, OwnerInv', NEW w \in Workers, NEW S \in SUBSET hold[w],
           hold' = [hold EXCEPT ![w] = hold[w] \ S],
           \A t \in Tasks : VerdictOf(t)' = VerdictOf(t)
    PROVE  Ledger!LetGo(w, S)
<1>1. hold \in [Workers -> SUBSET Tasks]
    BY DEF OwnerInv, TypeInv, TypeOK
<1>2. \A t \in S : t \in Tasks /\ OwnerIn(hold, t) = w
    BY <1>1, OwnerOfHeld DEF OwnerInv, ClaimsDisjoint
<1>3. ASSUME NEW t \in S PROVE OwnerIn(hold', t) = None
    <2>1. \A v \in Workers : t \notin hold'[v]
        BY <1>1, <1>3 DEF OwnerInv, ClaimsDisjoint
    <2>. QED  BY <2>1, OwnerOfFree
<1>4. ASSUME NEW t \in Tasks \ S PROVE OwnerIn(hold', t) = OwnerIn(hold, t)
    <2>1. \A v \in Workers : t \in hold'[v] <=> t \in hold[v]
        BY <1>1, <1>4
    <2>. QED  BY <2>1, SameHolders
<1>. QED  BY <1>2, <1>3, <1>4 DEF Ledger!LetGo

LEMMA LeavingMaps ==
    ASSUME OwnerInv, OwnerInv', NEW w \in Workers, hold' = [hold EXCEPT ![w] = {}],
           \A t \in Tasks : VerdictOf(t)' = VerdictOf(t)
    PROVE  LedgerStep
<1>1. Ledger!LetGo(w, hold[w])
    BY LetGoMaps
<1>2. hold[w] \in SUBSET Tasks
    BY DEF OwnerInv, TypeInv, TypeOK
<1>. QED  BY <1>1, <1>2 DEF Ledger!Next, LedgerStep

LEMMA LetOneGoMaps ==
    ASSUME OwnerInv, OwnerInv', NEW w \in Workers, NEW t \in hold[w],
           hold' = [hold EXCEPT ![w] = hold[w] \ {t}],
           \A u \in Tasks : VerdictOf(u)' = VerdictOf(u)
    PROVE  LedgerStep
<1> DEFINE S == {t}
<1>1. S \in SUBSET hold[w] /\ S \in SUBSET Tasks
    BY DEF OwnerInv, TypeInv, TypeOK
<1>2. hold' = [hold EXCEPT ![w] = hold[w] \ S]
    OBVIOUS
<1> HIDE DEF S
<1>3. Ledger!LetGo(w, S)
    BY <1>1, <1>2, LetGoMaps
<1>. QED  BY <1>1, <1>3 DEF Ledger!Next, LedgerStep

LEMMA StutterMaps ==
    ASSUME UNCHANGED hold, \A t \in Tasks : VerdictOf(t)' = VerdictOf(t)
    PROVE  LedgerStep
BY DEF LedgerStep
\* No verdict is written when a run gives back tasks it has not settled.
LEMMA GiveBackKeepsVerdicts ==
    ASSUME OwnerInv, NEW S \in SUBSET Tasks, GiveBack(S),
           \A t \in S : tstatus[t] \in {"in_progress", "gone"}
    PROVE  \A t \in Tasks : VerdictOf(t)' = VerdictOf(t)
BY DEF GiveBack, VerdictOf, Settled, OwnerInv, TypeInv, TypeOK

LEMMA DroppingMaps ==
    ASSUME OwnerInv, OwnerInv', NEW w \in Workers,
           \/ ClientFails(w) \/ LinkFails(w) \/ ConnectFails(w) \/ EndBatch(w)
           \/ SoftTimeout(w) \/ HardKill(w) \/ Crash(w)
    PROVE  LedgerStep
<1>1. hold' = [hold EXCEPT ![w] = {}]
    BY DEF ClientFails, LinkFails, PutBatchBack, ConnectFails, Abandon, EndBatch,
           SoftTimeout, HardKill, Crash, EndRun
<1>2. hold[w] \in SUBSET Tasks
    BY DEF OwnerInv, TypeInv, TypeOK
<1>3. CASE UNCHANGED tstatus
    <2>1. \A t \in Tasks : VerdictOf(t)' = VerdictOf(t)
        BY <1>3 DEF VerdictOf
    <2>. QED  BY <1>1, <2>1, LeavingMaps
<1>4. CASE ClientFails(w) \/ LinkFails(w)
    <2>1. GiveBack(hold[w]) /\ pc[w] \in {"open", "connect"}
        BY <1>4 DEF ClientFails, LinkFails, PutBatchBack
    <2>2. \A t \in hold[w] : tstatus[t] \in {"in_progress", "gone"}
        BY <2>1 DEF OwnerInv, Owned, OwnedBy, Written
    <2>3. \A t \in Tasks : VerdictOf(t)' = VerdictOf(t)
        BY <1>2, <2>1, <2>2, GiveBackKeepsVerdicts
    <2>. QED  BY <1>1, <2>3, LeavingMaps
<1>5. CASE EndBatch(w)
    <2>1. GiveBack({t \in hold[w] : tstatus[t] = "in_progress"})
        BY <1>5 DEF EndBatch
    <2>2. \A t \in Tasks : VerdictOf(t)' = VerdictOf(t)
        BY <1>2, <2>1, GiveBackKeepsVerdicts
    <2>. QED  BY <1>1, <2>2, LeavingMaps
<1>. QED
    BY <1>3, <1>4, <1>5 DEF ConnectFails, SoftTimeout, HardKill, Crash

LEMMA LeavingStepMaps ==
    ASSUME OwnerInv, OwnerInv', NEW w \in Workers,
           \/ Deliver(w) \/ CheckLease(w) \/ TakeLease(w) \/ Release(w) \/ Load(w)
           \/ PickAccounts(w) \/ AllCooling(w) \/ NoAccounts(w) \/ NextAccount(w)
           \/ Finish(w) \/ Complete(w) \/ Unwind(w) \/ Requeue(w) \/ QuietHours(w)
    PROVE  LedgerStep
<1>1. UNCHANGED tstatus
    BY DEF Deliver, CheckLease, TakeLease, Release, Load, PickAccounts, AllCooling,
           NoAccounts, NextAccount, Finish, Complete, Unwind, Requeue, QuietHours
<1>2. hold' = hold \/ hold' = [hold EXCEPT ![w] = {}]
    BY DEF Deliver, CheckLease, TakeLease, Release, Load, PickAccounts, AllCooling,
           NoAccounts, NextAccount, Finish, Complete, Unwind, Requeue, QuietHours, EndRun
<1>3. \A t \in Tasks : VerdictOf(t)' = VerdictOf(t)
    BY <1>1 DEF VerdictOf
<1>. QED  BY <1>2, <1>3, StutterMaps, LeavingMaps

LEMMA ClaimMaps ==
    ASSUME OwnerInv, OwnerInv', NEW w \in Workers, Claim(w)
    PROVE  LedgerStep
<1>1. hold[w] = {} /\ hold \in [Workers -> SUBSET Tasks]
    BY EmptyHanded DEF Claim, Busy, OwnerInv, TypeInv, TypeOK
<1>2. CASE Pending = {}
    <2>1. hold' = hold /\ tstatus' = tstatus
        BY <1>2 DEF Claim
    <2>2. \A t \in Tasks : VerdictOf(t)' = VerdictOf(t)
        BY <2>1 DEF VerdictOf
    <2>. QED  BY <2>1, <2>2, StutterMaps
<1>3. CASE Pending # {}
    <2>1. PICK B \in SUBSET Pending :
              /\ tstatus' = [t \in Tasks |-> IF t \in B THEN "in_progress" ELSE tstatus[t]]
              /\ hold' = [hold EXCEPT ![w] = B]
        BY <1>3 DEF Claim
    <2>2. \A t \in Tasks : VerdictOf(t)' = VerdictOf(t)
        BY <2>1 DEF VerdictOf, Pending, Settled
    <2>3. ASSUME NEW t \in B
          PROVE  t \in Tasks /\ OwnerIn(hold, t) = None /\ VerdictOf(t) = "open"
        <3>1. \A v \in Workers : t \notin hold[v]
            BY DEF OwnerInv, Owned, OwnedBy, Written, Pending, Settled
        <3>2. OwnerIn(hold, t) = None
            BY <3>1, OwnerOfFree
        <3>. QED  BY <3>2 DEF VerdictOf, Pending, Settled
    <2>4. ASSUME NEW t \in B PROVE OwnerIn(hold', t) = w
        <3>1. t \in hold'[w]
            BY <1>1, <2>1
        <3>. QED  BY <3>1, OwnerOfHeld DEF OwnerInv, ClaimsDisjoint
    <2>5. ASSUME NEW t \in Tasks \ B PROVE OwnerIn(hold', t) = OwnerIn(hold, t)
        <3>1. \A v \in Workers : t \in hold'[v] <=> t \in hold[v]
            BY <1>1, <2>1, <2>5
        <3>. QED  BY <3>1, SameHolders
    <2>6. Ledger!Claim(w, B)
        BY <2>2, <2>3, <2>4, <2>5 DEF Ledger!Claim
    <2>. QED  BY <2>6 DEF Ledger!Next, LedgerStep, Pending
<1>. QED  BY <1>2, <1>3
\* A run that goes on: its owner stays, and so do the verdicts.
LEMMA WaitingMaps ==
    ASSUME OwnerInv, NEW w \in Workers,
           ClientReady(w) \/ Connected(w) \/ Invite(w) \/ Cool(w)
    PROVE  LedgerStep
<1>1. UNCHANGED <<hold, tstatus>>
    BY DEF ClientReady, Connected, Invite, Cool
<1>2. \A t \in Tasks : VerdictOf(t)' = VerdictOf(t)
    BY <1>1 DEF VerdictOf
<1>. QED  BY <1>1, <1>2, StutterMaps

LEMMA RecordMaps ==
    ASSUME OwnerInv, OwnerInv', NEW w \in Workers, Record(w)
    PROVE  LedgerStep
<1>0. job[w].task \in hold[w] /\ job[w].result \in Results
    BY DEF Record, OwnerInv, TypeInv, JobInv
<1>9. PICK t \in hold[w], r \in Results : t = job[w].task /\ r = job[w].result
    BY <1>0
<1>1. t \in hold[w] /\ t \in Tasks /\ r \in Results
    BY DEF OwnerInv, TypeInv, TypeOK
<1>2. tstatus' = [tstatus EXCEPT ![t] = IF @ = "gone" THEN @ ELSE StatusOf(r)]
    BY <1>9 DEF Record
<1>3. tstatus \in [Tasks -> TaskStates] /\ hold \in [Workers -> SUBSET Tasks]
    BY DEF OwnerInv, TypeInv, TypeOK
<1>4. hold' = IF r \in {"flood", "skipped"} THEN [hold EXCEPT ![w] = hold[w] \ {t}] ELSE hold
    BY <1>9 DEF Record
<1>5. \A u \in Tasks \ {t} : VerdictOf(u)' = VerdictOf(u)
    BY <1>2, <1>3 DEF VerdictOf
<1>6. CASE tstatus[t] = "gone" \/ r = "flood"
    <2>1. r = "flood" => tstatus[t] \in {"gone", "in_progress"}
        BY <1>1, <1>9 DEF OwnerInv, Owned, OwnedBy, Written, RetryOutcomes, Record
    <2>2. VerdictOf(t)' = VerdictOf(t)
        BY <1>1, <1>2, <1>3, <1>6, <2>1 DEF VerdictOf, StatusOf, Settled
    <2>3. \A u \in Tasks : VerdictOf(u)' = VerdictOf(u)
        BY <1>5, <2>2
    <2>4. CASE r \in {"flood", "skipped"}
        <3>1. hold' = [hold EXCEPT ![w] = hold[w] \ {t}]
            BY <1>4, <2>4
        <3>. QED  BY <2>3, <3>1, LetOneGoMaps
    <2>5. CASE r \notin {"flood", "skipped"}
        BY <1>4, <2>3, <2>5, StutterMaps
    <2>. QED  BY <2>4, <2>5
<1>7. CASE tstatus[t] # "gone" /\ r # "flood"
    <2>1. tstatus'[t] = StatusOf(r) /\ StatusOf(r) \in Settled
        BY <1>1, <1>2, <1>3, <1>7 DEF StatusOf, Results, Settled
    <2>2. [u \in Tasks |-> VerdictOf(u)]' = [[u \in Tasks |-> VerdictOf(u)] EXCEPT ![t] = StatusOf(r)]
        BY <1>1, <1>5, <2>1 DEF VerdictOf
    <2>3. OwnerIn(hold, t) = w /\ VerdictOf(t) # "gone"
        BY <1>1, <1>7, OwnerOfHeld DEF OwnerInv, ClaimsDisjoint, VerdictOf
    <2>4. \A u \in Tasks \ {t} : OwnerIn(hold', u) = OwnerIn(hold, u)
        <3>1. \A u \in Tasks \ {t} : \A v \in Workers : u \in hold'[v] <=> u \in hold[v]
            BY <1>3, <1>4
        <3>. QED  BY <3>1, SameHolders
    <2>5. OwnerIn(hold', t) \in {w, None}
        <3>1. CASE r = "skipped"
            <4>1. \A v \in Workers : t \notin hold'[v]
                BY <1>1, <1>3, <1>4, <3>1 DEF OwnerInv, ClaimsDisjoint
            <4>. QED  BY <4>1, OwnerOfFree
        <3>2. CASE r # "skipped"
            BY <1>4, <1>7, <2>3, <3>2
        <3>. QED  BY <3>1, <3>2
    <2>6. \/ [u \in Tasks |-> OwnerIn(hold, u)]' = [u \in Tasks |-> OwnerIn(hold, u)]
          \/ [u \in Tasks |-> OwnerIn(hold, u)]' =
                [[u \in Tasks |-> OwnerIn(hold, u)] EXCEPT ![t] = None]
        BY <2>3, <2>4, <2>5
    <2>7. Ledger!Decide(w, t, StatusOf(r))
        BY <1>1, <2>2, <2>3, <2>6 DEF Ledger!Decide
    <2>. QED  BY <1>1, <2>1, <2>7 DEF Ledger!Next, Ledger!Verdicts, Settled, LedgerStep
<1>. QED  BY <1>6, <1>7

LEMMA CountMaps ==
    ASSUME OwnerInv, OwnerInv', NEW w \in Workers, Count(w)
    PROVE  LedgerStep
<1>0. job[w].task \in hold[w]
    BY DEF Count, OwnerInv, TypeInv, JobInv
<1>9. PICK t \in hold[w] : t = job[w].task
    BY <1>0
<1>2. hold' = [hold EXCEPT ![w] = hold[w] \ {t}] /\ tstatus' = tstatus
    BY <1>9 DEF Count
<1>3. \A u \in Tasks : VerdictOf(u)' = VerdictOf(u)
    BY <1>2 DEF VerdictOf
<1>. QED  BY <1>2, <1>3, LetOneGoMaps

LEMMA SwallowMaps ==
    ASSUME OwnerInv, OwnerInv', NEW w \in Workers, Swallow(w)
    PROVE  LedgerStep
<1>1. \A u \in Tasks : VerdictOf(u)' = VerdictOf(u)
    BY DEF Swallow, VerdictOf
<1>2. hold' = hold \/ hold' = [hold EXCEPT ![w] = {}]
    BY DEF Swallow, Abandon
<1>. QED  BY <1>1, <1>2, StutterMaps, LeavingMaps

LEMMA OutsideMaps ==
    ASSUME OwnerInv, (\E i \in Ids : Redeliver(i)) \/ Clock \/ User \/ UNCHANGED vars
    PROVE  LedgerStep
<1>1. UNCHANGED hold
    BY DEF Redeliver, Clock, User, LeaseExpires, CleanupOrphans, CheckCooldowns,
           TaskAges, HourPasses, CooldownEnds, Promote, Activate, SetAccount,
           Start, Pause, Resume, Delete
<1>2. CASE UNCHANGED tstatus
    <2>1. \A t \in Tasks : VerdictOf(t)' = VerdictOf(t)
        BY <1>2 DEF VerdictOf
    <2>. QED  BY <1>1, <2>1, StutterMaps
<1>3. CASE CleanupOrphans
    <2>1. Orphans \in SUBSET Tasks /\ GiveBack(Orphans)
        BY <1>3 DEF CleanupOrphans, Orphans, OwnerInv, TypeInv, TypeOK
    <2>2. \A t \in Tasks : VerdictOf(t)' = VerdictOf(t)
        BY <2>1, GiveBackKeepsVerdicts DEF Orphans
    <2>. QED  BY <1>1, <2>2, StutterMaps
<1>4. CASE Delete
    <2>1. Ledger!Erase
        BY <1>1, <1>4 DEF Delete, Ledger!Erase, VerdictOf
    <2>. QED  BY <2>1 DEF Ledger!Next, LedgerStep
<1>. QED
    BY <1>2, <1>3, <1>4
       DEF Redeliver, Clock, User, LeaseExpires, CheckCooldowns, TaskAges, HourPasses,
           CooldownEnds, Promote, Activate, SetAccount, Start, Pause, Resume

\* Invite dispatch implements the task ledger, for any number of workers.
THEOREM DispatchImplementsLedger == ASSUME Guarded PROVE Spec => ImplementsLedger
<1>1. Init => Ledger!Init
    BY OwnerOfFree DEF Init, Ledger!Init, VerdictOf, Settled
<1>2. ASSUME OwnerInv, OwnerInv', [Next]_vars PROVE LedgerStep
    <2>1. ASSUME NEW w \in Workers, Run(w) PROVE LedgerStep
        BY <1>2, <2>1, LeavingStepMaps, DroppingMaps, ClaimMaps, WaitingMaps, RecordMaps,
           CountMaps DEF Run
    <2>2. ASSUME NEW w \in Workers, Disturb(w) PROVE LedgerStep
        BY <1>2, <2>2, LeavingStepMaps, DroppingMaps, SwallowMaps DEF Disturb
    <2>. QED  BY <1>2, <2>1, <2>2, OutsideMaps DEF Next
<1>. QED
    BY <1>1, <1>2, OwnerInvariant, PTL DEF Spec, ImplementsLedger, Ledger!Spec, LedgerStep
-----------------------------------------------------------------------------
(* A settled task is never reopened, as long as no soft time limit is      *)
(* swallowed by the except clauses of the invitation.                      *)

\* No verdict has been written on the task whose outcome is to be recorded.
Calm ==
    /\ budget["swallow"] = 0
    /\ \A w \in Workers : pc[w] = "record" => tstatus[job[w].task] \notin Settled

\* Only the record of an outcome settles a task.
LEMMA SettledByRecord ==
    ASSUME OwnerInv, [Next]_vars, NEW t \in Tasks,
           tstatus[t] \notin Settled, tstatus'[t] \in Settled
    PROVE  \E v \in Workers : Record(v) /\ t = job[v].task
<1>1. tstatus' # tstatus
    OBVIOUS
<1>2. ASSUME NEW S, GiveBack(S) PROVE FALSE
    BY <1>2 DEF GiveBack, Settled
<1>3. ASSUME NEW w \in Workers, Claim(w) PROVE FALSE
    BY <1>3 DEF Claim, Settled
<1>4. ASSUME Delete PROVE FALSE
    BY <1>4 DEF Delete, Settled
<1>5. ASSUME NEW w \in Workers, Record(w) PROVE t = job[w].task
    BY <1>5 DEF Record, OwnerInv, TypeInv, TypeOK
<1>6. ASSUME NEW w \in Workers, Run(w) PROVE Record(w)
    <2>1. ~(Deliver(w) \/ CheckLease(w) \/ TakeLease(w) \/ Release(w) \/ Load(w)
               \/ PickAccounts(w) \/ AllCooling(w) \/ NoAccounts(w) \/ NextAccount(w))
        BY <1>1 DEF Deliver, CheckLease, TakeLease, Release, Load, PickAccounts,
               AllCooling, NoAccounts, NextAccount
    <2>2. ~(ClientFails(w) \/ LinkFails(w) \/ EndBatch(w))
        BY <1>2 DEF ClientFails, LinkFails, PutBatchBack, EndBatch
    <2>3. ~(ClientReady(w) \/ ConnectFails(w) \/ Connected(w) \/ Invite(w) \/ Count(w))
        BY <1>1 DEF ClientReady, ConnectFails, Connected, Invite, Count
    <2>4. ~(Cool(w) \/ Finish(w) \/ Complete(w) \/ Unwind(w) \/ Requeue(w))
        BY <1>1 DEF Cool, Finish, Complete, Unwind, Requeue
    <2>. QED  BY <1>3, <1>6, <2>1, <2>2, <2>3, <2>4 DEF Run
<1>7. ASSUME NEW w \in Workers, Disturb(w) PROVE FALSE
    BY <1>1, <1>7 DEF Disturb, QuietHours, SoftTimeout, Swallow, HardKill, Crash
<1>8. ASSUME (\E i \in Ids : Redeliver(i)) \/ Clock PROVE FALSE
    <2>1. CASE CleanupOrphans
        BY <1>2, <2>1 DEF CleanupOrphans
    <2>. QED
        BY <1>1, <1>8, <2>1 DEF Redeliver, Clock, LeaseExpires, CheckCooldowns, TaskAges,
               HourPasses, CooldownEnds, Promote, SetAccount
<1>9. ASSUME User PROVE FALSE
    BY <1>1, <1>4, <1>9 DEF User, Start, Pause, Resume, Activate, SetAccount
<1>10. ~UNCHANGED vars
    BY <1>1
<1>. QED  BY <1>5, <1>6, <1>7, <1>8, <1>9, <1>10 DEF Next

\* A run comes to "record" from the invitation, or by the retry of a success that
\* a swallowed limit has interrupted.
LEMMA ToRecord ==
    ASSUME OwnerInv, [Next]_vars, NEW w \in Workers, pc'[w] = "record"
    PROVE  \/ Invite(w)
           \/ pc[w] = "record" /\ job'[w] = job[w] /\ ~Record(w)
           \/ Swallow(w) /\ job'[w].result \in RetryOutcomes
<1>2. ASSUME NEW v \in Workers, Run(v)
      PROVE  Invite(w) \/ (pc[w] = "record" /\ job'[w] = job[w] /\ ~Record(w))
    BY <1>2 DEF Run, Deliver, CheckLease, TakeLease, Release, Load,
           PickAccounts, AllCooling, NoAccounts, NextAccount, Claim, ClientFails,
           ClientReady, LinkFails, ConnectFails, Connected, EndBatch, Invite, Record,
           Count, Cool, Finish, Complete, Unwind, Requeue, PutBatchBack, Abandon,
           EndRun, OwnerInv, TypeInv, TypeOK
<1>3. ASSUME NEW v \in Workers, Disturb(v)
      PROVE  \/ pc[w] = "record" /\ job'[w] = job[w] /\ ~Record(w)
             \/ Swallow(w) /\ job'[w].result \in RetryOutcomes
    <2>1. CASE Swallow(v) /\ v = w
        <3>1. job[w].result = "success"
            BY <2>1 DEF Swallow, Abandon, OwnerInv, TypeInv, TypeOK
        <3>2. PICK r \in RetryOutcomes : job' = [job EXCEPT ![w].result = r]
            BY <2>1, <3>1 DEF Swallow
        <3>3. pc[w] \in {"record", "count"}
            BY <2>1, <3>1 DEF Swallow, OwnerInv, TypeInv, JobInv, NoJob, Results
        <3>4. job[w] \in [task : Tasks, result : Results]
            BY <3>3 DEF OwnerInv, TypeInv, JobInv
        <3>5. job'[w].result = r
            BY <3>2, <3>4 DEF OwnerInv, TypeInv, TypeOK
        <3>. QED  BY <2>1, <3>5
    <2>2. CASE ~(Swallow(v) /\ v = w)
        BY <1>3, <2>2 DEF Disturb, QuietHours, SoftTimeout, Swallow, HardKill, Crash,
               Abandon, EndRun, Record, OwnerInv, TypeInv, TypeOK
    <2>. QED  BY <2>1, <2>2
<1>4. ASSUME (\E i \in Ids : Redeliver(i)) \/ Clock \/ User \/ UNCHANGED vars
      PROVE  pc' = pc /\ job' = job
    BY <1>4 DEF Redeliver, Clock, User, LeaseExpires, CleanupOrphans, CheckCooldowns,
           TaskAges, HourPasses, CooldownEnds, Promote, Activate, SetAccount,
           Start, Pause, Resume, Delete
<1>5. Record(w) => pc'[w] # "record"
    BY DEF Record, OwnerInv, TypeInv, TypeOK
<1>. QED  BY <1>2, <1>3, <1>4, <1>5 DEF Next

LEMMA CalmStep ==
    ASSUME OwnerInv, OwnerInv', Calm, [Next]_vars
    PROVE  Calm'
<1>1. budget'["swallow"] = 0
    <2>1. \A w \in Workers : ~Swallow(w)
        BY DEF Calm, Swallow, Spend
    <2>2. ASSUME NEW f \in Faults \ {"swallow"}, Spend(f) PROVE budget'["swallow"] = 0
        BY <2>2 DEF Spend, Calm, OwnerInv, TypeInv, TypeOK
    <2>3. ASSUME UNCHANGED budget PROVE budget'["swallow"] = 0
        BY <2>3 DEF Calm
    <2>4. ASSUME Resume PROVE budget'["swallow"] = 0
        <3>1. CASE Spend("resume")
            BY <2>2, <3>1 DEF Faults
        <3>2. CASE budget' = [budget EXCEPT !["resume"] = @ - 1, !["enqueue"] = @ - 1]
            <4>1. budget \in [Faults -> Nat] /\ budget["swallow"] = 0
                BY DEF Calm, OwnerInv, TypeInv, TypeOK
            <4>. QED  BY <3>2, <4>1 DEF Faults
        <3>. QED  BY <2>4, <3>1, <3>2 DEF Resume
    <2>5. ASSUME NEW w \in Workers, Run(w)
          PROVE  UNCHANGED budget \/ Spend("enqueue") \/ Spend("flood")
        BY <2>5 DEF Run, Deliver, CheckLease, TakeLease, Release, Load, PickAccounts,
               AllCooling, NoAccounts, NextAccount, Claim, ClientFails, ClientReady,
               LinkFails, PutBatchBack, EndBatch, ConnectFails, Connected, Invite,
               Answers, Record, Count, Cool, Finish, Complete, Unwind, Requeue, Reschedule
    <2>6. ASSUME NEW w \in Workers, Disturb(w)
          PROVE  UNCHANGED budget \/ Spend("enqueue") \/ Spend("crash")
        BY <2>1, <2>6 DEF Disturb, QuietHours, SoftTimeout, HardKill, Crash
    <2>7. ASSUME (\E i \in Ids : Redeliver(i)) \/ Clock \/ User \/ UNCHANGED vars
          PROVE  UNCHANGED budget \/ Spend("duplicate") \/ Spend("enqueue") \/ Resume
        BY <2>7 DEF Redeliver, Clock, User, LeaseExpires, CleanupOrphans,
               CheckCooldowns, TaskAges, HourPasses, CooldownEnds, Promote, Activate,
               SetAccount, Start, Pause, Delete
    <2>. QED  BY <2>2, <2>3, <2>4, <2>5, <2>6, <2>7 DEF Next, Faults
<1>2. ASSUME NEW w \in Workers, pc'[w] = "record", tstatus'[job'[w].task] \in Settled
      PROVE  FALSE
    <2>1. PICK t \in Tasks : t = job'[w].task /\ t \in hold'[w]
        BY <1>2 DEF OwnerInv, TypeInv, TypeOK, JobInv
    <2>2. CASE Invite(w)
        <3>1. t \in hold[w] /\ tstatus'[t] = tstatus[t] /\ pc[w] = "invite"
            BY <2>1, <2>2 DEF Invite
        <3>. QED
            BY <1>2, <2>1, <3>1 DEF OwnerInv, Owned, OwnedBy, Written, Settled
    <2>3. CASE pc[w] = "record" /\ job'[w] = job[w] /\ ~Record(w)
        <3>1. t = job[w].task /\ t \in hold[w] /\ tstatus[t] \notin Settled
            BY <2>1, <2>3 DEF Calm, OwnerInv, TypeInv, JobInv
        <3>2. PICK v \in Workers : Record(v) /\ t = job[v].task
            BY <1>2, <2>1, <3>1, SettledByRecord
        <3>3. v # w /\ t \in hold[v]
            BY <2>3, <3>2 DEF Record, OwnerInv, TypeInv, JobInv
        <3>. QED  BY <3>1, <3>3 DEF OwnerInv, ClaimsDisjoint
    <2>4. ~Swallow(w)
        BY DEF Calm, Swallow, Spend
    <2>. QED  BY <1>2, <2>2, <2>3, <2>4, ToRecord
<1>. QED  BY <1>1, <1>2 DEF Calm

\* A settled row is written by the record of a run that goes on with the task, and
\* by the deletion of the campaign.
LEMMA SettledRewritten ==
    ASSUME OwnerInv, [Next]_vars, NEW t \in Tasks, tstatus[t] \in Settled,
           \A w \in Workers : Record(w) => t # job[w].task
    PROVE  tstatus'[t] \in {tstatus[t], "gone"}
<1>1. ASSUME UNCHANGED tstatus PROVE tstatus'[t] = tstatus[t]
    BY <1>1
<1>2. ASSUME NEW w \in Workers, Claim(w) PROVE tstatus'[t] = tstatus[t]
    BY <1>2 DEF Claim, Pending, Settled
<1>3. ASSUME NEW w \in Workers, ClientFails(w) \/ LinkFails(w)
      PROVE  tstatus'[t] = tstatus[t]
    <2>1. t \notin hold[w]
        BY <1>3 DEF ClientFails, LinkFails, OwnerInv, Owned, OwnedBy, Written, Settled
    <2>. QED  BY <1>3, <2>1 DEF ClientFails, LinkFails, PutBatchBack, GiveBack
<1>4. ASSUME NEW w \in Workers, EndBatch(w) PROVE tstatus'[t] = tstatus[t]
    BY <1>4 DEF EndBatch, GiveBack, Settled
<1>5. ASSUME NEW w \in Workers, Record(w) PROVE tstatus'[t] = tstatus[t]
    BY <1>5 DEF Record, OwnerInv, TypeInv, TypeOK
<1>6. ASSUME CleanupOrphans PROVE tstatus'[t] = tstatus[t]
    BY <1>6 DEF CleanupOrphans, Orphans, GiveBack, Settled
<1>7. ASSUME Delete PROVE tstatus'[t] = "gone"
    BY <1>7 DEF Delete
<1>. QED
    BY <1>1, <1>2, <1>3, <1>4, <1>5, <1>6, <1>7
       DEF Next, Run, Disturb, Clock, User, Redeliver, LeaseExpires, CheckCooldowns,
           TaskAges, HourPasses, CooldownEnds, Promote, Activate, SetAccount, Start,
           Pause, Resume, Deliver, CheckLease, TakeLease, Release, Load, PickAccounts,
           AllCooling, NoAccounts, NextAccount, ClientReady, ConnectFails, Connected,
           Invite, Count, Cool, Finish, Complete, Unwind, Requeue, QuietHours,
           SoftTimeout, Swallow, HardKill, Crash

LEMMA SettledStep ==
    ASSUME OwnerInv, Calm, [Next]_vars, NEW t \in Tasks, tstatus[t] \in Settled
    PROVE  tstatus'[t] \in {tstatus[t], "gone"}
<1>1. ASSUME NEW w \in Workers, Record(w) PROVE t # job[w].task
    BY <1>1 DEF Record, Calm
<1>. QED  BY <1>1, SettledRewritten

\* A settled task stays as it is until its campaign is deleted.
THEOREM SettledTasksStay ==
    ASSUME Guarded, Budget["swallow"] = 0 PROVE Spec => SettledForGood
<1>1. Init => Calm
    BY DEF Init, Calm
<1>2. OwnerInv /\ OwnerInv' /\ Calm /\ [Next]_vars => Calm'
    BY CalmStep
<1>3. OwnerInv /\ Calm /\ [Next]_vars =>
          [\A t \in Tasks :
              tstatus[t] \in Settled => tstatus'[t] = tstatus[t] \/ tstatus'[t] = "gone"]_vars
    BY SettledStep
<1>. QED  BY <1>1, <1>2, <1>3, OwnerInvariant, PTL DEF Spec, SettledForGood

-----------------------------------------------------------------------------
(* The counters.  A counter is written after the row it counts, in a       *)
(* transaction of its own: what is recorded and not yet counted is due.    *)

Rows(s) == {t \in Tasks : tstatus[t] = s}

Due(s) == {t \in Tasks : \E w \in Workers :
              pc[w] = "count" /\ job[w].task = t /\ StatusOf(job[w].result) = s}

Counter(s) == IF s = "success" THEN completed ELSE failed

Counted == {"success", "failed"}

Lags == \A s \in Counted : Counter(s) <= Cardinality(Rows(s) \ Due(s))

\* A deleted campaign has no rows and no counts, and an outcome about to be
\* counted is the one its row has.
Kept ==
    /\ campaign = "deleted" => completed = 0 /\ failed = 0
    /\ \A t \in Tasks : tstatus[t] = "gone" => campaign = "deleted"
    /\ \A w \in Workers : pc[w] = "count" =>
          /\ job[w].result \in {"success", "failed", "banned"}
          /\ tstatus[job[w].task] \in {"gone", StatusOf(job[w].result)}

CountInv == Kept /\ Lags

\* A run comes to "count" only from the record of its outcome.
LEMMA ToCount ==
    ASSUME OwnerInv, [Next]_vars, NEW w \in Workers, pc'[w] = "count"
    PROVE  /\ job'[w] = job[w]
           /\ Record(w) \/ (pc[w] = "count" /\ ~Count(w))
<1>2. ASSUME NEW v \in Workers, Run(v)
      PROVE  job'[w] = job[w] /\ (Record(w) \/ pc[w] = "count")
    BY <1>2 DEF Run, Deliver, CheckLease, TakeLease, Release, Load,
           PickAccounts, AllCooling, NoAccounts, NextAccount, Claim, ClientFails,
           ClientReady, LinkFails, ConnectFails, Connected, EndBatch, Invite, Record,
           Count, Cool, Finish, Complete, Unwind, Requeue, PutBatchBack, Abandon,
           EndRun, OwnerInv, TypeInv, TypeOK
<1>3. ASSUME NEW v \in Workers, Disturb(v)
      PROVE  pc[w] = "count" /\ job'[w] = job[w]
    BY <1>3 DEF Disturb, QuietHours, SoftTimeout, Swallow, HardKill, Crash,
           Abandon, EndRun, OwnerInv, TypeInv, TypeOK
<1>4. ASSUME (\E i \in Ids : Redeliver(i)) \/ Clock \/ User \/ UNCHANGED vars
      PROVE  pc' = pc /\ job' = job
    BY <1>4 DEF Redeliver, Clock, User, LeaseExpires, CleanupOrphans, CheckCooldowns,
           TaskAges, HourPasses, CooldownEnds, Promote, Activate, SetAccount,
           Start, Pause, Resume, Delete
<1>5. Count(w) => pc'[w] # "count"
    BY DEF Count, OwnerInv, TypeInv, TypeOK
<1>. QED  BY <1>2, <1>3, <1>4, <1>5 DEF Next

\* What is counted stays so until the campaign is deleted.
LEMMA CountedStays ==
    ASSUME OwnerInv, Calm, [Next]_vars, NEW s \in Counted, NEW t \in Rows(s) \ Due(s),
           tstatus'[t] # "gone"
    PROVE  t \in (Rows(s) \ Due(s))'
<1>1. t \in Tasks /\ tstatus[t] = s /\ s \in Settled
    BY DEF Rows, Counted, Settled
<1>2. tstatus'[t] = s
    BY <1>1, SettledStep
<1>3. ASSUME NEW w \in Workers, pc'[w] = "count", job'[w].task = t,
             StatusOf(job'[w].result) = s
      PROVE  FALSE
    <2>1. job[w] = job'[w] /\ (Record(w) \/ pc[w] = "count")
        BY <1>3, ToCount
    <2>2. pc[w] # "count"
        BY <1>1, <1>3, <2>1 DEF Due
    <2>3. Record(w)
        BY <2>1, <2>2
    <2>. QED  BY <1>1, <1>3, <2>1, <2>3 DEF Record, Calm
<1>. QED  BY <1>1, <1>2, <1>3 DEF Rows, Due

\* Only a count or the deletion writes the counters, as no soft limit is
\* swallowed.
LEMMA CountersKept ==
    ASSUME Calm, [Next]_vars, ~Delete, \A w \in Workers : ~Count(w)
    PROVE  UNCHANGED <<completed, failed>>
<1>1. \A w \in Workers : ~Swallow(w)
    BY DEF Calm, Swallow, Spend
<1>2. ASSUME NEW w \in Workers, Run(w) PROVE UNCHANGED <<completed, failed>>
    BY <1>2 DEF Run, Deliver, CheckLease, TakeLease, Release, Load,
           PickAccounts, AllCooling, NoAccounts, NextAccount, Claim, ClientFails,
           ClientReady, LinkFails, ConnectFails, Connected, EndBatch, Invite, Record,
           Cool, Finish, Complete, Unwind, Requeue, PutBatchBack
<1>3. ASSUME NEW w \in Workers, Disturb(w) PROVE UNCHANGED <<completed, failed>>
    BY <1>1, <1>3 DEF Disturb, QuietHours, SoftTimeout, HardKill, Crash
<1>4. ASSUME (\E i \in Ids : Redeliver(i)) \/ Clock \/ User \/ UNCHANGED vars
      PROVE  UNCHANGED <<completed, failed>>
    BY <1>4 DEF Redeliver, Clock, User, LeaseExpires, CleanupOrphans, CheckCooldowns,
           TaskAges, HourPasses, CooldownEnds, Promote, Activate, SetAccount,
           Start, Pause, Resume
<1>. QED  BY <1>2, <1>3, <1>4 DEF Next

\* Rows go with their campaign, which stays deleted.
LEMMA GoneByDelete ==
    ASSUME OwnerInv, [Next]_vars, ~Delete
    PROVE  /\ campaign = "deleted" <=> campaign' = "deleted"
           /\ \A t \in Tasks : tstatus'[t] = "gone" <=> tstatus[t] = "gone"
<1>1. campaign = "deleted" <=> campaign' = "deleted"
    <2>1. ASSUME NEW w \in Workers, Run(w) PROVE campaign = "deleted" <=> campaign' = "deleted"
        BY <2>1 DEF Run, Deliver, CheckLease, TakeLease, Release, Load,
               PickAccounts, AllCooling, NoAccounts, NextAccount, Claim, ClientFails,
               ClientReady, LinkFails, ConnectFails, Connected, EndBatch, Invite, Record,
               Count, Cool, Finish, Complete, Unwind, Requeue, PutBatchBack
    <2>2. ASSUME NEW w \in Workers, Disturb(w) PROVE UNCHANGED campaign
        BY <2>2 DEF Disturb, QuietHours, SoftTimeout, Swallow, HardKill, Crash
    <2>3. ASSUME (\E i \in Ids : Redeliver(i)) \/ Clock \/ User \/ UNCHANGED vars
          PROVE  campaign = "deleted" <=> campaign' = "deleted"
        BY <2>3 DEF Redeliver, Clock, User, LeaseExpires, CleanupOrphans, CheckCooldowns,
               TaskAges, HourPasses, CooldownEnds, Promote, Activate, SetAccount,
               Start, Pause, Resume
    <2>. QED  BY <2>1, <2>2, <2>3 DEF Next
<1>2. ASSUME NEW t \in Tasks PROVE tstatus'[t] = "gone" <=> tstatus[t] = "gone"
    <2>1. ASSUME UNCHANGED tstatus PROVE tstatus'[t] = tstatus[t]
        BY <2>1
    <2>2. ASSUME NEW S, GiveBack(S) PROVE tstatus'[t] = "gone" <=> tstatus[t] = "gone"
        BY <2>2 DEF GiveBack
    <2>3. ASSUME NEW w \in Workers, Claim(w)
          PROVE  tstatus'[t] = "gone" <=> tstatus[t] = "gone"
        BY <2>3 DEF Claim, Pending
    <2>4. ASSUME NEW w \in Workers, Record(w)
          PROVE  tstatus'[t] = "gone" <=> tstatus[t] = "gone"
        <3>1. StatusOf(job[w].result) # "gone"
            BY <2>4 DEF Record, StatusOf, Results, OwnerInv, TypeInv, JobInv
        <3>. QED  BY <2>4, <3>1 DEF Record, OwnerInv, TypeInv, TypeOK
    <2>5. ASSUME NEW w \in Workers, Run(w)
          PROVE  UNCHANGED tstatus \/ Claim(w) \/ Record(w) \/ \E S : GiveBack(S)
        BY <2>5 DEF Run, Deliver, CheckLease, TakeLease, Release, Load,
               PickAccounts, AllCooling, NoAccounts, NextAccount, ClientFails, ClientReady,
               LinkFails, ConnectFails, Connected, EndBatch, Invite, Count, Cool, Finish,
               Complete, Unwind, Requeue, PutBatchBack
    <2>6. ASSUME NEW w \in Workers, Disturb(w) PROVE UNCHANGED tstatus
        BY <2>6 DEF Disturb, QuietHours, SoftTimeout, Swallow, HardKill, Crash
    <2>7. ASSUME (\E i \in Ids : Redeliver(i)) \/ Clock \/ User \/ UNCHANGED vars
          PROVE  UNCHANGED tstatus \/ \E S : GiveBack(S)
        BY <2>7 DEF Redeliver, Clock, User, LeaseExpires, CleanupOrphans, CheckCooldowns,
               TaskAges, HourPasses, CooldownEnds, Promote, Activate, SetAccount,
               Start, Pause, Resume
    <2>. QED  BY <2>1, <2>2, <2>3, <2>4, <2>5, <2>6, <2>7 DEF Next
<1>. QED  BY <1>1, <1>2

LEMMA KeptStep ==
    ASSUME OwnerInv, Calm, Kept, [Next]_vars
    PROVE  Kept'
<1>1. CASE Delete
    <2>1. campaign' = "deleted" /\ completed' = 0 /\ failed' = 0 /\ UNCHANGED <<pc, job>>
        BY <1>1 DEF Delete
    <2>2. ASSUME NEW w \in Workers, pc[w] = "count" PROVE tstatus'[job[w].task] = "gone"
        BY <1>1, <2>2 DEF Delete, OwnerInv, TypeInv, JobInv
    <2>. QED  BY <2>1, <2>2 DEF Kept
<1>2. CASE ~Delete
    <2>1. campaign' = "deleted" => completed' = 0 /\ failed' = 0
        <3>1. ASSUME NEW w \in Workers, Count(w), campaign = "deleted"
              PROVE  completed' = 0 /\ failed' = 0
            BY <3>1 DEF Count, Kept
        <3>. QED  BY <1>2, <3>1, CountersKept, GoneByDelete DEF Kept
    <2>2. \A t \in Tasks : tstatus'[t] = "gone" => campaign' = "deleted"
        BY <1>2, GoneByDelete DEF Kept
    <2>3. ASSUME NEW w \in Workers, pc'[w] = "count"
          PROVE  /\ job'[w].result \in {"success", "failed", "banned"}
                 /\ tstatus'[job'[w].task] \in {"gone", StatusOf(job'[w].result)}
        <3>1. job'[w] = job[w] /\ (Record(w) \/ (pc[w] = "count" /\ ~Count(w)))
            BY <2>3, ToCount
        <3>2. CASE Record(w)
            <4>1. job[w].task \in Tasks /\ job[w].result \in Results
                BY <3>2 DEF Record, OwnerInv, TypeInv, JobInv
            <4>2. job[w].result \notin {"flood", "skipped"}
                BY <2>3, <3>2 DEF Record, OwnerInv, TypeInv, TypeOK
            <4>. QED
                BY <3>1, <3>2, <4>1, <4>2 DEF Record, Results, OwnerInv, TypeInv, TypeOK
        <3>3. CASE pc[w] = "count" /\ ~Count(w)
            <4>1. /\ job[w].task \in Tasks
                  /\ job[w].result \in {"success", "failed", "banned"}
                  /\ tstatus[job[w].task] \in {"gone", StatusOf(job[w].result)}
                BY <3>3 DEF Kept, OwnerInv, TypeInv, JobInv
            <4>2. StatusOf(job[w].result) \in Settled
                BY <4>1 DEF StatusOf, Settled
            <4>3. tstatus'[job[w].task] \in {tstatus[job[w].task], "gone"}
                BY <1>2, <4>1, <4>2, SettledStep, GoneByDelete
            <4>. QED  BY <3>1, <4>1, <4>3
        <3>. QED  BY <3>1, <3>2, <3>3
    <2>. QED  BY <2>1, <2>2, <2>3 DEF Kept
<1>. QED  BY <1>1, <1>2

\* A count takes its task from the due to the counted.
LEMMA CountAdds ==
    ASSUME OwnerInv, Calm, Kept, NEW w \in Workers, Count(w), campaign # "deleted",
           NEW s \in Counted, s = StatusOf(job[w].result)
    PROVE  /\ job[w].task \in (Rows(s) \ Due(s))'
           /\ job[w].task \notin Rows(s) \ Due(s)
<1> DEFINE t == job[w].task
<1>1. t \in Tasks /\ t \in hold[w] /\ pc[w] = "count"
    BY DEF Count, OwnerInv, TypeInv, JobInv
<1>2. t \in Due(s)
    BY <1>1 DEF Due
<1>3. tstatus'[t] = s
    BY <1>1 DEF Count, Kept
<1>4. ASSUME NEW v \in Workers, pc'[v] = "count", job'[v].task = t PROVE FALSE
    <2>1. v # w
        BY <1>4 DEF Count, OwnerInv, TypeInv, TypeOK
    <2>2. pc[v] = "count" /\ job[v].task = t
        BY <1>4, <2>1 DEF Count, OwnerInv, TypeInv, TypeOK
    <2>3. t \in hold[v]
        BY <2>2 DEF OwnerInv, TypeInv, JobInv
    <2>. QED  BY <1>1, <2>1, <2>3 DEF OwnerInv, ClaimsDisjoint
<1>. QED  BY <1>1, <1>2, <1>3, <1>4 DEF Rows, Due

LEMMA LagsStep ==
    ASSUME OwnerInv, OwnerInv', Calm, Kept, Lags, [Next]_vars
    PROVE  Lags'
<1>. SUFFICES ASSUME NEW s \in Counted PROVE Counter(s)' <= Cardinality(Rows(s) \ Due(s))'
    BY DEF Lags
<1>0. PICK A, B : A = Rows(s) \ Due(s) /\ B = (Rows(s) \ Due(s))'
    OBVIOUS
<1>1. /\ IsFiniteSet(A) /\ IsFiniteSet(B)
      /\ Cardinality(A) \in Nat /\ Cardinality(B) \in Nat
    <2>1. A \subseteq Tasks /\ B \subseteq Tasks
        BY <1>0 DEF Rows
    <2>. QED  BY <2>1, FS_Subset, FS_CardinalityType
<1>2. Counter(s) \in Nat /\ Counter(s)' \in Nat /\ Counter(s) <= Cardinality(A)
    BY <1>0 DEF Counter, Lags, OwnerInv, TypeInv, TypeOK
<1>3. CASE Delete
    BY <1>0, <1>1, <1>3 DEF Delete, Counter
<1>4. CASE ~Delete
    <2>1. A \subseteq B
        <3>1. ASSUME NEW t \in A PROVE t \in B
            <4>1. t \in Tasks /\ tstatus[t] # "gone"
                BY <1>0, <3>1 DEF Rows, Counted
            <4>. QED  BY <1>0, <1>4, <4>1, GoneByDelete, CountedStays
        <3>. QED  BY <3>1
    <2>2. Cardinality(A) <= Cardinality(B)
        BY <1>1, <2>1, FS_Subset
    <2>3. CASE Counter(s)' = Counter(s)
        BY <1>0, <1>1, <1>2, <2>2, <2>3
    <2>4. CASE Counter(s)' # Counter(s)
        <3>1. PICK w \in Workers : Count(w)
            BY <1>4, <2>4, CountersKept DEF Counter
        <3>2. campaign # "deleted" /\ s = StatusOf(job[w].result) /\ Counter(s)' = Counter(s) + 1
            <4>1. job[w].result \in {"success", "failed", "banned"}
                BY <3>1 DEF Count, Kept
            <4>2. completed \in Nat /\ failed \in Nat
                BY DEF OwnerInv, TypeInv, TypeOK
            <4>. QED  BY <2>4, <3>1, <4>1, <4>2 DEF Count, Counter, Counted, StatusOf
        <3>3. PICK t : t = job[w].task
            OBVIOUS
        <3>4. t \in B /\ t \notin A
            BY <1>0, <3>1, <3>2, <3>3, CountAdds
        <3>5. Cardinality(A \cup {t}) = Cardinality(A) + 1 /\ IsFiniteSet(A \cup {t})
            BY <1>1, <3>4, FS_AddElement
        <3>6. Cardinality(A \cup {t}) <= Cardinality(B)
            BY <1>1, <2>1, <3>4, FS_Subset
        <3>. QED  BY <1>0, <1>1, <1>2, <3>2, <3>5, <3>6
    <2>. QED  BY <2>3, <2>4
<1>. QED  BY <1>3, <1>4

LEMMA CountInvariant ==
    ASSUME Guarded, Budget["swallow"] = 0
    PROVE  Spec => [](OwnerInv /\ CountInv)
<1>1. Init => Calm
    BY DEF Init, Calm
<1>2. Init => CountInv
    <2>. SUFFICES ASSUME Init PROVE CountInv
        OBVIOUS
    <2>1. Kept
        BY DEF Init, Kept
    <2>2. \A s \in Counted : Counter(s) = 0 /\ Rows(s) \ Due(s) = {}
        BY DEF Init, Counted, Counter, Rows
    <2>3. \A s \in Counted : Counter(s) <= Cardinality(Rows(s) \ Due(s))
        BY <2>2, FS_EmptySet
    <2>. QED  BY <2>1, <2>3 DEF CountInv, Lags
<1>3. OwnerInv /\ OwnerInv' /\ Calm /\ [Next]_vars => Calm'
    BY CalmStep
<1>4. OwnerInv /\ OwnerInv' /\ Calm /\ CountInv /\ [Next]_vars => CountInv'
    BY KeptStep, LagsStep DEF CountInv
<1>. QED  BY <1>1, <1>2, <1>3, <1>4, OwnerInvariant, PTL DEF Spec

\* With the time limits in force and no soft limit swallowed, the counters
\* never run ahead of the rows they count, whatever dies between the two.
THEOREM CountersFollowRows ==
    ASSUME Guarded, Budget["swallow"] = 0 PROVE Spec => []CountersLag
<1>1. ASSUME OwnerInv, CountInv PROVE CountersLag
    <2>1. ASSUME NEW s \in Counted PROVE Counter(s) <= Cardinality(Rows(s))
        <3>1. IsFiniteSet(Rows(s)) /\ Rows(s) \ Due(s) \in SUBSET Rows(s)
            BY FS_Subset DEF Rows
        <3>2. /\ IsFiniteSet(Rows(s) \ Due(s))
              /\ Cardinality(Rows(s) \ Due(s)) <= Cardinality(Rows(s))
            BY <3>1, FS_Subset
        <3>3. Counter(s) \in Nat /\ Counter(s) <= Cardinality(Rows(s) \ Due(s))
            BY <1>1, <2>1 DEF Counter, CountInv, Lags, OwnerInv, TypeInv, TypeOK
        <3>. QED  BY <3>1, <3>2, <3>3, FS_CardinalityType
    <2>. QED  BY <2>1 DEF Counted, Counter, Rows, CountersLag
<1>. QED  BY <1>1, CountInvariant, PTL

-----------------------------------------------------------------------------
(* Every success that is counted has been carried out by Telegram, also    *)
(* when the row it was recorded in is rewritten by a retry.                *)

\* What is counted is what the row says.
Faithful ==
    \A w \in Workers : pc[w] = "count" => tstatus[job[w].task] \in {"gone", StatusOf(job[w].result)}

\* A success that is reported is one.
Performed ==
    \A w \in Workers : pc[w] \in {"record", "count"} /\ job[w].result = "success" =>
        job[w].task \in member

Emptied ==
    /\ campaign = "deleted" => completed = 0
    /\ \A t \in Tasks : tstatus[t] = "gone" => campaign = "deleted"

\* The users that are in the chat and whose tasks are settled, but for those
\* whose success has still to be counted.
DueSuccess(t) == \E w \in Workers : pc[w] = "count" /\ job[w] = [task |-> t, result |-> "success"]
Sure == {t \in Tasks : t \in member /\ tstatus[t] \in Settled /\ ~DueSuccess(t)}

RealInv == Faithful /\ Performed /\ Emptied /\ completed <= Cardinality(Sure)

\* The row of an outcome under way is the run's own until it is counted.
LEMMA FaithfulStep ==
    ASSUME OwnerInv, Faithful, [Next]_vars
    PROVE  Faithful'
<1>. SUFFICES ASSUME NEW w \in Workers, pc'[w] = "count"
              PROVE  tstatus'[job'[w].task] \in {"gone", StatusOf(job'[w].result)}
    BY DEF Faithful
<1>1. job'[w] = job[w] /\ (Record(w) \/ (pc[w] = "count" /\ ~Count(w)))
    BY ToCount
<1>2. CASE Record(w)
    BY <1>1, <1>2 DEF Record, OwnerInv, TypeInv, TypeOK, JobInv
<1>3. CASE pc[w] = "count" /\ ~Count(w)
    <2>1. job[w].task \in Tasks /\ job[w].task \in hold[w] /\ job[w].result \in Results
        BY <1>3 DEF OwnerInv, TypeInv, JobInv
    <2>2. /\ tstatus[job[w].task] \in {"gone", StatusOf(job[w].result)}
          /\ tstatus[job[w].task] \in Settled \cup {"gone"}
        <3>1. tstatus[job[w].task] \in {"gone", StatusOf(job[w].result)}
            BY <1>3 DEF Faithful
        <3>2. tstatus[job[w].task] # "in_progress"
            BY <2>1, <3>1 DEF StatusOf, Results
        <3>. QED
            BY <2>1, <3>1, <3>2 DEF OwnerInv, Owned, OwnedBy, Written
    <2>3. ASSUME NEW v \in Workers, Record(v) PROVE job[w].task # job[v].task
        <3>1. v # w /\ job[v].task \in hold[v]
            BY <1>3, <2>3 DEF Record, OwnerInv, TypeInv, JobInv
        <3>. QED  BY <2>1, <3>1 DEF OwnerInv, ClaimsDisjoint
    <2>4. tstatus'[job[w].task] \in {tstatus[job[w].task], "gone"}
        <3>1. CASE tstatus[job[w].task] = "gone"
            <4>1. CASE Delete
                BY <2>1, <4>1 DEF Delete
            <4>2. CASE ~Delete
                BY <2>1, <3>1, <4>2, GoneByDelete
            <4>. QED  BY <4>1, <4>2
        <3>2. CASE tstatus[job[w].task] # "gone"
            BY <2>1, <2>2, <2>3, <3>2, SettledRewritten
        <3>. QED  BY <3>1, <3>2
    <2>. QED  BY <1>1, <2>2, <2>4
<1>. QED  BY <1>1, <1>2, <1>3

\* Nobody leaves the chat.
LEMMA MembersStay ==
    ASSUME [Next]_vars PROVE member \subseteq member'
<1>1. ASSUME NEW w \in Workers, Run(w), ~Invite(w) PROVE UNCHANGED member
    BY <1>1 DEF Run, Deliver, CheckLease, TakeLease, Release, Load,
           PickAccounts, AllCooling, NoAccounts, NextAccount, Claim, ClientFails,
           ClientReady, LinkFails, ConnectFails, Connected, EndBatch, Record,
           Count, Cool, Finish, Complete, Unwind, Requeue, PutBatchBack
<1>2. ASSUME NEW w \in Workers, Invite(w) PROVE member \subseteq member'
    BY <1>2 DEF Invite, Answers
<1>3. ASSUME NEW w \in Workers, Disturb(w) PROVE member \subseteq member'
    BY <1>3 DEF Disturb, QuietHours, SoftTimeout, Swallow, HardKill, Crash
<1>4. ASSUME (\E i \in Ids : Redeliver(i)) \/ Clock \/ User \/ UNCHANGED vars
      PROVE  UNCHANGED member
    BY <1>4 DEF Redeliver, Clock, User, LeaseExpires, CleanupOrphans, CheckCooldowns,
           TaskAges, HourPasses, CooldownEnds, Promote, Activate, SetAccount,
           Start, Pause, Resume, Delete
<1>. QED  BY <1>1, <1>2, <1>3, <1>4 DEF Next

LEMMA PerformedStep ==
    ASSUME OwnerInv, Performed, [Next]_vars
    PROVE  Performed'
<1>. SUFFICES ASSUME NEW w \in Workers, pc'[w] \in {"record", "count"},
                     job'[w].result = "success"
              PROVE  job'[w].task \in member'
    BY DEF Performed
<1>1. CASE Invite(w)
    <2>1. PICK t \in hold[w], r \in Results :
              Answers(t, r) /\ job' = [job EXCEPT ![w] = [task |-> t, result |-> r]]
        BY <1>1 DEF Invite
    <2>2. job'[w] = [task |-> t, result |-> r]
        BY <2>1 DEF OwnerInv, TypeInv, TypeOK
    <2>. QED  BY <2>1, <2>2 DEF Answers
<1>2. CASE ~Invite(w)
    <2>1. job'[w] = job[w] /\ pc[w] \in {"record", "count"}
        BY <1>2, ToRecord, ToCount DEF Record, RetryOutcomes
    <2>. QED  BY <2>1, MembersStay DEF Performed
<1>. QED  BY <1>1, <1>2

\* Only these steps write the counter of successes.
LEMMA CompletedKept ==
    ASSUME [Next]_vars, ~Delete, \A w \in Workers : ~Count(w) /\ ~Swallow(w)
    PROVE  UNCHANGED completed
<1>1. ASSUME NEW w \in Workers, Run(w) PROVE UNCHANGED completed
    BY <1>1 DEF Run, Deliver, CheckLease, TakeLease, Release, Load,
           PickAccounts, AllCooling, NoAccounts, NextAccount, Claim, ClientFails,
           ClientReady, LinkFails, ConnectFails, Connected, EndBatch, Invite, Record,
           Cool, Finish, Complete, Unwind, Requeue, PutBatchBack
<1>2. ASSUME NEW w \in Workers, Disturb(w) PROVE UNCHANGED completed
    BY <1>2 DEF Disturb, QuietHours, SoftTimeout, HardKill, Crash
<1>3. ASSUME (\E i \in Ids : Redeliver(i)) \/ Clock \/ User \/ UNCHANGED vars
      PROVE  UNCHANGED completed
    BY <1>3 DEF Redeliver, Clock, User, LeaseExpires, CleanupOrphans, CheckCooldowns,
           TaskAges, HourPasses, CooldownEnds, Promote, Activate, SetAccount,
           Start, Pause, Resume
<1>. QED  BY <1>1, <1>2, <1>3 DEF Next

LEMMA EmptiedStep ==
    ASSUME OwnerInv, Emptied, [Next]_vars
    PROVE  Emptied'
<1>1. CASE Delete
    BY <1>1 DEF Delete, Emptied
<1>2. CASE ~Delete
    <2>1. ASSUME campaign = "deleted" PROVE UNCHANGED completed
        <3>1. ASSUME NEW w \in Workers, Count(w) \/ Swallow(w) PROVE UNCHANGED completed
            BY <2>1, <3>1 DEF Count, Swallow, Emptied
        <3>. QED  BY <1>2, <3>1, CompletedKept
    <2>. QED  BY <1>2, <2>1, GoneByDelete DEF Emptied
<1>. QED  BY <1>1, <1>2

\* What is sure stays sure: the retry of an interrupted success settles its task
\* again, and no success is recorded twice.
LEMMA SureStays ==
    ASSUME OwnerInv, ~Delete, [Next]_vars, NEW t \in Sure
    PROVE  t \in Sure'
<1>1. t \in Tasks /\ t \in member /\ tstatus[t] \in Settled
    BY DEF Sure
<1>2. ASSUME NEW w \in Workers, Record(w), t = job[w].task
      PROVE  job[w].result \in RetryOutcomes
    BY <1>1, <1>2 DEF Record, OwnerInv, Owned, OwnedBy, Written, TypeInv, JobInv, Settled
<1>3. tstatus'[t] \in Settled
    <2>1. CASE \E w \in Workers : Record(w) /\ t = job[w].task
        BY <1>1, <1>2, <2>1
        DEF Record, RetryOutcomes, StatusOf, Settled, OwnerInv, TypeInv, TypeOK
    <2>2. CASE \A w \in Workers : Record(w) => t # job[w].task
        BY <1>1, <2>2, SettledRewritten, GoneByDelete DEF Settled
    <2>. QED  BY <2>1, <2>2
<1>4. ~DueSuccess(t)'
    <2>. SUFFICES ASSUME NEW w \in Workers, pc'[w] = "count",
                         job'[w] = [task |-> t, result |-> "success"]
                  PROVE  FALSE
        BY DEF DueSuccess
    <2>1. job[w] = job'[w] /\ (Record(w) \/ pc[w] = "count")
        BY ToCount
    <2>2. job[w].task = t /\ job[w].result = "success"
        BY <2>1
    <2>3. CASE Record(w)
        BY <1>2, <2>2, <2>3 DEF RetryOutcomes
    <2>4. CASE pc[w] = "count"
        BY <2>1, <2>4 DEF Sure, DueSuccess
    <2>. QED  BY <2>1, <2>3, <2>4
<1>. QED  BY <1>1, <1>3, <1>4, MembersStay DEF Sure

\* A count adds a task that was due to those that are sure.
LEMMA SureGrows ==
    ASSUME OwnerInv, OwnerInv', Faithful, Performed, Emptied, [Next]_vars,
           NEW w \in Workers, Count(w) \/ Swallow(w), completed' # completed
    PROVE  /\ job[w].task \in Sure' /\ job[w].task \notin Sure
           /\ completed' = completed + 1
<1>0. PICK t : t = job[w].task
    OBVIOUS
<1>1. /\ pc[w] = "count" /\ job[w].result = "success" /\ campaign # "deleted"
      /\ completed' = completed + 1 /\ UNCHANGED <<tstatus, member>>
      /\ \A v \in Workers : v # w => pc'[v] = pc[v] /\ job'[v] = job[v]
      /\ pc'[w] # "count"
    BY DEF Count, Swallow, OwnerInv, TypeInv, TypeOK
<1>2. t \in Tasks /\ t \in hold[w] /\ job[w] = [task |-> t, result |-> "success"]
    BY <1>0, <1>1 DEF OwnerInv, TypeInv, JobInv
<1>3. t \in member /\ tstatus[t] = "success"
    BY <1>0, <1>1, <1>2 DEF Performed, Faithful, Emptied, StatusOf
<1>4. DueSuccess(t)
    BY <1>1, <1>2 DEF DueSuccess
<1>5. ASSUME NEW v \in Workers, pc'[v] = "count", job'[v] = [task |-> t, result |-> "success"]
      PROVE  FALSE
    <2>1. v # w /\ pc[v] = "count" /\ job[v].task = t
        BY <1>1, <1>5
    <2>2. t \in hold[v]
        BY <2>1 DEF OwnerInv, TypeInv, JobInv
    <2>. QED  BY <1>2, <2>1, <2>2 DEF OwnerInv, ClaimsDisjoint
<1>6. ~DueSuccess(t)'
    BY <1>5 DEF DueSuccess
<1>. QED  BY <1>0, <1>1, <1>2, <1>3, <1>4, <1>6 DEF Sure, Settled

LEMMA RealStep ==
    ASSUME OwnerInv, OwnerInv', RealInv, [Next]_vars
    PROVE  RealInv'
<1>1. Faithful' /\ Performed' /\ Emptied'
    BY FaithfulStep, PerformedStep, EmptiedStep DEF RealInv
<1>2. PICK A, B : A = Sure /\ B = Sure'
    OBVIOUS
<1>3. /\ IsFiniteSet(A) /\ IsFiniteSet(B) /\ Cardinality(A) \in Nat /\ Cardinality(B) \in Nat
      /\ completed \in Nat /\ completed' \in Nat /\ completed <= Cardinality(A)
    <2>1. A \subseteq Tasks /\ B \subseteq Tasks
        BY <1>2 DEF Sure
    <2>2. completed \in Nat /\ completed' \in Nat /\ completed <= Cardinality(A)
        BY <1>2 DEF RealInv, OwnerInv, TypeInv, TypeOK
    <2>. QED  BY <2>1, <2>2, FS_Subset, FS_CardinalityType
<1>4. completed' <= Cardinality(B)
    <2>1. CASE Delete
        BY <1>3, <2>1 DEF Delete
    <2>2. CASE ~Delete
        <3>1. A \subseteq B /\ Cardinality(A) <= Cardinality(B)
            <4>1. A \subseteq B
                BY <1>2, <2>2, SureStays
            <4>. QED  BY <1>3, <4>1, FS_Subset
        <3>2. CASE completed' = completed
            BY <1>3, <3>1, <3>2
        <3>3. CASE completed' # completed
            <4>1. PICK w \in Workers : Count(w) \/ Swallow(w)
                BY <2>2, <3>3, CompletedKept
            <4>2. PICK t : t = job[w].task
                OBVIOUS
            <4>3. t \in B /\ t \notin A /\ completed' = completed + 1
                BY <1>2, <3>3, <4>1, <4>2, SureGrows DEF RealInv
            <4>4. Cardinality(A \cup {t}) = Cardinality(A) + 1 /\ IsFiniteSet(A \cup {t})
                BY <1>3, <4>3, FS_AddElement
            <4>5. Cardinality(A \cup {t}) <= Cardinality(B)
                BY <1>3, <3>1, <4>3, FS_Subset
            <4>. QED  BY <1>3, <4>3, <4>4, <4>5
        <3>. QED  BY <3>2, <3>3
    <2>. QED  BY <2>1, <2>2
<1>. QED  BY <1>1, <1>2, <1>4 DEF RealInv

\* invites_completed never claims an invitation that Telegram has not carried out,
\* also when a limit is swallowed between the commit of a row and its count.
THEOREM CountIsReal ==
    ASSUME Guarded PROVE Spec => []CompletedIsReal
<1>1. Init => RealInv
    <2>. SUFFICES ASSUME Init PROVE RealInv
        OBVIOUS
    <2>1. Sure = {} /\ completed = 0
        BY DEF Init, Sure
    <2>2. Faithful /\ Performed /\ Emptied
        BY DEF Init, Faithful, Performed, Emptied
    <2>. QED  BY <2>1, <2>2, FS_EmptySet DEF RealInv
<1>2. OwnerInv /\ OwnerInv' /\ RealInv /\ [Next]_vars => RealInv'
    BY RealStep
<1>3. ASSUME OwnerInv, RealInv PROVE CompletedIsReal
    <2>1. Sure \subseteq member /\ IsFiniteSet(member)
        BY <1>3, FS_Subset DEF Sure, OwnerInv, TypeInv, TypeOK
    <2>2. Cardinality(Sure) <= Cardinality(member) /\ IsFiniteSet(Sure)
        BY <2>1, FS_Subset
    <2>3. completed \in Nat /\ completed <= Cardinality(Sure)
        BY <1>3 DEF RealInv, OwnerInv, TypeInv, TypeOK
    <2>. QED  BY <2>1, <2>2, <2>3, FS_CardinalityType DEF CompletedIsReal
<1>. QED  BY <1>1, <1>2, <1>3, OwnerInvariant, PTL DEF Spec
-----------------------------------------------------------------------------
(* The chain of dispatches.  A run of an active campaign sends the next    *)
(* message before it lets go, so what keeps the campaign awake is either   *)
(* in the broker or in a run that has not come to its end.  A run turned   *)
(* away by another's lease relies on the holder of that lease, or on the   *)
(* late message for which the holder made way.                             *)

\* The faults that may break a chain: a message that cannot be sent, a hard kill
\* after a swallowed soft limit, and a resume that meets the lease of the run
\* the pause has ended.
ChainFaults == {"enqueue", "swallow", "resume"}
Excused == \E f \in ChainFaults : budget[f] < Budget[f]

BudgetInv == \A f \in Faults : budget[f] <= Budget[f]

\* Nothing happens before the campaign is started.
Fresh ==
    campaign = "draft" =>
        /\ \A w \in Workers : pc[w] = "idle"
        /\ \A i \in Ids : queue[i] = 0
        /\ ~leaseFresh /\ late = {}

\* Each run has its message, and the messages behind a lease are in the broker.
Messages ==
    /\ \A w \in Workers : /\ ~doomed[w]
                          /\ pc[w] = "idle" => mid[w] = None
                          /\ pc[w] # "idle" => mid[w] \in Ids
    /\ \A i \in late : queue[i] > 0
    /\ leaseFresh => lease \in Ids

\* Every run that is about to end has sent the next message.
Passed ==
    \A w \in Workers : pc[w] = "release" => \E i \in Ids : sent[w] = i /\ queue[i] > 0

\* Somebody stands behind a lease in force.
Backed ==
    leaseFresh => \/ \E w \in Workers : mid[w] = lease
                  \/ \E i \in Ids : i = lease /\ queue[i] > 0
                  \/ late # {}

Chain == Messages /\ Fresh /\ (campaign = "active" => Passed /\ Backed /\ Awake)

ChainInv == BudgetInv /\ (Excused \/ Chain)

\* No step gives a fault back.
LEMMA BudgetStep ==
    ASSUME TypeInv, BudgetInv, [Next]_vars
    PROVE  BudgetInv' /\ (Excused => Excused')
<1>1. ASSUME NEW f \in Faults, Spend(f)
      PROVE  budget' \in [Faults -> Nat] /\ \A g \in Faults : budget'[g] <= budget[g]
    BY <1>1 DEF Spend, TypeInv, TypeOK
<1>2. budget' \in [Faults -> Nat] /\ \A g \in Faults : budget'[g] <= budget[g]
    <2>1. ASSUME NEW w \in Workers, Run(w)
          PROVE  budget' = budget \/ \E f \in Faults : Spend(f)
        BY <2>1 DEF Run, Deliver, CheckLease, TakeLease, Release, Load, PickAccounts,
               AllCooling, NoAccounts, NextAccount, Claim, ClientFails, ClientReady,
               LinkFails, ConnectFails, Connected, EndBatch, Invite, Record, Count, Cool,
               Finish, Complete, Unwind, Requeue, PutBatchBack, Reschedule, Answers, Faults
    <2>2. ASSUME NEW w \in Workers, Disturb(w)
          PROVE  budget' = budget \/ \E f \in Faults : Spend(f)
        BY <2>2 DEF Disturb, QuietHours, SoftTimeout, Swallow, HardKill, Crash, Faults
    <2>3. ASSUME (\E i \in Ids : Redeliver(i)) \/ Clock \/ User \/ UNCHANGED vars, ~Resume
          PROVE  budget' = budget \/ \E f \in Faults : Spend(f)
        BY <2>3 DEF Redeliver, Clock, User, LeaseExpires, CleanupOrphans, CheckCooldowns,
               TaskAges, HourPasses, CooldownEnds, Promote, Activate, SetAccount,
               Start, Pause, Delete, Faults
    <2>4. CASE Resume
        BY <1>1, <2>4 DEF Resume, Faults, TypeInv, TypeOK
    <2>5. CASE budget' = budget \/ \E f \in Faults : Spend(f)
        BY <1>1, <2>5 DEF TypeInv, TypeOK
    <2>. QED  BY <2>1, <2>2, <2>3, <2>4, <2>5 DEF Next
<1>3. \A g \in Faults : budget'[g] \in Nat /\ budget[g] \in Nat /\ Budget[g] \in Nat
    BY <1>2 DEF TypeInv, TypeOK
<1>4. ChainFaults \subseteq Faults
    BY DEF ChainFaults, Faults
<1>. QED  BY <1>2, <1>3, <1>4 DEF BudgetInv, Excused

\* A step that spends one of these faults excuses what follows.
LEMMA SpendExcuses ==
    ASSUME TypeInv, BudgetInv, NEW f \in ChainFaults, Spend(f) PROVE Excused'
<1>1. f \in Faults
    BY DEF ChainFaults, Faults
<1>. QED  BY <1>1 DEF Spend, Excused, BudgetInv, TypeInv, TypeOK

\* A step of a run that goes on, or of nobody.
LEMMA ChainGoesOn ==
    ASSUME TypeInv, Chain, campaign' \notin {"draft", "active"} \/ campaign' = campaign,
           UNCHANGED <<lease, leaseFresh, queue, late, mid, sent, doomed>>,
           \/ pc' = pc
           \/ \E w \in Workers, p \in Phases \ {"idle", "release"} :
                  pc[w] # "idle" /\ pc' = [pc EXCEPT ![w] = p]
    PROVE  Chain'
<1>. USE DEF TypeInv, TypeOK, Chain
<1>1. Messages'
    BY DEF Messages
<1>2. Fresh'
    BY DEF Fresh
<1>3. ASSUME campaign' = "active" PROVE Passed' /\ Backed' /\ Awake'
    BY <1>3 DEF Passed, Backed, Awake
<1>. QED  BY <1>1, <1>2, <1>3

\* A message is sent: nothing that was there is lost.
LEMMA SendKeeps ==
    ASSUME TypeInv, NEW i \in Ids, Send(i)
    PROVE  /\ queue' \in [Ids -> Nat] /\ queue'[i] > 0
           /\ \A j \in Ids : queue[j] > 0 => queue'[j] > 0
BY DEF Send, TypeInv, TypeOK

\* The broker loses nothing over a step in which no message is delivered.
LEMMA EndRunChain ==
    ASSUME TypeInv, Messages, NEW w \in Workers, pc[w] # "idle", EndRun(w),
           queue' \in [Ids -> Nat], \A j \in Ids : queue[j] > 0 => queue'[j] > 0,
           \A j \in late' : j \in Ids /\ queue'[j] > 0, leaseFresh' => lease' \in Ids
    PROVE  Messages'
BY DEF EndRun, Messages, TypeInv, TypeOK

\* A run ends that has no message of its own to send: it was turned away by
\* another's lease, it has dropped its own, or its message is back or replaced.
LEMMA EndsChained ==
    ASSUME TypeInv, Chain, NEW w \in Workers, pc[w] # "idle", EndRun(w), campaign' = campaign,
           queue' \in [Ids -> Nat], \A j \in Ids : queue[j] > 0 => queue'[j] > 0,
           \A j \in late' : j \in Ids /\ queue'[j] > 0,
           leaseFresh' => lease' \in Ids,
           campaign = "active" => Backed' /\ Awake'
    PROVE  Chain'
<1>1. Messages'
    BY EndRunChain DEF Chain
<1>2. Fresh'
    BY DEF Chain, Fresh
<1>3. ASSUME campaign' = "active" PROVE Passed'
    <2>1. \A v \in Workers : pc'[v] = "release" => pc[v] = "release" /\ sent'[v] = sent[v]
        BY DEF EndRun, TypeInv, TypeOK
    <2>. QED  BY <1>3, <2>1 DEF Chain, Passed
<1>. QED  BY <1>1, <1>2, <1>3 DEF Chain

\* A lease that is not the run's own stands as it stood.
LEMMA BackedAside ==
    ASSUME TypeInv, Backed, NEW w \in Workers, EndRun(w),
           \A j \in Ids : queue[j] > 0 => queue'[j] > 0,
           leaseFresh' => leaseFresh /\ lease' = lease /\ late \subseteq late',
           leaseFresh' => lease # mid[w] \/ \E i \in Ids : i = lease /\ queue'[i] > 0
    PROVE  Backed'
<1>. SUFFICES ASSUME leaseFresh' PROVE Backed'
    BY DEF Backed
<1>1. \A v \in Workers : v # w => mid'[v] = mid[v]
    BY DEF EndRun, TypeInv, TypeOK
<1>. QED  BY <1>1 DEF Backed

LEMMA ChainRun ==
    ASSUME TypeInv, BudgetInv, Chain, NEW w \in Workers, Run(w), ~Excused'
    PROVE  Chain'
<1>. USE DEF TypeInv, TypeOK
<1>0. ~Spend("enqueue") /\ ~Spend("swallow") /\ ~Spend("resume")
    BY SpendExcuses DEF ChainFaults
<1>1. CASE \/ Load(w) /\ campaign = "active"
           \/ NextAccount(w) /\ (campaign = "active" \/ todo[w] = {})
           \/ PickAccounts(w) \/ Claim(w)
           \/ ClientFails(w) \/ ClientReady(w) \/ LinkFails(w) \/ ConnectFails(w)
           \/ Connected(w) \/ EndBatch(w) \/ Invite(w) \/ Record(w) \/ Count(w) \/ Cool(w)
    BY <1>1, ChainGoesOn DEF Load, PickAccounts, NextAccount, Claim, ClientFails,
           ClientReady, LinkFails, ConnectFails, Connected, EndBatch, Invite, Record,
           Count, Cool, PutBatchBack, Abandon, Answers, Phases, Interruptible
<1>2. CASE (Load(w) \/ NextAccount(w)) /\ campaign # "active"
    BY <1>2 DEF Load, NextAccount, Chain, Messages, Fresh
<1>3. CASE Deliver(w)
    <2>1. PICK i \in Ids : /\ queue[i] > 0 /\ i \notin late /\ \A v \in Workers : sent[v] # i
                           /\ queue' = [queue EXCEPT ![i] = @ - 1]
                           /\ mid' = [mid EXCEPT ![w] = i]
        BY <1>3 DEF Deliver
    <2>2. /\ pc[w] = "idle" /\ pc' = [pc EXCEPT ![w] = "wake"]
          /\ UNCHANGED <<campaign, lease, leaseFresh, late, sent, doomed>>
        BY <1>3 DEF Deliver
    <2>3. campaign # "draft"
        BY <2>1 DEF Chain, Fresh
    <2>4. Messages'
        BY <2>1, <2>2 DEF Chain, Messages
    <2>5. ASSUME campaign = "active" PROVE Passed' /\ Awake'
        BY <2>1, <2>2, <2>5 DEF Chain, Passed, Awake
    <2>6. ASSUME campaign = "active" PROVE Backed'
        <3>1. \A v \in Workers : mid[v] # None => mid'[v] = mid[v]
            BY <2>1, <2>2 DEF Chain, Messages
        <3>2. leaseFresh => lease \in Ids
            BY DEF Chain, Messages
        <3>. QED  BY <2>1, <2>2, <2>6, <3>1, <3>2 DEF Chain, Backed
    <2>. QED  BY <2>2, <2>3, <2>4, <2>5, <2>6 DEF Chain, Fresh
<1>4. CASE CheckLease(w)
    <2>1. CASE EndRun(w) /\ LeaseHeldByOther(w)
        <3>1. pc[w] = "wake" /\ lease # mid[w] /\ leaseFresh
              /\ UNCHANGED <<campaign, lease, leaseFresh, queue, late>>
            BY <1>4, <2>1 DEF CheckLease, LeaseHeldByOther
        <3>2. ASSUME campaign = "active" PROVE Backed' /\ Awake'
            <4>1. Backed'
                BY <2>1, <3>1, <3>2, BackedAside DEF Chain
            <4>2. Awake'
                <5>1. CASE \E i \in Ids : queue[i] > 0
                    BY <3>1, <5>1 DEF Awake
                <5>2. CASE \E v \in Workers : mid[v] = lease
                    <6>1. PICK v \in Workers : mid[v] = lease
                        BY <5>2
                    <6>2. v # w /\ pc[v] # "idle" /\ pc'[v] = pc[v]
                        BY <2>1, <3>1, <6>1 DEF Chain, Messages, EndRun
                    <6>. QED  BY <3>1, <3>2, <6>2 DEF Chain, Passed, Awake
                <5>3. late # {} => \E i \in Ids : queue[i] > 0
                    BY DEF Chain, Messages
                <5>. QED  BY <3>1, <3>2, <5>1, <5>2, <5>3 DEF Chain, Backed
            <4>. QED  BY <4>1, <4>2
        <3>. QED  BY <2>1, <3>1, <3>2, EndsChained DEF Chain, Messages
    <2>2. CASE campaign = "deleted" /\ EndRun(w)
        BY <1>4, <2>2, EndsChained DEF CheckLease, Chain, Messages
    <2>3. CASE Goto(w, "lease") /\ UNCHANGED locals
        BY <1>4, <2>3, ChainGoesOn DEF CheckLease, Phases, Interruptible
    <2>. QED  BY <1>4, <2>1, <2>2, <2>3 DEF CheckLease
<1>5. CASE TakeLease(w)
    <2>1. CASE campaign = "deleted"
        BY <1>5, <2>1, EndsChained DEF TakeLease, Chain, Messages
    <2>2. CASE campaign # "deleted"
        <3>1. /\ pc[w] = "lease" /\ pc' = [pc EXCEPT ![w] = "load"]
              /\ lease' = mid[w] /\ leaseFresh' = TRUE /\ late' = {}
              /\ UNCHANGED <<campaign, queue, mid, sent, doomed>>
            BY <1>5, <2>2 DEF TakeLease
        <3>2. Messages' /\ Fresh'
            BY <3>1 DEF Chain, Messages, Fresh
        <3>. QED  BY <3>1, <3>2 DEF Chain, Passed, Backed, Awake
    <2>. QED  BY <2>1, <2>2
<1>6. CASE Release(w)
    <2>1. /\ pc[w] = "release" /\ DropLease(w) /\ EndRun(w)
          /\ UNCHANGED <<campaign, queue>>
        BY <1>6 DEF Release
    <2>2. ASSUME campaign = "active" PROVE Backed' /\ Awake'
        <3>1. Awake'
            BY <2>1, <2>2 DEF Chain, Passed, Awake
        <3>2. Backed'
            BY <2>1, <2>2, BackedAside DEF Chain, DropLease
        <3>. QED  BY <3>1, <3>2
    <2>. QED  BY <2>1, <2>2, EndsChained DEF DropLease, Chain, Messages
<1>7. CASE AllCooling(w) \/ (Finish(w) /\ campaign = "active" /\ Open # {})
    <2>1. PICK i \in Ids : Send(i) /\ sent' = [sent EXCEPT ![w] = i]
        BY <1>0, <1>7 DEF AllCooling, Finish, Reschedule
    <2>2. /\ pc[w] \in {"pick", "finish"} /\ pc' = [pc EXCEPT ![w] = "release"]
          /\ UNCHANGED <<campaign, lease, leaseFresh, late, mid, doomed>>
        BY <1>7 DEF AllCooling, Finish, Reschedule
    <2>3. queue'[i] > 0 /\ \A j \in Ids : queue[j] > 0 => queue'[j] > 0
        BY <2>1, SendKeeps
    <2>4. Messages' /\ Fresh'
        BY <2>1, <2>2, <2>3 DEF Chain, Messages, Fresh
    <2>5. ASSUME campaign = "active" PROVE Passed' /\ Backed' /\ Awake'
        BY <2>1, <2>2, <2>3, <2>5 DEF Chain, Passed, Backed, Awake
    <2>. QED  BY <2>2, <2>4, <2>5 DEF Chain
<1>8. CASE NoAccounts(w) \/ Complete(w)
    BY <1>8 DEF NoAccounts, Complete, Chain, Messages, Fresh
<1>9. CASE Finish(w) /\ ~(campaign = "active" /\ Open # {})
    BY <1>9, ChainGoesOn DEF Finish, Chain, Messages, Fresh, Phases, Interruptible
<1>10. CASE Unwind(w)
    <2>1. /\ pc[w] = "unwind" /\ pc' = [pc EXCEPT ![w] = "requeue"] /\ DropLease(w)
          /\ UNCHANGED <<campaign, queue, mid, sent, doomed>>
        BY <1>10 DEF Unwind
    <2>2. Messages' /\ Fresh'
        BY <2>1 DEF Chain, Messages, Fresh, DropLease
    <2>3. ASSUME campaign = "active" PROVE Passed' /\ Backed' /\ Awake'
        BY <2>1, <2>3 DEF Chain, Passed, Backed, Awake, DropLease
    <2>. QED  BY <2>1, <2>2, <2>3 DEF Chain
<1>11. CASE Requeue(w)
    <2>1. /\ pc[w] = "requeue" /\ DropLease(w) /\ EndRun(w) /\ campaign' = campaign
          /\ queue' = queue \/ \E i \in Ids : Send(i)
        BY <1>11 DEF Requeue
    <2>2. queue' \in [Ids -> Nat] /\ \A j \in Ids : queue[j] > 0 => queue'[j] > 0
        BY <2>1, SendKeeps
    <2>3. ASSUME campaign = "active" PROVE Backed' /\ Awake'
        <3>1. \E i \in Ids : queue'[i] > 0
            BY <1>0, <1>11, <2>3, SendKeeps DEF Requeue
        <3>2. Backed'
            BY <2>1, <2>2, <2>3, BackedAside DEF Chain, DropLease
        <3>. QED  BY <3>1, <3>2 DEF Awake
    <2>. QED  BY <2>1, <2>2, <2>3, EndsChained DEF DropLease, Chain, Messages
<1>. QED
    BY <1>1, <1>2, <1>3, <1>4, <1>5, <1>6, <1>7, <1>8, <1>9, <1>10, <1>11
    DEF Run, Finish, NextAccount

LEMMA ChainDisturb ==
    ASSUME TypeInv, BudgetInv, Chain, NEW w \in Workers, Disturb(w), ~Excused'
    PROVE  Chain'
<1>. USE DEF TypeInv, TypeOK
<1>0. ~Spend("enqueue") /\ ~Spend("swallow")
    BY SpendExcuses DEF ChainFaults
<1>1. CASE QuietHours(w)
    <2>1. PICK i \in Ids : Send(i) /\ late' = IF leaseFresh THEN late \cup {i} ELSE late
        BY <1>0, <1>1 DEF QuietHours
    <2>2. pc[w] = "wake" /\ EndRun(w) /\ UNCHANGED <<campaign, lease, leaseFresh>>
        BY <1>1 DEF QuietHours
    <2>3. /\ queue' \in [Ids -> Nat] /\ queue'[i] > 0
          /\ \A j \in Ids : queue[j] > 0 => queue'[j] > 0
        BY <2>1, SendKeeps
    <2>4. \A j \in late' : j \in Ids /\ queue'[j] > 0
        BY <2>1, <2>3 DEF Chain, Messages
    <2>5. Backed' /\ Awake'
        BY <2>1, <2>2, <2>3 DEF Backed, Awake
    <2>. QED  BY <2>2, <2>3, <2>4, <2>5, EndsChained DEF Chain, Messages
<1>2. CASE SoftTimeout(w)
    BY <1>2, ChainGoesOn DEF SoftTimeout, Phases, Interruptible
<1>3. CASE Swallow(w) \/ HardKill(w)
    BY <1>0, <1>3 DEF Swallow, HardKill, Chain, Messages
<1>4. CASE Crash(w)
    <2>1. /\ pc[w] # "idle" /\ mid[w] \in Ids /\ EndRun(w)
          /\ queue' = [queue EXCEPT ![mid[w]] = @ + 1]
          /\ UNCHANGED <<campaign, lease, leaseFresh, late>>
        BY <1>4 DEF Crash, Chain, Messages
    <2>2. /\ queue' \in [Ids -> Nat] /\ queue'[mid[w]] > 0
          /\ \A j \in Ids : queue[j] > 0 => queue'[j] > 0
        BY <2>1
    <2>3. ASSUME campaign = "active" PROVE Backed' /\ Awake'
        <3>1. Backed'
            BY <2>1, <2>2, <2>3, BackedAside DEF Chain
        <3>. QED  BY <2>1, <2>2, <3>1 DEF Awake
    <2>. QED  BY <2>1, <2>2, <2>3, EndsChained DEF Chain, Messages
<1>. QED  BY <1>1, <1>2, <1>3, <1>4 DEF Disturb

LEMMA ChainOther ==
    ASSUME TypeInv, BudgetInv, Chain, ~Excused',
           (\E i \in Ids : Redeliver(i)) \/ Clock \/ User \/ UNCHANGED vars
    PROVE  Chain'
<1>. USE DEF TypeInv, TypeOK
<1>0. ~Spend("enqueue") /\ ~Spend("resume")
    BY SpendExcuses DEF ChainFaults
<1>1. ASSUME NEW i \in Ids, Redeliver(i) PROVE Chain'
    <2>1. /\ queue' = [queue EXCEPT ![i] = @ + 1]
          /\ UNCHANGED <<campaign, lease, leaseFresh, late, pc, mid, sent, doomed>>
          /\ queue[i] > 0 \/ i \in InFlight
        BY <1>1 DEF Redeliver
    <2>2. \A j \in Ids : queue[j] > 0 => queue'[j] > 0
        BY <2>1
    <2>3. campaign # "draft"
        BY <2>1 DEF Chain, Fresh, Messages, InFlight
    <2>4. Messages' /\ Fresh'
        BY <2>1, <2>2, <2>3 DEF Chain, Messages, Fresh
    <2>5. ASSUME campaign = "active" PROVE Passed' /\ Backed' /\ Awake'
        BY <2>1, <2>2, <2>5 DEF Chain, Passed, Backed, Awake
    <2>. QED  BY <2>1, <2>4, <2>5 DEF Chain
<1>2. CASE LeaseExpires
    BY <1>2 DEF LeaseExpires, Chain, Messages, Fresh, Passed, Backed, Awake
<1>3. CASE CleanupOrphans \/ CheckCooldowns \/ UNCHANGED vars \/ Pause
           \/ (\E t \in Tasks : TaskAges(t) \/ HourPasses(t))
           \/ (\E a \in Accounts : CooldownEnds(a) \/ Promote(a) \/ Activate(a))
    BY <1>3, ChainGoesOn DEF CleanupOrphans, CheckCooldowns, TaskAges, HourPasses,
           CooldownEnds, Promote, Activate, SetAccount, Pause
<1>4. CASE Start
    <2>1. PICK i \in Ids : Send(i)
        BY <1>0, <1>4 DEF Start
    <2>2. queue'[i] > 0
        BY <2>1, SendKeeps
    <2>3. /\ campaign = "draft" /\ campaign' = "active"
          /\ UNCHANGED <<lease, leaseFresh, late, pc, mid, sent, doomed>>
        BY <1>4 DEF Start
    <2>4. ~leaseFresh /\ late = {} /\ \A w \in Workers : pc[w] = "idle"
        BY <2>3 DEF Chain, Fresh
    <2>. QED
        BY <2>2, <2>3, <2>4 DEF Chain, Messages, Fresh, Passed, Backed, Awake
<1>5. CASE Resume
    <2>1. budget'["resume"] = budget["resume"] - 1
        BY <1>5 DEF Resume, Spend, Faults
    <2>2. budget'["resume"] < Budget["resume"]
        BY <2>1 DEF BudgetInv, Faults
    <2>3. Excused'
        BY <2>2 DEF Excused, ChainFaults
    <2>. QED  BY <2>3
<1>6. CASE Delete
    BY <1>6 DEF Delete, Chain, Messages, Fresh
<1>. QED  BY <1>1, <1>2, <1>3, <1>4, <1>5, <1>6 DEF Clock, User

LEMMA ChainInvariant == Spec => []ChainInv
<1>1. Init => ChainInv
    BY DEF Init, ChainInv, BudgetInv, Chain, Messages, Fresh
<1>2. TypeInv /\ ChainInv /\ [Next]_vars => ChainInv'
    <2>. SUFFICES ASSUME TypeInv, ChainInv, [Next]_vars PROVE ChainInv'
        OBVIOUS
    <2>1. BudgetInv' /\ (Excused => Excused')
        BY BudgetStep DEF ChainInv
    <2>2. ASSUME Chain, ~Excused' PROVE Chain'
        BY <2>2, ChainRun, ChainDisturb, ChainOther DEF ChainInv, Next
    <2>. QED  BY <2>1, <2>2 DEF ChainInv
<1>. QED  BY <1>1, <1>2, TypeInvariant, PTL DEF Spec

\* A started campaign stays awake until a message cannot be sent, a hard kill
\* follows a swallowed soft limit, or the campaign is resumed; crashes,
\* redeliveries, quiet hours, soft limits and runs in parallel break no chain.
THEOREM ChainsBreakByFaults == Spec => [](Awake \/ Excused)
<1>1. ChainInv => Awake \/ Excused
    BY DEF ChainInv, Chain, Awake
<1>. QED  BY <1>1, ChainInvariant, PTL

\* ... so never, where these three do not happen.
THEOREM ChainsHold ==
    ASSUME \A f \in ChainFaults : Budget[f] = 0 PROVE Spec => []Awake
<1>1. TypeInv => ~Excused
    BY DEF TypeInv, TypeOK, Excused, ChainFaults, Faults
<1>. QED  BY <1>1, TypeInvariant, ChainsBreakByFaults, PTL

-----------------------------------------------------------------------------
(* One run at a time.  A chain of dispatches is a single run or a single   *)
(* message as long as nothing doubles it: no message that is put back or   *)
(* delivered again, and no resume that starts a second chain.              *)

DoublingFaults == {"crash", "duplicate", "resume"}

OneAtATime ==
    \/ \A v, w \in Workers : v = w
    \/ \A f \in DoublingFaults : Budget[f] = 0

Alone == \A v, w \in Workers : v # w => pc[v] = "idle" \/ pc[w] = "idle"

\* At most one message, which is in the broker only when no run is under way
\* but the one that has just sent it.
Single ==
    /\ Alone
    /\ \A i \in Ids : queue[i] <= 1
    /\ \A i, j \in Ids : queue[i] > 0 /\ queue[j] > 0 => i = j
    /\ \A w \in Workers, i \in Ids :
          pc[w] # "idle" /\ queue[i] > 0 => pc[w] = "release" /\ sent[w] = i
    /\ campaign = "draft" =>
          (\A w \in Workers : pc[w] = "idle") /\ (\A i \in Ids : queue[i] = 0)

\* A run ends, leaving at most the message it sends as it does.
LEMMA SingleEnds ==
    ASSUME TypeInv, Single, NEW w \in Workers, pc[w] # "idle", EndRun(w),
           campaign' = campaign,
           \/ queue' = queue
           \/ pc[w] # "release" /\ \E i \in Ids : queue' = [queue EXCEPT ![i] = 1]
    PROVE  Single'
<1>. USE DEF TypeInv, TypeOK, Single
<1>1. /\ pc' = [pc EXCEPT ![w] = "idle"] /\ campaign # "draft"
      /\ \A v \in Workers : v # w => pc[v] = "idle"
    BY DEF EndRun, Alone
<1>2. \A v \in Workers : pc'[v] = "idle"
    BY <1>1
<1>3. /\ \A i \in Ids : queue'[i] <= 1
      /\ \A i, j \in Ids : queue'[i] > 0 /\ queue'[j] > 0 => i = j
    <2>1. CASE queue' = queue
        BY <2>1
    <2>2. ASSUME pc[w] # "release", NEW i \in Ids, queue' = [queue EXCEPT ![i] = 1]
          PROVE  /\ \A j \in Ids : queue'[j] <= 1
                 /\ \A j, k \in Ids : queue'[j] > 0 /\ queue'[k] > 0 => j = k
        BY <2>2
    <2>. QED  BY <2>1, <2>2
<1>. QED  BY <1>1, <1>2, <1>3 DEF Alone

\* A step of a run that goes on, or of nobody, with the broker as it is.
LEMMA SingleGoesOn ==
    ASSUME TypeInv, Single, campaign' # "draft" \/ campaign' = campaign,
           UNCHANGED <<queue, sent>>,
           \/ pc' = pc
           \/ \E w \in Workers, p \in Phases \ {"idle"} :
                  pc[w] \notin {"idle", "release"} /\ pc' = [pc EXCEPT ![w] = p]
    PROVE  Single'
BY DEF TypeInv, TypeOK, Single, Alone

LEMMA SingleRun ==
    ASSUME TypeInv, Single, NEW w \in Workers, Run(w)
    PROVE  Single'
<1>. USE DEF TypeInv, TypeOK
<1>1. CASE Deliver(w)
    <2>1. PICK i \in Ids : /\ queue[i] > 0 /\ \A v \in Workers : sent[v] # i
                           /\ queue' = [queue EXCEPT ![i] = @ - 1]
        BY <1>1 DEF Deliver
    <2>2. /\ pc[w] = "idle" /\ pc' = [pc EXCEPT ![w] = "wake"]
          /\ UNCHANGED <<campaign, sent>>
        BY <1>1 DEF Deliver
    <2>3. /\ \A j \in Ids : queue'[j] = 0
          /\ \A v \in Workers : pc[v] = "idle"
        BY <2>1 DEF Single
    <2>. QED  BY <2>1, <2>2, <2>3 DEF Single, Alone
<1>2. CASE \/ Load(w) \/ PickAccounts(w) \/ NoAccounts(w) \/ NextAccount(w) \/ Claim(w)
           \/ ClientFails(w) \/ ClientReady(w) \/ LinkFails(w) \/ ConnectFails(w)
           \/ Connected(w) \/ EndBatch(w)
    BY <1>2, SingleGoesOn DEF Load, PickAccounts, NoAccounts, NextAccount, Claim,
           ClientFails, ClientReady, LinkFails, ConnectFails, Connected, EndBatch,
           PutBatchBack, Abandon, Phases, Interruptible
<1>3. CASE \/ Invite(w) \/ Record(w) \/ Count(w) \/ Cool(w) \/ Complete(w) \/ Unwind(w)
    BY <1>3, SingleGoesOn DEF Invite, Record, Count, Cool, Complete, Unwind, Phases,
           Interruptible
<1>4. CASE CheckLease(w) \/ TakeLease(w)
    <2>1. CASE EndRun(w)
        BY <1>4, <2>1, SingleEnds DEF CheckLease, TakeLease
    <2>2. CASE ~EndRun(w)
        BY <1>4, <2>2, SingleGoesOn DEF CheckLease, TakeLease, Phases, Interruptible
    <2>. QED  BY <2>1, <2>2
<1>5. CASE Release(w) \/ Requeue(w)
    BY <1>5, SingleEnds DEF Release, Requeue, Send
<1>6. CASE AllCooling(w) \/ Finish(w)
    <2>1. CASE UNCHANGED <<queue, sent>>
        BY <1>6, <2>1, SingleGoesOn DEF AllCooling, Finish, Phases, Interruptible
    <2>2. CASE ~UNCHANGED <<queue, sent>>
        <3>1. PICK i \in Ids : Send(i) /\ sent' = [sent EXCEPT ![w] = i]
            BY <1>6, <2>2 DEF AllCooling, Finish, Reschedule
        <3>2. /\ pc[w] \in {"pick", "finish"} /\ pc' = [pc EXCEPT ![w] = "release"]
              /\ UNCHANGED campaign
            BY <1>6, <2>2 DEF AllCooling, Finish
        <3>3. /\ \A j \in Ids : queue[j] = 0
              /\ \A v \in Workers : v # w => pc[v] = "idle"
            BY <3>2 DEF Single, Alone
        <3>4. queue' = [queue EXCEPT ![i] = 1]
            BY <3>1 DEF Send
        <3>. QED  BY <3>1, <3>2, <3>3, <3>4 DEF Single, Alone
    <2>. QED  BY <2>1, <2>2
<1>. QED  BY <1>1, <1>2, <1>3, <1>4, <1>5, <1>6 DEF Run

LEMMA SingleStep ==
    ASSUME TypeInv, BudgetInv, \A f \in DoublingFaults : Budget[f] = 0, Single, [Next]_vars
    PROVE  Single'
<1>. USE DEF TypeInv, TypeOK
<1>1. ~Spend("crash") /\ ~Spend("duplicate") /\ budget["resume"] = 0
    BY DEF Spend, BudgetInv, DoublingFaults, Faults
<1>2. ASSUME NEW w \in Workers, QuietHours(w) PROVE Single'
    BY <1>2, SingleEnds DEF QuietHours, Send
<1>3. ASSUME NEW w \in Workers, HardKill(w) PROVE Single'
    <2>1. CASE pc[w] = "idle"
        <3>1. pc' = pc /\ UNCHANGED <<campaign, queue>>
            BY <1>3, <2>1 DEF HardKill, EndRun
        <3>2. \A v \in Workers : pc'[v] # "idle" => sent'[v] = sent[v]
            BY <1>3, <2>1, <3>1 DEF HardKill, EndRun
        <3>. QED  BY <3>1, <3>2 DEF Single, Alone
    <2>2. CASE pc[w] # "idle"
        BY <1>3, <2>2, SingleEnds DEF HardKill
    <2>. QED  BY <2>1, <2>2
<1>4. ASSUME NEW w \in Workers, SoftTimeout(w) \/ Swallow(w) PROVE Single'
    BY <1>4, SingleGoesOn DEF SoftTimeout, Swallow, Abandon, Phases, Interruptible
<1>5. ASSUME NEW w \in Workers, Disturb(w) PROVE Single'
    BY <1>1, <1>2, <1>3, <1>4, <1>5 DEF Disturb, Crash
<1>6. CASE Start
    <2>1. queue' = queue \/ \E i \in Ids : queue' = [queue EXCEPT ![i] = 1]
        BY <1>6 DEF Start, Send
    <2>2. campaign = "draft" /\ campaign' = "active" /\ UNCHANGED <<pc, sent>>
        BY <1>6 DEF Start
    <2>. QED  BY <2>1, <2>2 DEF Single, Alone
<1>7. ASSUME (\E i \in Ids : Redeliver(i)) \/ Clock \/ User \/ UNCHANGED vars, ~Start
      PROVE  Single'
    BY <1>1, <1>7, SingleGoesOn DEF Redeliver, Clock, User, LeaseExpires, CleanupOrphans,
           CheckCooldowns, TaskAges, HourPasses, CooldownEnds, Promote, Activate,
           SetAccount, Pause, Resume, Spend, Delete
<1>. QED  BY <1>5, <1>6, <1>7, SingleRun DEF Next

LEMMA AloneInvariant == ASSUME OneAtATime PROVE Spec => []Alone
<1>1. CASE \A v, w \in Workers : v = w
    <2>1. Alone
        BY <1>1 DEF Alone
    <2>. QED  BY <2>1, PTL
<1>2. CASE \A f \in DoublingFaults : Budget[f] = 0
    <2>1. Init => BudgetInv /\ Single
        BY DEF Init, BudgetInv, Single, Alone
    <2>2. TypeInv /\ BudgetInv /\ Single /\ [Next]_vars => BudgetInv' /\ Single'
        BY <1>2, BudgetStep, SingleStep
    <2>3. Single => Alone
        BY DEF Single
    <2>. QED  BY <2>1, <2>2, <2>3, TypeInvariant, PTL DEF Spec
<1>. QED  BY <1>1, <1>2 DEF OneAtATime

\* Where nothing doubles a chain, two runs never meet behind the lease: what
\* Exclusive says of the lease can fail only through a message that is put back
\* or delivered again, or a resume.
THEOREM RunsExclude == ASSUME OneAtATime PROVE Spec => []Exclusive
<1>1. Alone => Exclusive
    BY DEF Alone, Exclusive
<1>. QED  BY <1>1, AloneInvariant, PTL

-----------------------------------------------------------------------------
(* The end of a campaign, where one run goes on at a time.                 *)

\* What a run does before it has found the campaign active, and afterwards.
Apart == {"idle", "wake", "lease", "load", "release", "unwind", "requeue"}

Going == \A w \in Workers : pc[w] \notin Apart => campaign \notin {"completed", "error"}

\* A step of a run that is not alone is the delivery of a message.
LEMMA AloneDelivers ==
    ASSUME TypeInv, Alone, NEW v \in Workers, NEW w \in Workers, v # w, pc[w] # "idle",
           Run(v) \/ QuietHours(v) \/ SoftTimeout(v) \/ Swallow(v) \/ Crash(v)
    PROVE  Deliver(v)
<1>1. pc[v] = "idle"
    BY DEF Alone
<1>. QED
    BY <1>1 DEF Run, QuietHours, SoftTimeout, Swallow, Crash, CheckLease, TakeLease,
           Release, Load, PickAccounts, AllCooling, NoAccounts, NextAccount, Claim,
           ClientFails, ClientReady, LinkFails, ConnectFails, Connected, EndBatch, Invite,
           Record, Count, Cool, Finish, Complete, Unwind, Requeue, Interruptible

\* What a step of one run leaves of another.
LEMMA PcAside ==
    ASSUME TypeInv, NEW v \in Workers, NEW w \in Workers, v # w, Run(v) \/ Disturb(v)
    PROVE  pc'[w] = pc[w]
BY DEF Run, Disturb, Deliver, CheckLease, TakeLease, Release, Load, PickAccounts,
       AllCooling, NoAccounts, NextAccount, Claim, ClientFails, ClientReady, LinkFails,
       ConnectFails, Connected, EndBatch, Invite, Record, Count, Cool, Finish, Complete,
       Unwind, Requeue, QuietHours, SoftTimeout, Swallow, HardKill, Crash, PutBatchBack,
       Abandon, EndRun, TypeInv, TypeOK

\* A run past its load comes from one, and none but the run ends a campaign.
LEMMA GoingStep ==
    ASSUME TypeInv, Alone, Going, [Next]_vars
    PROVE  Going'
<1>. SUFFICES ASSUME NEW w \in Workers, pc'[w] \notin Apart
              PROVE  campaign' \notin {"completed", "error"}
    BY DEF Going
<1>1. ASSUME NEW v \in Workers, Run(v), v # w PROVE campaign' \notin {"completed", "error"}
    <2>1. pc[w] \notin Apart
        BY <1>1, PcAside
    <2>2. Deliver(v)
        BY <1>1, <2>1, AloneDelivers DEF Apart
    <2>. QED  BY <2>1, <2>2 DEF Going, Deliver
<1>2. ASSUME Run(w) PROVE campaign' \notin {"completed", "error"}
    <2>2. ~(NoAccounts(w) \/ Complete(w))
        BY DEF NoAccounts, Complete, Apart, TypeInv, TypeOK
    <2>3. campaign' = campaign
        BY <1>2, <2>2 DEF Run, Deliver, CheckLease, TakeLease, Release, Load,
               PickAccounts, AllCooling, NextAccount, Claim, ClientFails, ClientReady,
               LinkFails, ConnectFails, Connected, EndBatch, Invite, Record, Count, Cool,
               Finish, Unwind, Requeue, PutBatchBack
    <2>4. CASE pc[w] \notin Apart
        BY <2>3, <2>4 DEF Going
    <2>5. CASE pc[w] \in Apart
        <3>1. Load(w) /\ campaign = "active"
            BY <1>2, <2>5 DEF Run, Deliver, CheckLease, TakeLease, Release, Load,
                   PickAccounts, AllCooling, NoAccounts, NextAccount, Claim, ClientFails,
                   ClientReady, LinkFails, ConnectFails, Connected, EndBatch, Invite,
                   Record, Count, Cool, Finish, Complete, Unwind, Requeue, EndRun, Apart,
                   TypeInv, TypeOK
        <3>. QED  BY <2>3, <3>1
    <2>. QED  BY <2>4, <2>5
<1>3. ASSUME NEW v \in Workers, Disturb(v) PROVE campaign' \notin {"completed", "error"}
    <2>1. campaign' = campaign
        BY <1>3 DEF Disturb, QuietHours, SoftTimeout, Swallow, HardKill, Crash
    <2>2. pc[w] \notin Apart
        <3>1. CASE v # w
            BY <1>3, <3>1, PcAside
        <3>2. CASE v = w
            BY <1>3, <3>2 DEF Disturb, QuietHours, SoftTimeout, Swallow, Abandon, HardKill,
                   Crash, EndRun, Apart, TypeInv, TypeOK
        <3>. QED  BY <3>1, <3>2
    <2>. QED  BY <2>1, <2>2 DEF Going
<1>4. ASSUME (\E i \in Ids : Redeliver(i)) \/ Clock \/ User \/ UNCHANGED vars
      PROVE  campaign' \notin {"completed", "error"}
    <2>1. pc' = pc /\ campaign' \in {campaign, "active", "paused", "deleted"}
        BY <1>4 DEF Redeliver, Clock, User, LeaseExpires, CleanupOrphans, CheckCooldowns,
               TaskAges, HourPasses, CooldownEnds, Promote, Activate, SetAccount,
               Start, Pause, Resume, Delete
    <2>. QED  BY <2>1 DEF Going
<1>. QED  BY <1>1, <1>2, <1>3, <1>4 DEF Next

\* Where one run goes on at a time, completed and error are final: a second run
\* would write its verdict over that of the first.
THEOREM EndsAreFinal ==
    ASSUME OneAtATime PROVE Spec => EndIsFinal
<1>1. Init => Going
    BY DEF Init, Going, Apart
<1>2. TypeInv /\ Alone /\ Going /\ [Next]_vars => Going'
    BY GoingStep
<1>3. ASSUME TypeInv, Going, [Next]_vars
      PROVE  [campaign = "completed" \/ campaign = "error" =>
                  campaign' = campaign \/ campaign' = "deleted"]_vars
    <2>1. ASSUME NEW w \in Workers, NoAccounts(w) \/ Complete(w)
          PROVE  campaign \notin {"completed", "error"}
        BY <1>3, <2>1 DEF Going, NoAccounts, Complete, Apart
    <2>2. ASSUME NEW w \in Workers, Run(w), ~NoAccounts(w), ~Complete(w)
          PROVE  campaign' = campaign
        BY <2>2 DEF Run, Deliver, CheckLease, TakeLease, Release, Load,
               PickAccounts, AllCooling, NextAccount, Claim, ClientFails, ClientReady,
               LinkFails, ConnectFails, Connected, EndBatch, Invite, Record, Count, Cool,
               Finish, Unwind, Requeue, PutBatchBack
    <2>3. ASSUME NEW w \in Workers, Disturb(w) PROVE campaign' = campaign
        BY <2>3 DEF Disturb, QuietHours, SoftTimeout, Swallow, HardKill, Crash
    <2>4. ASSUME (\E i \in Ids : Redeliver(i)) \/ Clock \/ User,
                 campaign \in {"completed", "error"}
          PROVE  campaign' \in {campaign, "deleted"}
        BY <2>4 DEF Redeliver, Clock, User, LeaseExpires, CleanupOrphans, CheckCooldowns,
               TaskAges, HourPasses, CooldownEnds, Promote, Activate, SetAccount,
               Start, Pause, Resume, Delete
    <2>. QED  BY <1>3, <2>1, <2>2, <2>3, <2>4 DEF Next
<1>. QED  BY <1>1, <1>2, <1>3, TypeInvariant, AloneInvariant, PTL DEF Spec, EndIsFinal

-----------------------------------------------------------------------------
(* The hourly limit, where one run goes on at a time: what a run may still *)
(* send and what was sent within the hour stay within the limit together.  *)

Hour(a) == {t \in recent : tstatus[t] = "success" /\ tacct[t] = a}

\* Where a run works for an account, with slots of its own.
Sending == {"claim", "open", "connect", "invite", "record", "count", "cool"}

\* The task whose outcome is being written: it takes its slot when it is counted.
Doing(w) == IF pc[w] \in {"record", "count"} THEN {job[w].task} ELSE {}

Room ==
    /\ \A a \in Accounts : Cardinality(Hour(a)) <= InvitesPerHour
    /\ \A w \in Workers : pc[w] \in Sending =>
          \E a \in Accounts :
             acct[w] = a /\ Cardinality(Hour(a) \ Doing(w)) + slots[w] <= InvitesPerHour

RoomInv == Faithful /\ Room

\* Hours, and parts of them, are sets whose size can be compared.
LEMMA HourSizes ==
    ASSUME OwnerInv, NEW a \in Accounts, NEW D
    PROVE  /\ IsFiniteSet(Hour(a) \ D) /\ IsFiniteSet(Hour(a))
           /\ Cardinality(Hour(a) \ D) \in Nat /\ Cardinality(Hour(a)) \in Nat
<1>1. Hour(a) \subseteq Tasks /\ Hour(a) \ D \subseteq Tasks
    BY DEF Hour, OwnerInv, TypeInv, TypeOK
<1>. QED  BY <1>1, FS_Subset, FS_CardinalityType

LEMMA SmallerSize ==
    ASSUME NEW B \in SUBSET Tasks, NEW A \in SUBSET B
    PROVE  Cardinality(A) <= Cardinality(B) /\ Cardinality(A) \in Nat /\ Cardinality(B) \in Nat
BY FS_Subset, FS_CardinalityType

\* A set has at most one element more than the set without it.
LEMMA OneMore ==
    ASSUME NEW B \in SUBSET Tasks, NEW t
    PROVE  Cardinality(B) <= Cardinality(B \ {t}) + 1
<1>1. PICK A : A = B \ {t}
    OBVIOUS
<1>2. IsFiniteSet(A) /\ IsFiniteSet(B) /\ Cardinality(A) \in Nat /\ Cardinality(B) \in Nat
    BY <1>1, FS_Subset, FS_CardinalityType
<1>3. IsFiniteSet(A \cup {t}) /\ Cardinality(A \cup {t}) = Cardinality(A) + 1
    BY <1>1, <1>2, FS_AddElement
<1>4. Cardinality(B) <= Cardinality(A \cup {t})
    BY <1>1, <1>3, FS_Subset
<1>. QED  BY <1>1, <1>2, <1>3, <1>4

\* Only the record of a success adds to an hour.
LEMMA HourShrinks ==
    ASSUME OwnerInv, [Next]_vars, NEW a \in Accounts, \A w \in Workers : ~Record(w)
    PROVE  Hour(a)' \subseteq Hour(a)
<1>1. ASSUME NEW S, GiveBack(S), UNCHANGED recent PROVE Hour(a)' \subseteq Hour(a)
    <2>1. \A t \in Tasks : tstatus'[t] = "success" => tstatus[t] = "success"
                                                    /\ tacct'[t] \in {tacct[t], None}
        BY <1>1 DEF GiveBack
    <2>2. recent' = recent /\ recent \subseteq Tasks
        BY <1>1 DEF OwnerInv, TypeInv, TypeOK
    <2>3. ASSUME NEW t \in Hour(a)' PROVE t \in Hour(a)
        BY <2>1, <2>2, <2>3 DEF Hour
    <2>. QED  BY <2>3
<1>2. ASSUME NEW w \in Workers, Claim(w) PROVE Hour(a)' \subseteq Hour(a)
    <2>1. recent' = recent /\ recent \subseteq Tasks
        BY <1>2 DEF Claim, OwnerInv, TypeInv, TypeOK
    <2>2. \A t \in Tasks : tstatus'[t] = "success" =>
              tstatus[t] = "success" /\ tacct'[t] = tacct[t]
        BY <1>2 DEF Claim, Pending
    <2>3. ASSUME NEW t \in Hour(a)' PROVE t \in Hour(a)
        BY <2>1, <2>2, <2>3 DEF Hour
    <2>. QED  BY <2>3
<1>3. ASSUME UNCHANGED <<tstatus, tacct>>, recent' \subseteq recent
      PROVE  Hour(a)' \subseteq Hour(a)
    BY <1>3 DEF Hour
<1>4. ASSUME Delete PROVE Hour(a)' \subseteq Hour(a)
    BY <1>4 DEF Delete, Hour
<1>5. ASSUME NEW w \in Workers, Run(w)
      PROVE  UNCHANGED taskRows \/ Claim(w) \/ \E S : GiveBack(S) /\ UNCHANGED recent
    BY <1>5 DEF Run, Deliver, CheckLease, TakeLease, Release, Load,
           PickAccounts, AllCooling, NoAccounts, NextAccount, ClientFails, ClientReady,
           LinkFails, ConnectFails, Connected, EndBatch, Invite, Count, Cool, Finish,
           Complete, Unwind, Requeue, PutBatchBack
<1>6. ASSUME NEW w \in Workers, Disturb(w) PROVE UNCHANGED taskRows
    BY <1>6 DEF Disturb, QuietHours, SoftTimeout, Swallow, HardKill, Crash
<1>7. ASSUME (\E i \in Ids : Redeliver(i)) \/ Clock \/ User \/ UNCHANGED vars
      PROVE  \/ UNCHANGED <<tstatus, tacct>> /\ recent' \subseteq recent
             \/ Delete
             \/ \E S : GiveBack(S) /\ UNCHANGED recent
    BY <1>7 DEF Redeliver, Clock, User, LeaseExpires, CleanupOrphans, CheckCooldowns,
           TaskAges, HourPasses, CooldownEnds, Promote, Activate, SetAccount,
           Start, Pause, Resume
<1>. QED  BY <1>1, <1>2, <1>3, <1>4, <1>5, <1>6, <1>7 DEF Next

\* ... that of the task it is about, to the account of the run.
LEMMA HourGrows ==
    ASSUME OwnerInv, NEW w \in Workers, Record(w), NEW a \in Accounts
    PROVE  /\ Hour(a)' \ {job[w].task} \subseteq Hour(a) \ {job[w].task}
           /\ job[w].task \in Hour(a)' => a = acct[w] /\ job[w].result = "success"
<1> DEFINE t == job[w].task
<1>1. t \in Tasks /\ t \in hold[w] /\ job[w].result \in Results /\ pc[w] = "record"
    BY DEF Record, OwnerInv, TypeInv, JobInv
<1>2. /\ tstatus' = [tstatus EXCEPT ![t] = IF @ = "gone" THEN @ ELSE StatusOf(job[w].result)]
      /\ tacct' = [tacct EXCEPT ![t] = IF job[w].result = "flood" THEN None ELSE @]
      /\ recent' = IF job[w].result = "success" /\ tstatus[t] # "gone"
                   THEN recent \cup {t} ELSE recent
    BY DEF Record
<1>3. StatusOf(job[w].result) = "success" => job[w].result = "success"
    BY <1>1 DEF StatusOf, Results
<1>4. \A u \in Tasks \ {t} : u \in Hour(a)' => u \in Hour(a)
    BY <1>2 DEF Hour, OwnerInv, TypeInv, TypeOK
<1>5. Hour(a)' \subseteq Tasks
    BY <1>1, <1>2 DEF Hour, OwnerInv, TypeInv, TypeOK
<1>6. ASSUME t \in Hour(a)' PROVE a = acct[w] /\ job[w].result = "success"
    <2>1. job[w].result = "success" /\ tstatus[t] # "gone" /\ tacct'[t] = a
        BY <1>1, <1>2, <1>3, <1>6 DEF Hour, OwnerInv, TypeInv, TypeOK
    <2>2. tacct'[t] = tacct[t]
        BY <1>1, <1>2, <2>1 DEF OwnerInv, TypeInv, TypeOK
    <2>3. ~Written(w, t)
        BY <1>1, <2>1 DEF Written, RetryOutcomes
    <2>. QED  BY <1>1, <2>1, <2>2, <2>3 DEF OwnerInv, Owned, OwnedBy
<1>. QED  BY <1>4, <1>5, <1>6

\* Where a run stands after a step that records nothing: it has the slots it
\* has just been granted, or no more than before; what it counts takes a slot
\* or is no success.
LEMMA SlotsStep ==
    ASSUME OwnerInv, Alone, Faithful, [Next]_vars,
           NEW w \in Workers, pc'[w] \in Sending, ~Record(w)
    PROVE  \/ /\ pc[w] \in Sending /\ acct'[w] = acct[w]
              /\ \/ slots'[w] <= slots[w] /\ Doing(w) \subseteq Doing(w)'
                 \/ slots'[w] = slots[w] - 1
                 \/ slots'[w] = slots[w] /\ tstatus[job[w].task] # "success"
           \/ /\ acct'[w] \in Accounts /\ UNCHANGED taskRows
              /\ slots'[w] = SlotsLeft(acct'[w]) /\ Doing(w)' = {}
<1>. USE DEF OwnerInv, TypeInv, TypeOK
<1>1. slots[w] \in Nat /\ (pc[w] \in {"record", "count"} => slots[w] > 0)
    BY DEF JobInv
<1>2. CASE NextAccount(w)
    <2>1. PICK a \in todo[w] :
              /\ acct' = [acct EXCEPT ![w] = a]
              /\ slots' = [slots EXCEPT ![w] = SlotsLeft(a)]
              /\ pc' = [pc EXCEPT ![w] = "claim"]
        BY <1>2 DEF NextAccount, Sending
    <2>2. a \in Accounts /\ acct'[w] = a /\ slots'[w] = SlotsLeft(a) /\ pc'[w] = "claim"
        BY <2>1
    <2>. QED  BY <1>2, <2>2 DEF NextAccount, Doing
<1>3. CASE Count(w)
    <2>1. pc[w] = "count" /\ job[w].result \in Results
        BY <1>3 DEF Count, JobInv
    <2>2. CASE job[w].result = "success"
        BY <1>1, <1>3, <2>1, <2>2 DEF Count, Sending
    <2>3. CASE job[w].result # "success"
        <3>1. tstatus[job[w].task] # "success"
            BY <2>1, <2>3 DEF Faithful, StatusOf, Results
        <3>. QED  BY <1>1, <1>3, <2>1, <2>3, <3>1 DEF Count, Sending
    <2>. QED  BY <2>2, <2>3
<1>4. CASE Swallow(w)
    <2>1. job[w].result = "success" /\ pc[w] \in {"record", "count"}
        <3>1. job[w].result = "success"
            BY <1>4 DEF Swallow, Abandon, Sending
        <3>. QED  BY <1>4, <3>1 DEF Swallow, JobInv, NoJob, Results
    <2>2. /\ job'[w].task = job[w].task /\ pc'[w] = "record"
          /\ UNCHANGED <<slots, acct>>
        BY <1>4, <2>1 DEF Swallow, JobInv
    <2>. QED  BY <1>1, <2>1, <2>2 DEF Doing, Sending
<1>5. ASSUME Run(w), ~NextAccount(w), ~Count(w)
      PROVE  pc[w] \in Sending /\ acct'[w] = acct[w] /\ slots'[w] <= slots[w] /\ Doing(w) = {}
    <2>1. ~(Deliver(w) \/ CheckLease(w) \/ TakeLease(w) \/ Release(w) \/ Load(w)
               \/ PickAccounts(w) \/ AllCooling(w) \/ NoAccounts(w))
        BY DEF Deliver, CheckLease, TakeLease, Release, Load, PickAccounts, AllCooling,
               NoAccounts, EndRun, Sending
    <2>2. ~(ClientFails(w) \/ LinkFails(w) \/ ConnectFails(w) \/ EndBatch(w)
               \/ Finish(w) \/ Complete(w) \/ Unwind(w) \/ Requeue(w))
        BY DEF ClientFails, LinkFails, ConnectFails, EndBatch, Finish, Complete, Unwind,
               Requeue, PutBatchBack, Abandon, EndRun, Sending
    <2>3. CASE Claim(w) \/ ClientReady(w) \/ Connected(w)
        BY <1>1, <2>3 DEF Claim, ClientReady, Connected, Sending, Doing
    <2>4. CASE Invite(w)
        BY <1>1, <2>4 DEF Invite, Sending, Doing
    <2>5. CASE Cool(w)
        BY <1>1, <2>5 DEF Cool, Sending, Doing
    <2>. QED  BY <1>5, <2>1, <2>2, <2>3, <2>4, <2>5 DEF Run
<1>6. ASSUME Disturb(w), ~Swallow(w) PROVE FALSE
    BY <1>6 DEF Disturb, QuietHours, SoftTimeout, HardKill, Crash, EndRun, Sending
<1>7. ASSUME NEW v \in Workers, v # w, Run(v) \/ Disturb(v)
      PROVE  pc[w] \in Sending /\ acct'[w] = acct[w] /\ slots'[w] <= slots[w] /\ Doing(w)' = Doing(w)
    <2>1. pc[w] \in Sending
        BY <1>7, PcAside
    <2>2. Deliver(v) \/ HardKill(v)
        BY <1>7, <2>1, AloneDelivers DEF Disturb, Sending
    <2>3. acct'[w] = acct[w] /\ slots'[w] = slots[w] /\ job'[w] = job[w] /\ pc'[w] = pc[w]
        BY <1>7, <2>2 DEF Deliver, HardKill, EndRun
    <2>. QED  BY <1>1, <2>1, <2>3 DEF Doing
<1>8. ASSUME (\E i \in Ids : Redeliver(i)) \/ Clock \/ User \/ UNCHANGED vars
      PROVE  pc[w] \in Sending /\ acct'[w] = acct[w] /\ slots'[w] <= slots[w] /\ Doing(w)' = Doing(w)
    <2>1. UNCHANGED runVars
        BY <1>8 DEF Redeliver, Clock, User, LeaseExpires, CleanupOrphans, CheckCooldowns,
               TaskAges, HourPasses, CooldownEnds, Promote, Activate, SetAccount,
               Start, Pause, Resume, Delete
    <2>. QED  BY <1>1, <2>1 DEF Doing
<1>. QED  BY <1>2, <1>3, <1>4, <1>5, <1>6, <1>7, <1>8 DEF Next

\* The record of an outcome: the task's slot is still the run's, so the hour has
\* room for it.
LEMMA RoomRecord ==
    ASSUME OwnerInv, OwnerInv', Alone, Room, NEW w \in Workers, Record(w)
    PROVE  Room'
<1> DEFINE t == job[w].task
<1>1. /\ pc[w] = "record" /\ slots[w] \in Nat \ {0} /\ job[w].result \in Results
      /\ UNCHANGED <<slots, acct>>
      /\ \A v \in Workers : v # w => pc'[v] = pc[v]
      /\ pc'[w] \in {"cool", "invite", "count"}
    BY DEF Record, OwnerInv, TypeInv, TypeOK, JobInv
<1>2. PICK a \in Accounts :
          a = acct[w] /\ Cardinality(Hour(a) \ {t}) + slots[w] <= InvitesPerHour
    BY <1>1 DEF Room, Sending, Doing
<1>3. ASSUME NEW b \in Accounts
      PROVE  /\ Cardinality(Hour(b)' \ {t}) <= Cardinality(Hour(b) \ {t})
             /\ Cardinality(Hour(b)' \ {t}) \in Nat /\ Cardinality(Hour(b) \ {t}) \in Nat
             /\ Cardinality(Hour(b)') \in Nat
             /\ Hour(b)' \subseteq Tasks /\ Hour(b) \subseteq Tasks
    <2>1. Hour(b) \subseteq Tasks /\ Hour(b)' \subseteq Tasks
        BY DEF Hour, OwnerInv, TypeInv, TypeOK
    <2>2. Hour(b)' \ {t} \subseteq Hour(b) \ {t}
        BY HourGrows
    <2>. QED  BY <2>1, <2>2, SmallerSize
<1>4. Cardinality(Hour(a)') <= InvitesPerHour
    <2>1. Cardinality(Hour(a)') <= Cardinality(Hour(a)' \ {t}) + 1
        BY <1>3, OneMore
    <2>2. /\ Cardinality(Hour(a)' \ {t}) <= Cardinality(Hour(a) \ {t})
          /\ Cardinality(Hour(a)' \ {t}) \in Nat /\ Cardinality(Hour(a) \ {t}) \in Nat
          /\ Cardinality(Hour(a)') \in Nat
        BY <1>3
    <2>. QED  BY <1>1, <1>2, <2>1, <2>2
<1>5. ASSUME NEW b \in Accounts, b # a PROVE Cardinality(Hour(b)') <= InvitesPerHour
    <2>1. Hour(b)' \subseteq Hour(b)
        BY <1>2, <1>5, HourGrows
    <2>2. Cardinality(Hour(b)') <= Cardinality(Hour(b)) /\ Cardinality(Hour(b)) \in Nat
        BY <1>3, <2>1, SmallerSize
    <2>3. Cardinality(Hour(b)') \in Nat /\ Cardinality(Hour(b)) <= InvitesPerHour
        BY <1>3 DEF Room
    <2>. QED  BY <2>2, <2>3
<1>6. Cardinality((Hour(a) \ Doing(w))') + slots'[w] <= InvitesPerHour
    <2>1. (Hour(a) \ Doing(w))' = Hour(a)' \ {t}
        <3>1. CASE pc'[w] = "count"
            BY <1>1, <3>1 DEF Record, Doing, OwnerInv, TypeInv, TypeOK
        <3>2. CASE pc'[w] # "count"
            <4>1. job[w].result \in {"flood", "skipped"}
                BY <3>2 DEF Record, OwnerInv, TypeInv, TypeOK
            <4>2. t \notin Hour(a)'
                BY <4>1, HourGrows
            <4>. QED  BY <1>1, <3>2, <4>2 DEF Doing
        <3>. QED  BY <3>1, <3>2
    <2>2. /\ Cardinality(Hour(a)' \ {t}) <= Cardinality(Hour(a) \ {t})
          /\ Cardinality(Hour(a)' \ {t}) \in Nat /\ Cardinality(Hour(a) \ {t}) \in Nat
        BY <1>3
    <2>3. Cardinality(Hour(a)' \ {t}) + slots'[w] <= InvitesPerHour
        BY <1>1, <1>2, <2>2
    <2>. QED  BY <2>1, <2>3
<1>7. ASSUME NEW v \in Workers, pc'[v] \in Sending PROVE v = w
    BY <1>1, <1>7 DEF Alone, Sending
<1>. QED  BY <1>1, <1>2, <1>4, <1>5, <1>6, <1>7 DEF Room

LEMMA RoomStep ==
    ASSUME OwnerInv, OwnerInv', Alone, Faithful, Room, [Next]_vars
    PROVE  Room'
<1>1. CASE \E w \in Workers : Record(w)
    BY <1>1, RoomRecord
<1>2. CASE \A w \in Workers : ~Record(w)
    <2>1. ASSUME NEW a \in Accounts
          PROVE  Hour(a)' \subseteq Hour(a) /\ Hour(a) \subseteq Tasks
        BY <1>2, HourShrinks DEF Hour, OwnerInv, TypeInv, TypeOK
    <2>2. ASSUME NEW a \in Accounts PROVE Cardinality(Hour(a)') <= InvitesPerHour
        <3>1. Cardinality(Hour(a)') <= Cardinality(Hour(a)) /\ Cardinality(Hour(a)) \in Nat
              /\ Cardinality(Hour(a)') \in Nat
            BY <2>1, SmallerSize
        <3>. QED  BY <3>1 DEF Room
    <2>3. ASSUME NEW w \in Workers, pc'[w] \in Sending
          PROVE  \E a \in Accounts :
                     /\ acct'[w] = a
                     /\ Cardinality((Hour(a) \ Doing(w))') + slots'[w] <= InvitesPerHour
        <3>0. slots[w] \in Nat /\ slots'[w] \in Nat
            BY DEF OwnerInv, TypeInv, TypeOK
        <3>1. CASE acct'[w] \in Accounts /\ UNCHANGED taskRows
                   /\ slots'[w] = SlotsLeft(acct'[w]) /\ Doing(w)' = {}
            <4>1. PICK a \in Accounts : a = acct'[w]
                BY <3>1
            <4>2. Hour(a)' = Hour(a) /\ slots'[w] = InvitesPerHour - Cardinality(Hour(a))
                BY <3>1, <4>1 DEF Hour, SlotsLeft, InvitesThisHour
            <4>3. (Hour(a) \ Doing(w))' = Hour(a) /\ Cardinality(Hour(a)) \in Nat
                BY <2>1, <3>1, <4>2, SmallerSize
            <4>4. PICK n \in Nat : n = Cardinality(Hour(a))
                BY <4>3
            <4>5. Cardinality((Hour(a) \ Doing(w))') = n
                BY <4>3, <4>4
            <4>6. slots'[w] = InvitesPerHour - n
                BY <4>2, <4>4
            <4>7. Cardinality((Hour(a) \ Doing(w))') + slots'[w] <= InvitesPerHour
                BY <4>5, <4>6
            <4>. QED  BY <4>1, <4>7
        <3>2. CASE pc[w] \in Sending /\ acct'[w] = acct[w]
            <4>1. PICK a \in Accounts :
                      a = acct[w] /\ Cardinality(Hour(a) \ Doing(w)) + slots[w] <= InvitesPerHour
                BY <3>2 DEF Room
            <4>2. ASSUME NEW A, NEW B, A \subseteq B, B \subseteq Tasks
                  PROVE  Cardinality(A) <= Cardinality(B) /\ Cardinality(A) \in Nat
                         /\ Cardinality(B) \in Nat
                BY <4>2, SmallerSize
            <4>3. (Hour(a) \ Doing(w))' = Hour(a)' \ Doing(w)'
                OBVIOUS
            <4>4. CASE slots'[w] <= slots[w] /\ Doing(w) \subseteq Doing(w)'
                <5>1. Hour(a)' \ Doing(w)' \subseteq Hour(a) \ Doing(w) /\ Hour(a) \ Doing(w) \subseteq Tasks
                    BY <2>1, <4>4
                <5>2. /\ Cardinality(Hour(a)' \ Doing(w)') <= Cardinality(Hour(a) \ Doing(w))
                      /\ Cardinality(Hour(a)' \ Doing(w)') \in Nat
                      /\ Cardinality(Hour(a) \ Doing(w)) \in Nat
                    BY <4>2, <5>1
                <5>3. Cardinality(Hour(a)' \ Doing(w)') + slots'[w] <= InvitesPerHour
                    BY <3>0, <4>1, <4>4, <5>2
                <5>. QED  BY <3>2, <4>1, <4>3, <5>3
            <4>5. CASE slots'[w] = slots[w] - 1
                <5>1. PICK u : Doing(w) \subseteq {u}
                    BY DEF Doing
                <5>2. Cardinality(Hour(a)) <= Cardinality(Hour(a) \ {u}) + 1
                    BY <2>1, OneMore
                <5>3. /\ Cardinality(Hour(a) \ {u}) <= Cardinality(Hour(a) \ Doing(w))
                      /\ Cardinality(Hour(a) \ {u}) \in Nat
                      /\ Cardinality(Hour(a) \ Doing(w)) \in Nat
                    BY <2>1, <4>2, <5>1
                <5>4. /\ Cardinality(Hour(a)' \ Doing(w)') <= Cardinality(Hour(a))
                      /\ Cardinality(Hour(a)' \ Doing(w)') \in Nat
                      /\ Cardinality(Hour(a)) \in Nat
                    BY <2>1, <4>2
                <5>5. Cardinality(Hour(a)' \ Doing(w)') + slots'[w] <= InvitesPerHour
                    BY <3>0, <4>1, <4>5, <5>2, <5>3, <5>4
                <5>. QED  BY <3>2, <4>1, <4>3, <5>5
            <4>6. CASE slots'[w] = slots[w] /\ tstatus[job[w].task] # "success"
                <5>1. Hour(a) \ Doing(w) = Hour(a)
                    BY <4>6 DEF Doing, Hour
                <5>2. /\ Cardinality(Hour(a)' \ Doing(w)') <= Cardinality(Hour(a))
                      /\ Cardinality(Hour(a)' \ Doing(w)') \in Nat
                      /\ Cardinality(Hour(a)) \in Nat
                    BY <2>1, <4>2
                <5>3. Cardinality(Hour(a)) + slots[w] <= InvitesPerHour
                    BY <4>1, <5>1
                <5>4. slots'[w] = slots[w]
                    BY <4>6
                <5>5. Cardinality(Hour(a)' \ Doing(w)') + slots'[w] <= InvitesPerHour
                    BY <3>0, <5>2, <5>3, <5>4
                <5>. QED  BY <3>2, <4>1, <4>3, <5>5
            <4>7. \/ slots'[w] <= slots[w] /\ Doing(w) \subseteq Doing(w)'
                  \/ slots'[w] = slots[w] - 1
                  \/ slots'[w] = slots[w] /\ tstatus[job[w].task] # "success"
                  \/ /\ acct'[w] \in Accounts /\ UNCHANGED taskRows
                     /\ slots'[w] = SlotsLeft(acct'[w]) /\ Doing(w)' = {}
                BY <1>2, <2>3, SlotsStep
            <4>. QED  BY <3>1, <4>4, <4>5, <4>6, <4>7
        <3>. QED  BY <1>2, <2>3, <3>1, <3>2, SlotsStep
    <2>. QED  BY <2>2, <2>3 DEF Room
<1>. QED  BY <1>1, <1>2

\* Where one run goes on at a time and its time limits end it before its claims
\* grow old, no account has more successes within an hour than
\* invites_per_hour_per_account, over any number of runs, restarts, swallowed
\* limits and hard kills.
THEOREM HourlyLimitHolds ==
    ASSUME Guarded, OneAtATime
    PROVE  Spec => []HourlyLimit
<1>1. Init => RoomInv
    <2>. SUFFICES ASSUME Init PROVE RoomInv
        OBVIOUS
    <2>1. \A a \in Accounts : Hour(a) = {}
        BY DEF Init, Hour
    <2>2. \A a \in Accounts : Cardinality(Hour(a)) = 0
        BY <2>1, FS_EmptySet
    <2>3. \A w \in Workers : pc[w] = "idle"
        BY DEF Init
    <2>. QED  BY <2>2, <2>3 DEF RoomInv, Room, Faithful, Sending
<1>2. OwnerInv /\ OwnerInv' /\ Alone /\ RoomInv /\ [Next]_vars => RoomInv'
    BY FaithfulStep, RoomStep DEF RoomInv
<1>3. RoomInv => HourlyLimit
    BY DEF RoomInv, Room, HourlyLimit, InvitesThisHour, Hour
<1>. QED  BY <1>1, <1>2, <1>3, OwnerInvariant, AloneInvariant, PTL DEF Spec

-----------------------------------------------------------------------------
(* Why runs end: every step of a run is one towards its end.               *)

\* The parts of a run, each of which it enters from an earlier one.
Stage(p) ==
    CASE p = "idle"                   -> 0
      [] p \in {"release", "requeue"} -> 1
      [] p = "unwind"                 -> 2
      [] p = "complete"               -> 3
      [] p = "finish"                 -> 4
      [] p = "pick"                   -> 6
      [] p = "load"                   -> 7
      [] p = "lease"                  -> 8
      [] p = "wake"                   -> 9
      [] OTHER                        -> 5

\* Within the loop: the way to the next account.
Place(p) ==
    CASE p = "account" -> 1
      [] p = "claim"   -> 5
      [] p = "open"    -> 4
      [] p = "connect" -> 3
      [] OTHER         -> 2

\* Within a batch: the way to the next task, or with no slots left out of it.
Turn(p, s) ==
    CASE p = "invite" -> IF s > 0 THEN 4 ELSE 0
      [] p = "record" -> 3
      [] p = "count"  -> 2
      [] OTHER        -> 1

\* A batch is nearer to its end with a task less in hand, or later in its turn;
\* the loop with an account less, or later on the way to the next.
InBatch(w) ==
    \/ Cardinality(hold'[w]) < Cardinality(hold[w])
    \/ hold'[w] = hold[w] /\ Turn(pc'[w], slots'[w]) < Turn(pc[w], slots[w])

InLoop(w) ==
    \/ Cardinality(todo'[w]) < Cardinality(todo[w])
    \/ /\ todo'[w] = todo[w]
       /\ \/ Place(pc'[w]) < Place(pc[w])
          \/ Place(pc'[w]) = Place(pc[w]) /\ InBatch(w)

\* The end of the run, the soft limit swallowed (which happens once), a later
\* part, an account less, a later part of the loop, a task less, and so on.
Nearer(w) ==
    /\ pc[w] # "idle"
    /\ \/ pc'[w] = "idle"
       \/ doomed'[w] /\ ~doomed[w]
       \/ /\ doomed'[w] = doomed[w]
          /\ \/ Stage(pc'[w]) < Stage(pc[w])
             \/ Stage(pc'[w]) = Stage(pc[w]) /\ InLoop(w)

Rests(w) ==
    /\ pc'[w] = pc[w] /\ todo'[w] = todo[w] /\ hold'[w] = hold[w]
    /\ slots'[w] = slots[w] /\ doomed'[w] = doomed[w]

\* A step of its own brings a run nearer to its end; nothing throws it back.
Approach ==
    \A w \in Workers :
        pc[w] # "idle" => /\ Run(w) \/ Disturb(w) => Nearer(w)
                          /\ Nearer(w) \/ Rests(w)

\* A set of tasks or accounts without one of its members.
LEMMA OneLess ==
    ASSUME NEW S, S \subseteq Tasks \/ S \subseteq Accounts, NEW x \in S
    PROVE  Cardinality(S \ {x}) < Cardinality(S)
<1>1. IsFiniteSet(S)
    BY FS_Subset, DispatchAssumption
<1>2. Cardinality(S) \in Nat /\ Cardinality(S \ {x}) = Cardinality(S) - 1
    BY <1>1, FS_RemoveElement, FS_CardinalityType
<1>. QED  BY <1>2

LEMMA LaterStage ==
    ASSUME TypeInv, NEW w \in Workers,
           \/ CheckLease(w) \/ TakeLease(w) \/ Release(w) \/ Load(w) \/ PickAccounts(w)
           \/ AllCooling(w) \/ NoAccounts(w) \/ Finish(w) \/ Complete(w) \/ Unwind(w)
           \/ Requeue(w) \/ QuietHours(w) \/ SoftTimeout(w) \/ HardKill(w) \/ Crash(w)
    PROVE  pc'[w] = "idle" \/ (doomed'[w] = doomed[w] /\ Stage(pc'[w]) < Stage(pc[w]))
<1>. USE DEF TypeInv, TypeOK
<1>1. CASE EndRun(w)
    BY <1>1 DEF EndRun, Goto
<1>2. CASE CheckLease(w) \/ TakeLease(w) \/ Load(w)
    BY <1>1, <1>2 DEF CheckLease, TakeLease, Load, Goto, locals, Stage
<1>3. CASE PickAccounts(w) \/ AllCooling(w) \/ NoAccounts(w)
    BY <1>3 DEF PickAccounts, AllCooling, NoAccounts, Goto, locals, Stage
<1>4. CASE Finish(w) \/ Complete(w) \/ Unwind(w)
    BY <1>4 DEF Finish, Complete, Unwind, Goto, locals, Stage
<1>5. CASE SoftTimeout(w)
    <2>1. pc'[w] = "unwind" /\ doomed'[w] = doomed[w] /\ pc[w] \in Interruptible
        BY <1>5 DEF SoftTimeout, Goto
    <2>. QED  BY <2>1 DEF Interruptible, Stage
<1>6. CASE Release(w) \/ Requeue(w) \/ QuietHours(w) \/ HardKill(w) \/ Crash(w)
    BY <1>1, <1>6 DEF Release, Requeue, QuietHours, HardKill, Crash
<1>. QED  BY <1>2, <1>3, <1>4, <1>5, <1>6

LEMMA OwnNearer ==
    ASSUME TypeInv, NEW w \in Workers, pc[w] # "idle", Run(w) \/ Disturb(w)
    PROVE  Nearer(w)
<1>. USE DEF TypeInv, TypeOK
<1>1. CASE \/ CheckLease(w) \/ TakeLease(w) \/ Release(w) \/ Load(w) \/ PickAccounts(w)
           \/ AllCooling(w) \/ NoAccounts(w) \/ Finish(w) \/ Complete(w) \/ Unwind(w)
           \/ Requeue(w) \/ QuietHours(w) \/ SoftTimeout(w) \/ HardKill(w) \/ Crash(w)
    BY <1>1, LaterStage DEF Nearer
<1>2. CASE Swallow(w)
    BY <1>2 DEF Swallow, Nearer
<1>3. CASE NextAccount(w)
    <2>1. pc[w] = "account" /\ doomed'[w] = doomed[w]
        BY <1>3 DEF NextAccount
    <2>2. CASE pc'[w] \in {"finish", "release"}
        BY <2>1, <2>2 DEF Nearer, Stage
    <2>3. CASE pc'[w] \notin {"finish", "release"}
        <3>1. PICK a \in todo[w] : /\ todo' = [todo EXCEPT ![w] = @ \ {a}]
                                   /\ pc'[w] \in {"account", "claim"}
            BY <1>3, <2>1, <2>3 DEF NextAccount, Goto
        <3>2. todo'[w] = todo[w] \ {a} /\ todo[w] \subseteq Accounts
            BY <3>1
        <3>3. Cardinality(todo'[w]) < Cardinality(todo[w])
            BY <3>2, OneLess
        <3>. QED  BY <2>1, <3>1, <3>3 DEF Nearer, InLoop, Stage
    <2>. QED  BY <2>2, <2>3
<1>4. CASE Claim(w)
    <2>1. /\ pc[w] = "claim" /\ pc'[w] \in {"finish", "open"} /\ doomed'[w] = doomed[w]
          /\ todo'[w] = todo[w]
        BY <1>4 DEF Claim, Goto
    <2>. QED  BY <2>1 DEF Nearer, InLoop, Stage, Place
<1>5. CASE \/ ClientFails(w) \/ ClientReady(w) \/ LinkFails(w) \/ ConnectFails(w)
           \/ Connected(w) \/ EndBatch(w)
    <2>1. /\ \/ pc[w] = "open" /\ pc'[w] \in {"account", "connect"}
             \/ pc[w] = "connect" /\ pc'[w] \in {"account", "invite"}
             \/ pc[w] = "invite" /\ pc'[w] = "account"
          /\ doomed'[w] = doomed[w] /\ todo'[w] = todo[w]
        BY <1>5 DEF ClientFails, ClientReady, LinkFails, ConnectFails, Connected, EndBatch,
                    PutBatchBack, Abandon, Goto, locals
    <2>. QED  BY <2>1 DEF Nearer, InLoop, Stage, Place
<1>6. CASE Invite(w) \/ Record(w) \/ Count(w) \/ Cool(w)
    <2>1. /\ pc[w] \in {"invite", "record", "count", "cool"}
          /\ pc'[w] \in {"invite", "record", "count", "cool"}
          /\ doomed'[w] = doomed[w] /\ todo'[w] = todo[w]
        BY <1>6 DEF Invite, Record, Count, Cool, Goto
    <2>2. InBatch(w)
        <3>1. CASE Invite(w)
            <4>1. /\ pc[w] = "invite" /\ pc'[w] = "record" /\ slots[w] > 0
                  /\ hold'[w] = hold[w]
                BY <3>1 DEF Invite, Goto
            <4>. QED  BY <4>1 DEF InBatch, Turn
        <3>2. CASE Cool(w)
            <4>1. /\ pc[w] = "cool" /\ pc'[w] = "invite" /\ slots'[w] = 0
                  /\ hold'[w] = hold[w]
                BY <3>2 DEF Cool, Goto
            <4>. QED  BY <4>1 DEF InBatch, Turn
        <3>3. ASSUME hold' = [hold EXCEPT ![w] = @ \ {job[w].task}],
                     pc[w] \in {"record", "count"}
              PROVE  InBatch(w)
            <4>1. hold'[w] = hold[w] \ {job[w].task} /\ hold[w] \subseteq Tasks
                BY <3>3
            <4>2. job[w].task \in hold[w]
                BY <3>3 DEF JobInv
            <4>. QED  BY <4>1, <4>2, OneLess DEF InBatch
        <3>4. CASE Count(w)
            BY <3>3, <3>4 DEF Count
        <3>5. CASE Record(w)
            <4>1. CASE job[w].result \in {"flood", "skipped"}
                BY <3>3, <3>5, <4>1 DEF Record
            <4>2. CASE job[w].result \notin {"flood", "skipped"}
                <5>1. pc[w] = "record" /\ pc'[w] = "count" /\ hold'[w] = hold[w]
                    BY <3>5, <4>2 DEF Record, Goto
                <5>. QED  BY <5>1 DEF InBatch, Turn
            <4>. QED  BY <4>1, <4>2
        <3>. QED  BY <1>6, <3>1, <3>2, <3>4, <3>5
    <2>. QED  BY <2>1, <2>2 DEF Nearer, InLoop, Stage, Place
<1>7. ~Deliver(w)
    BY DEF Deliver
<1>. QED  BY <1>1, <1>2, <1>3, <1>4, <1>5, <1>6, <1>7 DEF Run, Disturb

\* A step of one run leaves every other where it is.
LEMMA RestsAside ==
    ASSUME TypeInv, NEW v \in Workers, NEW w \in Workers, v # w, Run(v) \/ Disturb(v)
    PROVE  Rests(w)
<1>. USE DEF TypeInv, TypeOK, Rests
<1>1. CASE EndRun(v)
    BY <1>1 DEF EndRun, Goto
<1>2. CASE Deliver(v) \/ CheckLease(v) \/ TakeLease(v) \/ Release(v) \/ Load(v)
    BY <1>1, <1>2 DEF Deliver, CheckLease, TakeLease, Release, Load, Goto, locals
<1>3. CASE PickAccounts(v) \/ AllCooling(v) \/ NoAccounts(v) \/ NextAccount(v) \/ Claim(v)
    BY <1>3 DEF PickAccounts, AllCooling, NoAccounts, NextAccount, Claim, Goto, locals
<1>4. CASE \/ ClientFails(v) \/ ClientReady(v) \/ LinkFails(v) \/ ConnectFails(v)
           \/ Connected(v) \/ EndBatch(v)
    BY <1>4 DEF ClientFails, ClientReady, LinkFails, ConnectFails, Connected, EndBatch,
                PutBatchBack, Abandon, Goto, locals
<1>5. CASE Invite(v) \/ Record(v) \/ Count(v) \/ Cool(v)
    BY <1>5 DEF Invite, Record, Count, Cool, Goto
<1>6. CASE Finish(v) \/ Complete(v) \/ Unwind(v) \/ Requeue(v)
    BY <1>1, <1>6 DEF Finish, Complete, Unwind, Requeue, Goto, locals
<1>7. CASE SoftTimeout(v) \/ Swallow(v)
    BY <1>7 DEF SoftTimeout, Swallow, Abandon, Goto
<1>8. CASE QuietHours(v) \/ HardKill(v) \/ Crash(v)
    BY <1>1, <1>8 DEF QuietHours, HardKill, Crash
<1>. QED  BY <1>2, <1>3, <1>4, <1>5, <1>6, <1>7, <1>8 DEF Run, Disturb

\* Every step of invite_campaign_dispatch brings the run nearer to its end, in
\* an order without infinite descent: it visits no account twice, and a task
\* of a batch only when a swallowed limit has interrupted the record of its
\* success.  No step of anybody throws it back.
THEOREM RunsApproach == Spec => [][Approach]_vars
<1>1. TypeInv /\ [Next]_vars => [Approach]_vars
    <2>. SUFFICES ASSUME TypeInv, [Next]_vars, NEW w \in Workers, pc[w] # "idle"
                  PROVE  /\ Run(w) \/ Disturb(w) => Nearer(w)
                         /\ Nearer(w) \/ Rests(w)
        BY DEF Approach
    <2>1. ASSUME Run(w) \/ Disturb(w)
          PROVE  Nearer(w)
        BY <2>1, OwnNearer
    <2>2. ASSUME NEW v \in Workers, v # w, Run(v) \/ Disturb(v)
          PROVE  Rests(w)
        BY <2>2, RestsAside
    <2>3. ASSUME (\E i \in Ids : Redeliver(i)) \/ Clock \/ User \/ UNCHANGED vars
          PROVE  Rests(w)
        <3>1. UNCHANGED runVars
            <4>1. CASE UNCHANGED vars
                BY <4>1 DEF vars
            <4>2. CASE (\E i \in Ids : Redeliver(i)) \/ Clock \/ User
                BY <4>2 DEF Redeliver, Clock, User, LeaseExpires, CleanupOrphans,
                       CheckCooldowns, TaskAges, HourPasses, CooldownEnds, Promote, Activate,
                       SetAccount, Start, Pause, Resume, Delete
            <4>. QED  BY <2>3, <4>1, <4>2
        <3>. QED  BY <3>1 DEF Rests, runVars, locals
    <2>. QED  BY <2>1, <2>2, <2>3 DEF Next
<1>. QED  BY <1>1, TypeInvariant, PTL DEF Spec

=============================================================================
