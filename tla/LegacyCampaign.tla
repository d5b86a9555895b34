--------------------------- MODULE LegacyCampaign ---------------------------
(***************************************************************************)
(* A campaign of the older kind: its contacts are invited one by one by    *)
(* the task campaign_dispatch, through one Telegram account after the      *)
(* other, while the owner starts, stops, edits and deletes it.             *)
(***************************************************************************)
EXTENDS Integers, FiniteSets, FiniteSetsExt

CONSTANTS
    Contacts,    \* Contact.id of the campaign's project (and source)
    Accounts,    \* TelegramAccount.id of the owner
    Workers,     \* worker processes
    Clients,     \* requests to start the campaign that overlap
    MaxInvites,  \* max_invites_day of the owner's tariff
    Operations,  \* bound: how many operations the owner performs
    MaxFaults    \* bound: how many kinds of fault strike, each once

\* Worker crashes, messages delivered twice, the soft and the hard time
\* limit, an answer of Telegram that is lost, a counter Redis does not take,
\* a broker that takes no message.
Faults == {"crash", "duplicate", "soft", "hard", "lost", "redis", "broker"}

ASSUME CampaignAssumption ==
    /\ Contacts \subseteq Nat /\ IsFiniteSet(Contacts)
    /\ Accounts \subseteq Nat /\ IsFiniteSet(Accounts)
    /\ IsFiniteSet(Workers)
    /\ MaxInvites \in Nat
    /\ Operations \in Nat
    /\ MaxFaults \in Nat

VARIABLES
    status,   \* Campaign.status, or "gone"
    blocked,  \* contacts with blocked set
    acc,      \* TelegramAccount.status of each account
    logged,   \* whether a CampaignDispatchLog row refers to the campaign
    members,  \* contacts Telegram has added to the target
    counter,  \* the owner's invites of the day, in Redis
    queue,    \* how many campaign_dispatch messages the broker holds
    run,      \* the dispatch each worker is running
    req,      \* where each request to start the campaign is
    ended,    \* a dispatch has ended, or the campaign's status has been edited
    ops,      \* owner operations still to come
    faults    \* the kinds of fault that have struck

data == <<status, blocked, acc, logged>>
tele == <<members, counter>>
ctrl == <<queue, req, ended, ops, faults>>
vars == <<data, tele, run, ctrl>>

Phases == {"idle", "account", "contact", "landed"}

NoRun == [phase |-> "idle", list |-> {}, accs |-> {}, left |-> {}, success |-> 0]

\* The campaign has been created, with a target (create_campaign).
Init ==
    /\ status = "draft"
    /\ blocked = {}
    /\ acc = [a \in Accounts |-> "active"]
    /\ logged = FALSE
    /\ members = {}
    /\ counter = 0
    /\ queue = 0
    /\ run = [w \in Workers |-> NoRun]
    /\ req = [c \in Clients |-> "idle"]
    /\ ended = FALSE
    /\ ops = Operations
    /\ faults = {}

-----------------------------------------------------------------------------
(* Helpers.                                                                *)

Strikes(f) ==
    /\ f \notin faults
    /\ Cardinality(faults) < MaxFaults
    /\ faults' = faults \cup {f}

At(w, phase) == run[w].phase = phase

Go(w, phase) == run' = [run EXCEPT ![w].phase = phase]

\* The account in use, and the contact next in order.
Using(w)   == Min(run[w].accs)
Calling(w) == Min(run[w].left)

\* The account in use is done with; the next one starts over with every contact.
LeavesAccount(w) ==
    run' = [run EXCEPT ![w].accs = @ \ {Using(w)}, ![w].left = {}, ![w].phase = "account"]

LeavesContact(w) ==
    run' = [run EXCEPT ![w].left = @ \ {Calling(w)}, ![w].phase = "contact"]

EndRun(w) ==
    /\ run' = [run EXCEPT ![w] = NoRun]
    /\ ended' = TRUE

\* success >= total_contacts
Complete(w) == run[w].success >= Cardinality(run[w].list)

\* _log_dispatch_error: no row without the campaign (IntegrityError).
Logs == logged' = (status # "gone")

-----------------------------------------------------------------------------
(* campaign_dispatch, _run_campaign_dispatch.                              *)

Take == queue > 0 /\ queue' = queue - 1

\* Not active, or gone: the message is dropped.
DispatchDrops(w) ==
    /\ At(w, "idle")
    /\ Take
    /\ status # "active"
    /\ UNCHANGED <<data, tele, run, req, ended, ops, faults>>

\* Phase 1: the ids of the contacts and of the accounts are read once.
DispatchLoads(w) ==
    LET list == Contacts \ blocked
        accs == {a \in Accounts : acc[a] = "active"}
    IN  /\ At(w, "idle")
        /\ Take
        /\ status = "active"
        /\ IF list = {} \/ accs = {}
           THEN EndRun(w)
           ELSE /\ run' = [run EXCEPT ![w] = [phase |-> "account", list |-> list,
                                              accs |-> accs, left |-> {}, success |-> 0]]
                /\ UNCHANGED ended
        /\ UNCHANGED <<data, tele, req, ops, faults>>

\* The target is not there any more.
DispatchLacksTarget(w) ==
    /\ At(w, "idle")
    /\ Take
    /\ status = "active"
    /\ Logs
    /\ EndRun(w)
    /\ UNCHANGED <<status, blocked, acc, tele, req, ops, faults>>

\* The account is used if it is still active and its client can be made.
AccountOpens(w) ==
    /\ At(w, "account")
    /\ run[w].accs # {}
    /\ ~Complete(w)
    /\ acc[Using(w)] = "active"
    /\ run' = [run EXCEPT ![w].left = run[w].list, ![w].phase = "contact"]
    /\ UNCHANGED <<data, tele, ctrl>>

AccountSkipped(w) ==
    /\ At(w, "account")
    /\ run[w].accs # {}
    /\ ~Complete(w)
    /\ acc[Using(w)] # "active"
    /\ LeavesAccount(w)
    /\ UNCHANGED <<data, tele, ctrl>>

\* Clients are disabled; the client cannot be made; it cannot connect, or
\* breaks between two contacts.
AccountFails(w) ==
    /\ \/ At(w, "contact") /\ UNCHANGED acc
       \/ /\ At(w, "account")
          /\ run[w].accs # {}
          /\ ~Complete(w)
          /\ acc[Using(w)] = "active"
          /\ acc' \in {acc, [acc EXCEPT ![Using(w)] = "error"]}
    /\ Logs
    /\ LeavesAccount(w)
    /\ UNCHANGED <<status, blocked, tele, ctrl>>

AccountUsedUp(w) ==
    /\ At(w, "contact")
    /\ run[w].left = {} \/ Complete(w) \/ status = "gone"
    /\ LeavesAccount(w)
    /\ UNCHANGED <<data, tele, ctrl>>

\* The next contact: the campaign is there, its status is not looked at.
Invites(w) ==
    /\ At(w, "contact")
    /\ run[w].left # {}
    /\ ~Complete(w)
    /\ status # "gone"

\* add_chat_members: Telegram adds a contact that is not a member yet.
InviteLands(w) ==
    /\ Invites(w)
    /\ Calling(w) \notin members
    /\ members' = members \cup {Calling(w)}
    /\ Go(w, "landed")
    /\ UNCHANGED <<data, counter, ctrl>>

\* increment_daily_invites (INCR); its errors are only logged.
Increment ==
    \/ counter' = counter + 1 /\ UNCHANGED faults
    \/ UNCHANGED counter /\ Strikes("redis")

\* Mutant: an invite is added to the day's usage twice.
InviteCountsTwice(w) ==
    /\ At(w, "landed")
    /\ status # "gone"
    /\ counter' = counter + 2
    /\ run' = [run EXCEPT ![w].success = @ + 1, ![w].left = @ \ {Calling(w)},
                          ![w].phase = "contact"]
    /\ UNCHANGED <<data, members, ctrl>>

\* success and progress are committed, and the invite is counted.
InviteCounts(w) ==
    /\ At(w, "landed")
    /\ status # "gone"
    /\ Increment
    /\ run' = [run EXCEPT ![w].success = @ + 1, ![w].left = @ \ {Calling(w)},
                          ![w].phase = "contact"]
    /\ UNCHANGED <<data, members, queue, req, ended, ops>>

\* A campaign deleted meanwhile makes that commit fail, and ends the use of
\* the account.
InviteOrphaned(w) ==
    /\ At(w, "landed")
    /\ status = "gone"
    /\ run' = [run EXCEPT ![w].success = @ + 1, ![w].accs = @ \ {Using(w)}, ![w].left = {},
                          ![w].phase = "account"]
    /\ UNCHANGED <<data, tele, ctrl>>

\* Mutant: the account is tried again after a FloodWait.
InviteFloodedRetried(w) ==
    /\ Invites(w)
    /\ Logs
    /\ run' = [run EXCEPT ![w].left = {}, ![w].phase = "account"]
    /\ UNCHANGED <<status, blocked, acc, tele, ctrl>>

\* FloodWait: the account is put on cooldown and left.
InviteFlooded(w) ==
    /\ Invites(w)
    /\ acc' = [acc EXCEPT ![Using(w)] = "cooldown"]
    /\ Logs
    /\ LeavesAccount(w)
    /\ UNCHANGED <<status, blocked, tele, ctrl>>

\* Mutant: a contact that could not be added counts as done.
InviteRefusedCounts(w) ==
    /\ Invites(w)
    /\ Logs
    /\ run' = [run EXCEPT ![w].left = @ \ {Calling(w)}, ![w].success = @ + 1]
    /\ UNCHANGED <<status, blocked, acc, tele, ctrl>>

\* UserBlocked; UserPrivacyRestricted, PeerIdInvalid, UserAlreadyParticipant
\* and any other exception are only logged.
InviteRefused(w) ==
    /\ Invites(w)
    /\ \/ Calling(w) \notin members /\ blocked' = blocked \cup {Calling(w)}
       \/ UNCHANGED blocked
    /\ Logs
    /\ LeavesContact(w)
    /\ UNCHANGED <<status, acc, tele, ctrl>>

\* The answer does not come within 30 s, but Telegram has added the contact.
AnswerLost(w) ==
    /\ At(w, "landed")
    /\ Strikes("lost")
    /\ Logs
    /\ LeavesContact(w)
    /\ UNCHANGED <<status, blocked, acc, tele, queue, req, ended, ops>>

\* Phase 3: all invited is completed, whatever the status has become.
DispatchEnds(w) ==
    /\ At(w, "account")
    /\ run[w].accs = {} \/ Complete(w)
    /\ status' = IF Complete(w) /\ status # "gone" THEN "completed" ELSE status
    /\ EndRun(w)
    /\ UNCHANGED <<blocked, acc, logged, tele, queue, req, ops, faults>>

\* SoftTimeLimitExceeded reaches the task ...
SoftLimit(w) ==
    /\ ~At(w, "idle")
    /\ Strikes("soft")
    /\ status' = IF status = "active" THEN "paused" ELSE status
    /\ EndRun(w)
    /\ UNCHANGED <<blocked, acc, logged, tele, queue, req, ops>>

\* ... or is taken for an error of the contact or the account, and the hard
\* limit kills the process later; the message counts as done.
HardLimit(w) ==
    /\ ~At(w, "idle")
    /\ Strikes("hard")
    /\ EndRun(w)
    /\ UNCHANGED <<data, tele, queue, req, ops>>

\* Mutant: the message of a dead worker is acknowledged, a second time.
CrashForgets(w) ==
    /\ ~At(w, "idle")
    /\ Strikes("crash")
    /\ queue' = queue - 1
    /\ run' = [run EXCEPT ![w] = NoRun]
    /\ UNCHANGED <<data, tele, req, ended, ops>>

\* The worker process dies; its message goes back to the queue.
Crash(w) ==
    /\ ~At(w, "idle")
    /\ Strikes("crash")
    /\ queue' = queue + 1
    /\ run' = [run EXCEPT ![w] = NoRun]
    /\ UNCHANGED <<data, tele, req, ended, ops>>

\* Unacknowledged for the visibility timeout (3600 s), the message is
\* delivered again while the dispatch goes on (up to 3900 s).
Redeliver(w) ==
    /\ ~At(w, "idle")
    /\ Strikes("duplicate")
    /\ queue' = queue + 1
    /\ UNCHANGED <<data, tele, run, req, ended, ops>>

-----------------------------------------------------------------------------
(* The API.                                                                *)

Ask == ops > 0 /\ ops' = ops - 1

\* get_daily_invites, which is 0 if Redis fails, against get_tariff_limits.
BelowLimit == \E used \in {counter, 0} : used < MaxInvites

\* start_campaign: only a draft is started, below the daily limit.
StartReads(c) ==
    /\ Ask
    /\ req[c] = "idle"
    /\ BelowLimit
    /\ status = "draft"
    /\ req' = [req EXCEPT ![c] = "read"]
    /\ UNCHANGED <<data, tele, run, queue, ended, faults>>

\* The status is written over whatever it is by now.
StartCommits(c) ==
    /\ req[c] = "read"
    /\ IF status = "gone"
       THEN req' = [req EXCEPT ![c] = "idle"] /\ UNCHANGED status
       ELSE req' = [req EXCEPT ![c] = "active"] /\ status' = "active"
    /\ UNCHANGED <<blocked, acc, logged, tele, run, queue, ended, ops, faults>>

StartEnqueues(c) ==
    /\ req[c] = "active"
    /\ \/ queue' = queue + 1 /\ req' = [req EXCEPT ![c] = "idle"] /\ UNCHANGED faults
       \/ UNCHANGED queue /\ req' = [req EXCEPT ![c] = "failed"] /\ Strikes("broker")
    /\ UNCHANGED <<data, tele, run, ended, ops>>

\* Mutant: the status is not taken back.
StartKeepsActive(c) ==
    /\ req[c] = "failed"
    /\ req' = [req EXCEPT ![c] = "idle"]
    /\ UNCHANGED <<data, tele, run, queue, ended, ops, faults>>

\* No message, no start: back to draft, whatever the status is by now.  A
\* rollback that fails leaves the campaign active without a worker.
StartRollsBack(c) ==
    /\ req[c] = "failed"
    /\ req' = [req EXCEPT ![c] = "idle"]
    /\ \/ /\ status' = IF status = "gone" THEN "gone" ELSE "draft"
          /\ UNCHANGED ended
       \/ /\ UNCHANGED status
          /\ ended' = TRUE
    /\ UNCHANGED <<blocked, acc, logged, tele, run, queue, ops, faults>>

\* stop_campaign: from every status.
Stop ==
    /\ Ask
    /\ status # "gone"
    /\ status' = "paused"
    /\ UNCHANGED <<blocked, acc, logged, tele, run, queue, req, ended, faults>>

\* update_campaign: the owner sets any status, and nothing is dispatched.
Patch ==
    /\ Ask
    /\ status # "gone"
    /\ status' \in {"draft", "active", "paused", "completed"}
    /\ ended' = TRUE
    /\ UNCHANGED <<blocked, acc, logged, tele, run, queue, req, faults>>

\* delete_campaign: a row of the dispatch log keeps the campaign.
Delete ==
    /\ Ask
    /\ ~logged
    /\ status # "gone"
    /\ status' = "gone"
    /\ UNCHANGED <<blocked, acc, logged, tele, run, queue, req, ended, faults>>

\* The account is taken out of cooldown or error, or signed in again
\* (modules AccountWork and AuthFlow).
AccountReturns(a) ==
    /\ Ask
    /\ acc[a] # "active"
    /\ acc' = [acc EXCEPT ![a] = "active"]
    /\ UNCHANGED <<status, blocked, logged, tele, run, queue, req, ended, faults>>

-----------------------------------------------------------------------------
Dispatches(w) ==
    \/ DispatchDrops(w) \/ DispatchLoads(w) \/ DispatchLacksTarget(w)

Step(w) ==
    \/ AccountOpens(w) \/ AccountSkipped(w) \/ AccountFails(w) \/ AccountUsedUp(w)
    \/ InviteLands(w) \/ InviteCounts(w) \/ InviteOrphaned(w) \/ InviteFlooded(w) \/ InviteRefused(w) \/ DispatchEnds(w)

Fails(w) == AnswerLost(w) \/ SoftLimit(w) \/ HardLimit(w) \/ Crash(w) \/ Redeliver(w)

StartGoesOn(c) == StartCommits(c) \/ StartEnqueues(c) \/ StartRollsBack(c)

Next ==
    \/ \E w \in Workers : Dispatches(w) \/ Step(w) \/ Fails(w)
    \/ \E c \in Clients : StartReads(c) \/ StartGoesOn(c)
    \/ Stop \/ Patch \/ Delete
    \/ \E a \in Accounts : AccountReturns(a)

Spec == Init /\ [][Next]_vars

\* Workers take messages and go on with what they have begun, and so do the
\* handlers.
Fairness ==
    /\ \A w \in Workers : WF_vars(Dispatches(w)) /\ WF_vars(Step(w))
    /\ \A c \in Clients : WF_vars(StartGoesOn(c))

FairSpec == Spec /\ Fairness

-----------------------------------------------------------------------------
(* Properties.                                                             *)

\* Every variable keeps its shape.
TypeOK ==
    /\ status \in {"draft", "active", "paused", "completed", "gone"}
    /\ blocked \subseteq Contacts
    /\ acc \in [Accounts -> {"active", "cooldown", "error"}]
    /\ logged \in BOOLEAN
    /\ members \subseteq Contacts
    /\ counter \in Nat
    /\ queue \in Nat
    /\ run \in [Workers -> [phase : Phases, list : SUBSET Contacts, accs : SUBSET Accounts,
                            left : SUBSET Contacts, success : Nat]]
    /\ req \in [Clients -> {"idle", "read", "active", "failed"}]
    /\ ended \in BOOLEAN
    /\ ops \in 0..Operations
    /\ faults \subseteq Faults

\* The start handler commits before it sends and takes the status back if it
\* cannot send: whatever overlapping starts, stops and deletions do, an active
\* campaign has a request or a message or a dispatch at work on it, until a
\* dispatch has ended short of its contacts (after which nothing resumes it),
\* its status was edited by hand or the rollback failed as well.
ActiveServed ==
    status = "active" /\ ~ended =>
        \/ queue > 0
        \/ \E w \in Workers : ~At(w, "idle")
        \/ \E c \in Clients : req[c] \in {"active", "failed"}

\* The daily usage the tariff limit is compared with never shows an invite
\* that was not made, and misses only those of dispatches that have not yet
\* counted them or were cut off by a fault in between.
UsageHonest ==
    LET uncounted == Cardinality({w \in Workers : At(w, "landed")})
    IN  /\ counter <= Cardinality(members)
        /\ faults \cap {"crash", "soft", "hard", "lost", "redis"} = {} /\ status # "gone" =>
              Cardinality(members) = counter + uncounted

\* A dispatch completes its campaign only when every contact it read has been
\* invited, however many accounts and parallel dispatches it took, although
\* each account starts the contacts over and only a number is compared.
CompletedIsReal ==
    [][status' = "completed" /\ ops' = ops =>
          status = "completed" \/ \E w \in Workers : At(w, "account") /\ run[w].list \subseteq members]_vars

\* Every dispatch ends, whatever the accounts run into.
DispatchesEnd == \A w \in Workers : (~At(w, "idle")) ~> At(w, "idle")

-----------------------------------------------------------------------------
(* What the docs say, and the code does not do.                            *)

\* A campaign that is not active any more makes no further invite.
StopIsHeeded ==
    [][\A w \in Workers :
          At(w, "contact") /\ run'[w].phase = "landed" => status = "active"]_vars
=============================================================================
