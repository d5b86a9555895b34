------------------------------ MODULE AuthFlow ------------------------------
(***************************************************************************)
(* Signing one Telegram account in: the API handlers that ask for a code   *)
(* and hand in codes and passwords, and the unified_auth_task that keeps   *)
(* one Telegram connection open and polls the TelegramAuthFlow row for     *)
(* what the handlers wrote there.                                          *)
(*                                                                         *)
(* Both sides use SQLAlchemy sessions that neither lock what they read nor *)
(* reload it: a commit writes a column only if its new value differs from  *)
(* the one the session remembers, and then over whatever is there by now   *)
(* (operator Written).  A handler is two steps, its reads and its commit;  *)
(* a step of the task is one poll, or one call to Telegram with the commit *)
(* of its outcome.                                                         *)
(***************************************************************************)
EXTENDS Integers, FiniteSets

CONSTANTS
    Workers,      \* worker processes
    Flows,        \* TelegramAuthFlow rows of the account
    Requests,     \* threads of the API
    None,
    MaxAttempts,  \* auth_flow_max_attempts
    MaxTyped,     \* bound: codes typed for one flow
    TimeLimited,  \* does the pool enforce the soft time limit (prefork)?
    Budget        \* how many faults of each kind a behaviour may contain

\* Worker crashes, redeliveries of a message, failed enqueues.
Faults == {"crash", "duplicate", "enqueue"}

ASSUME AuthAssumption ==
    /\ None \notin Workers \cup Flows \cup Requests
    /\ MaxAttempts \in Nat \ {0}
    /\ MaxTyped \in Nat
    /\ TimeLimited \in BOOLEAN
    /\ Budget \in [Faults -> Nat]

VARIABLES
    account,    \* TelegramAccount.status, "deleted" once the row is gone
    session,    \* session_encrypted is set
    state,      \* TelegramAuthFlow.state, "unborn" before and "gone" after the row
    attempts,   \* TelegramAuthFlow.attempts
    meta,       \* what meta_json holds of "code" and "password"
    stale,      \* flows whose expires_at is in the past
    queue,      \* copies of unified_auth_task(flow) the broker holds
    budget,     \* the faults still to come
    run,        \* the task each worker is running
    req,        \* the request each thread is serving
    typed,      \* history: codes accepted by confirm_code for each flow
    tried       \* history: sign_in calls of each flow

flowRows == <<state, attempts, meta, stale>>
dbVars   == <<account, session, flowRows>>
history  == <<typed, tried>>
vars     == <<dbVars, queue, budget, run, req, history>>

AccountStates == {"new", "code_sent", "password_required", "verified", "disconnected",
                  "error", "banned", "cooldown", "warming", "deleted"}
FlowStates == {"unborn", "init", "wait_code", "code_submitted", "wait_password",
               "password_submitted", "done", "expired", "failed", "gone"}
OpenStates == {"init", "wait_code", "code_submitted", "wait_password", "password_submitted"}

\* Where a run is: before send_code, polling for the code, in sign_in, polling
\* for the password, in check_password, and past its last commit.
Phases == {"send", "poll", "sign", "pwpoll", "check", "close"}

NoRun == [flow |-> None, phase |-> "idle", state |-> "unborn", account |-> "new",
          session |-> FALSE, tries |-> 0, spent |-> FALSE, twofa |-> FALSE]

NoReq == [flow |-> None, to |-> "idle", state |-> "unborn", account |-> "new",
          session |-> FALSE, meta |-> {}]

Init ==
    /\ account = "new"
    /\ session = FALSE
    /\ state = [f \in Flows |-> "unborn"]
    /\ attempts = [f \in Flows |-> 0]
    /\ meta = [f \in Flows |-> {}]
    /\ stale = {}
    /\ queue = [f \in Flows |-> 0]
    /\ budget = Budget
    /\ run = [w \in Workers |-> NoRun]
    /\ req = [r \in Requests |-> NoReq]
    /\ typed = [f \in Flows |-> 0]
    /\ tried = [f \in Flows |-> 0]

-----------------------------------------------------------------------------
(* Helpers.                                                                *)

Spend(f) == budget[f] > 0 /\ budget' = [budget EXCEPT ![f] = @ - 1]

\* What a column holds after a session that remembers seen has committed new.
Written(current, seen, new) == IF new = seen THEN current ELSE new

EndRun(w) == run' = [run EXCEPT ![w] = NoRun]

\* Run w is in one of the phases P and its rows still exist.
At(w, P) == run[w].phase \in P /\ state[run[w].flow] # "gone"

\* The columns of run w's flow and account after a commit that sets the flow
\* to s and the account to a.  The run goes on with phase p.
Commit(w, s, a, p) ==
    LET f == run[w].flow
    IN  /\ state' = [state EXCEPT ![f] = Written(@, run[w].state, s)]
        /\ account' = Written(account, run[w].account, a)
        /\ attempts' = IF run[w].phase = "sign"
                       THEN [attempts EXCEPT ![f] = run[w].tries] ELSE attempts
        /\ run' = [run EXCEPT ![w].phase = p, ![w].state = s, ![w].account = a]

\* The handler waiting in the poll loop can take what x stands for.
Submitted(w, s, x) == state[run[w].flow] = s /\ x \in meta[run[w].flow]

-----------------------------------------------------------------------------
(* unified_auth_task.                                                      *)

\* The message is taken and the two rows are loaded; nothing looks at the
\* state they are in.
Deliver(w, f) ==
    /\ run[w].phase = "idle"
    /\ queue[f] > 0
    /\ queue' = [queue EXCEPT ![f] = @ - 1]
    /\ run' = IF state[f] = "gone" THEN run
              ELSE [run EXCEPT ![w] = [NoRun EXCEPT !.flow = f, !.phase = "send",
                       !.state = state[f], !.account = account, !.session = session]]
    /\ UNCHANGED <<dbVars, budget, req, history>>

\* Mutant: a run that finds its flow beyond init resumes it as it is.
CodeSentResumed(w) ==
    /\ At(w, {"send"})
    /\ run' = [run EXCEPT ![w].phase = "poll"]
    /\ IF run[w].state = "init"
       THEN state' = [state EXCEPT ![run[w].flow] = "wait_code"]
       ELSE UNCHANGED state
    /\ UNCHANGED <<account, session, attempts, meta, stale, queue, budget, req, history>>

\* Mutant: the flow goes to the enum's code_sent, which nothing else handles.
CodeSentLegacy(w) ==
    /\ At(w, {"send"})
    /\ state' = [state EXCEPT ![run[w].flow] = "code_sent"]
    /\ run' = [run EXCEPT ![w].phase = "poll"]
    /\ UNCHANGED <<account, session, attempts, meta, stale, queue, budget, req, history>>

\* send_code answers.  meta_json is replaced by the new phone_code_hash, so a
\* code typed for an earlier one is gone.
CodeSent(w) ==
    /\ At(w, {"send"})
    /\ LET f == run[w].flow
       IN  /\ state' = [state EXCEPT ![f] = Written(@, run[w].state, "wait_code")]
           /\ account' = Written(account, run[w].account, "code_sent")
           /\ meta' = [meta EXCEPT ![f] = {}]
           /\ stale' = stale \ {f}
    /\ run' = [run EXCEPT ![w].phase = "poll", ![w].state = "wait_code",
                          ![w].account = "code_sent"]
    /\ UNCHANGED <<session, attempts, queue, budget, req, history>>

\* Mutant: only a flow that waits for a code times out.
PollTimeoutWaiting(w) ==
    /\ At(w, {"poll", "pwpoll"})
    /\ run[w].spent
    /\ state[run[w].flow] \in {"wait_code", "wait_password"}
    /\ Commit(w, "expired", "error", "close")
    /\ UNCHANGED <<session, meta, stale, queue, budget, req, history>>

\* 280 s without an answer, looked at before the row.
PollTimeout(w) ==
    /\ At(w, {"poll", "pwpoll"})
    /\ run[w].spent
    /\ Commit(w, "expired", "error", "close")
    /\ UNCHANGED <<session, meta, stale, queue, budget, req, history>>

\* The flow was expired by a newer request, or failed by a handler.
PollTerminated(w) ==
    /\ At(w, {"poll", "pwpoll"})
    /\ ~run[w].spent
    /\ state[run[w].flow] \in {"expired", "failed"}
    /\ run' = [run EXCEPT ![w].phase = "close"]
    /\ UNCHANGED <<dbVars, queue, budget, req, history>>

\* Mutant: the task relies on the handler's check of the attempts.
AllowedAny(n) == TRUE

Allowed(n) == n <= MaxAttempts

\* The code is picked up, the flow reloaded and the attempt counted.
PickUpCode(w) ==
    LET f == run[w].flow
        n == attempts[f] + 1
    IN  /\ At(w, {"poll"})
        /\ ~run[w].spent
        /\ Submitted(w, "code_submitted", "code")
        /\ \/ /\ Allowed(n)
              /\ run' = [run EXCEPT ![w].phase = "sign", ![w].state = state[f],
                                    ![w].tries = n]
              /\ tried' = [tried EXCEPT ![f] = @ + 1]
              /\ UNCHANGED <<state, account, attempts>>
           \/ /\ ~Allowed(n)
              /\ state' = [state EXCEPT ![f] = "failed"]
              /\ account' = Written(account, run[w].account, "error")
              /\ attempts' = [attempts EXCEPT ![f] = n]
              /\ run' = [run EXCEPT ![w].phase = "close"]
              /\ UNCHANGED tried
        /\ UNCHANGED <<session, meta, stale, queue, budget, req, typed>>

PickUpPassword(w) ==
    /\ At(w, {"pwpoll"})
    /\ ~run[w].spent
    /\ Submitted(w, "password_submitted", "password")
    /\ run' = [run EXCEPT ![w].phase = "check", ![w].state = "password_submitted"]
    /\ UNCHANGED <<dbVars, queue, budget, req, history>>

\* sign_in or check_password succeeds: session, account and flow in one commit.
SignedIn(w) ==
    /\ At(w, {"sign", "check"})
    /\ Commit(w, "done", "verified", "close")
    /\ session' = TRUE
    /\ UNCHANGED <<meta, stale, queue, budget, req, history>>

\* SessionPasswordNeeded
PasswordNeeded(w) ==
    LET f == run[w].flow
    IN  /\ At(w, {"sign"})
        /\ state' = [state EXCEPT ![f] = Written(@, run[w].state, "wait_password")]
        /\ account' = Written(account, run[w].account, "password_required")
        /\ attempts' = [attempts EXCEPT ![f] = run[w].tries]
        /\ stale' = stale \ {f}
        /\ run' = [run EXCEPT ![w].phase = "pwpoll", ![w].state = "wait_password",
                              ![w].account = "password_required",
                              ![w].spent = FALSE, ![w].twofa = TRUE]
        /\ UNCHANGED <<session, meta, queue, budget, req, history>>

\* PhoneCodeInvalid: back to polling, within the 280 s of the first code.
WrongCode(w) ==
    /\ At(w, {"sign"})
    /\ Commit(w, "wait_code", run[w].account, "poll")
    /\ UNCHANGED <<session, meta, stale, queue, budget, req, history>>

\* PASSWORD_HASH_INVALID: the flow waits again, the task returns.
WrongPassword(w) ==
    /\ At(w, {"check"})
    /\ Commit(w, "wait_password", run[w].account, "close")
    /\ UNCHANGED <<session, meta, stale, queue, budget, req, history>>

\* PhoneCodeExpired, and the exceptions of the outer try: the client, the
\* network, FloodWait, a ban.
Fails(w) ==
    /\ At(w, {"send", "sign", "check"})
    /\ \/ run[w].phase = "sign" /\ Commit(w, "expired", "error", "close")
       \/ \E a \in {"error", "cooldown", "banned"} : Commit(w, "failed", a, "close")
    /\ UNCHANGED <<session, meta, stale, queue, budget, req, history>>

\* SessionRevoked, AuthKeyUnregistered
Revoked(w) ==
    /\ At(w, {"send", "sign", "check"})
    /\ Commit(w, "failed", "error", "close")
    /\ session' = Written(session, run[w].session, FALSE)
    /\ UNCHANGED <<meta, stale, queue, budget, req, history>>

\* The poll finds no row, or the next commit updates none (StaleDataError).
RowsGone(w) ==
    /\ run[w].phase \in Phases \ {"close"}
    /\ state[run[w].flow] = "gone"
    /\ EndRun(w)
    /\ UNCHANGED <<dbVars, queue, budget, req, history>>

\* The client is disconnected and the message acknowledged.
Close(w) ==
    /\ run[w].phase = "close"
    /\ EndRun(w)
    /\ UNCHANGED <<dbVars, queue, budget, req, history>>

\* SoftTimeLimitExceeded, 660 s: only a run that came to the password gets
\* that far.  A new session overwrites account and flow.
SoftTimeout(w) ==
    /\ TimeLimited
    /\ run[w].twofa
    /\ LET f == run[w].flow
       IN  IF state[f] = "gone" THEN UNCHANGED <<account, state>>
           ELSE account' = "error" /\ state' = [state EXCEPT ![f] = "failed"]
    /\ EndRun(w)
    /\ UNCHANGED <<session, attempts, meta, stale, queue, budget, req, history>>

\* The process dies: acks_late and reject_on_worker_lost put the message back.
Crash(w) ==
    /\ run[w].phase # "idle"
    /\ Spend("crash")
    /\ queue' = [queue EXCEPT ![run[w].flow] = @ + 1]
    /\ EndRun(w)
    /\ UNCHANGED <<dbVars, req, history>>

\* A message prefetched long ago is delivered to a second worker.
Redeliver(f) ==
    /\ queue[f] > 0 \/ \E w \in Workers : run[w].flow = f
    /\ Spend("duplicate")
    /\ queue' = [queue EXCEPT ![f] = @ + 1]
    /\ UNCHANGED <<dbVars, run, req, history>>

-----------------------------------------------------------------------------
(* Time, and the periodic task that also changes the account.              *)

\* max_poll_seconds have passed since this run began to poll.
Deadline(w) ==
    /\ run[w].phase \in {"poll", "sign", "pwpoll"}
    /\ ~run[w].spent
    /\ run' = [run EXCEPT ![w].spent = TRUE]
    /\ UNCHANGED <<dbVars, queue, budget, req, history>>

\* auth_flow_ttl_seconds (300) after the run that set it began to poll.
FlowExpires(f) ==
    /\ f \notin stale
    /\ state[f] \in {"wait_code", "code_submitted", "wait_password"}
    /\ \A w \in Workers : run[w].flow = f /\ run[w].phase \in {"poll", "sign", "pwpoll"}
                              => run[w].spent
    /\ stale' = stale \cup {f}
    /\ UNCHANGED <<account, session, state, attempts, meta, queue, budget, run, req,
                   history>>

\* check_tg_cooldowns, whatever put the account on cooldown (warming_day < 15).
CheckCooldowns ==
    /\ account = "cooldown"
    /\ account' = "warming"
    /\ UNCHANGED <<session, flowRows, queue, budget, run, req, history>>

-----------------------------------------------------------------------------
(* The API.                                                                *)

\* The reads of a handler that is going to write to.
Begin(r, f, to) ==
    /\ req[r] = NoReq
    /\ account # "deleted"
    /\ req' = [req EXCEPT ![r] =
          [flow |-> f, to |-> to, account |-> account, session |-> session,
           state |-> IF f = None THEN "unborn" ELSE state[f],
           meta |-> IF f = None THEN {} ELSE meta[f]]]
    /\ UNCHANGED <<dbVars, queue, budget, run, history>>

SendStates == {"new", "code_sent", "error", "disconnected"}

AskCode(r) == account \in SendStates /\ Begin(r, None, "init")

\* One transaction expires the open flows and inserts the new one; then the
\* task is sent, or cannot be (502, 504).
SendCode(r) ==
    /\ req[r].to = "init"
    /\ req' = [req EXCEPT ![r] = NoReq]
    /\ \/ account = "deleted" /\ UNCHANGED <<state, queue, budget>>
       \/ /\ account # "deleted"
          /\ \E f \in Flows :
               /\ state[f] = "unborn"
               /\ state' = [g \in Flows |-> IF g = f THEN "init"
                                ELSE IF state[g] \in OpenStates THEN "expired" ELSE state[g]]
               /\ \/ queue' = [queue EXCEPT ![f] = @ + 1] /\ UNCHANGED budget
                  \/ Spend("enqueue") /\ UNCHANGED queue
    /\ UNCHANGED <<account, session, attempts, meta, stale, run, history>>

\* What a handler that hands something in makes of the flow.
Verdict(f, to) ==
    IF f \in stale THEN "expired" ELSE IF attempts[f] >= MaxAttempts THEN "failed" ELSE to

ConfirmCode(r, f) ==
    /\ state[f] \in {"wait_code", "code_submitted"}
    /\ Begin(r, f, Verdict(f, "code_submitted"))

ConfirmPassword(r, f) ==
    /\ state[f] = "wait_password"
    /\ Begin(r, f, Verdict(f, "password_submitted"))

\* get_auth_flow_status sees a flow in init for more than 60 s.
FailInit(r, f) == state[f] = "init" /\ Begin(r, f, "failed")

Disconnect(r) == Begin(r, None, "disconnected")

\* The commit of a handler that changes the flow f.
SaveFlow(r) ==
    LET q == req[r]
        f == q.flow
        x == IF q.to = "code_submitted" THEN {"code"}
             ELSE IF q.to = "password_submitted" THEN {"password"} ELSE {}
    IN  /\ f # None
        /\ req' = [req EXCEPT ![r] = NoReq]
        /\ IF state[f] = "gone" THEN UNCHANGED <<state, meta, account, typed>>
           ELSE /\ state' = [state EXCEPT ![f] = Written(@, q.state, q.to)]
                /\ \/ meta' = [meta EXCEPT ![f] = IF x = {} THEN @ ELSE q.meta \cup x]
                   \/ x \subseteq q.meta /\ UNCHANGED meta
                /\ account' = IF q.state = "init" THEN Written(account, q.account, "error")
                                                  ELSE account
                /\ IF "code" \in x
                   THEN typed[f] < MaxTyped /\ typed' = [typed EXCEPT ![f] = @ + 1]
                   ELSE UNCHANGED typed
        /\ UNCHANGED <<session, attempts, stale, queue, budget, run, tried>>

\* The commit of disconnect_tg_account.
SaveDisconnect(r) ==
    /\ req[r].to = "disconnected"
    /\ req' = [req EXCEPT ![r] = NoReq]
    /\ IF account = "deleted" THEN UNCHANGED <<account, session>>
       ELSE /\ account' = Written(account, req[r].account, "disconnected")
            /\ session' = Written(session, req[r].session, FALSE)
    /\ UNCHANGED <<flowRows, queue, budget, run, history>>

Delete ==
    /\ account # "deleted"
    /\ account' = "deleted"
    /\ session' = FALSE
    /\ state' = [f \in Flows |-> IF state[f] = "unborn" THEN "unborn" ELSE "gone"]
    /\ UNCHANGED <<attempts, meta, stale, queue, budget, run, req, history>>

-----------------------------------------------------------------------------
Step(w) ==
    \/ CodeSent(w) \/ PollTimeout(w) \/ PollTerminated(w)
    \/ PickUpCode(w) \/ PickUpPassword(w)
    \/ SignedIn(w) \/ PasswordNeeded(w) \/ WrongCode(w) \/ WrongPassword(w)
    \/ Fails(w) \/ Revoked(w) \/ RowsGone(w) \/ Close(w)

Handler(r) ==
    \/ AskCode(r) \/ SendCode(r) \/ Disconnect(r) \/ SaveFlow(r) \/ SaveDisconnect(r)
    \/ \E f \in Flows : ConfirmCode(r, f) \/ ConfirmPassword(r, f) \/ FailInit(r, f)

Next ==
    \/ \E w \in Workers : Step(w) \/ Deadline(w) \/ SoftTimeout(w) \/ Crash(w)
    \/ \E f \in Flows : Redeliver(f) \/ FlowExpires(f) \/ \E w \in Workers : Deliver(w, f)
    \/ \E r \in Requests : Handler(r)
    \/ CheckCooldowns
    \/ Delete

Spec == Init /\ [][Next]_vars

\* Every call to Telegram ends by its own timeout, a poll is repeated every
\* 3 s, and time passes.  Users owe nothing.
Fairness == \A w \in Workers : WF_vars(Step(w)) /\ WF_vars(Deadline(w))

FairSpec == Spec /\ Fairness

-----------------------------------------------------------------------------
(* Properties.                                                             *)

Runs == [flow: Flows, phase: Phases, state: FlowStates, account: AccountStates,
         session: BOOLEAN, tries: Nat, spent: BOOLEAN, twofa: BOOLEAN]
FlowReqs == [flow: Flows, to: {"code_submitted", "password_submitted", "expired", "failed"},
             state: FlowStates, account: AccountStates, session: BOOLEAN,
             meta: SUBSET {"code", "password"}]
AccountReqs == [flow: {None}, to: {"init", "disconnected"},
                state: FlowStates, account: AccountStates, session: BOOLEAN,
                meta: SUBSET {"code", "password"}]

\* Every variable has its type (models/telegram_auth_flow.py), and no request
\* that opens a flow or disconnects names one.
TypeOK ==
    /\ account \in AccountStates
    /\ session \in BOOLEAN
    /\ state \in [Flows -> FlowStates]
    /\ attempts \in [Flows -> Nat]
    /\ meta \in [Flows -> SUBSET {"code", "password"}]
    /\ stale \in SUBSET Flows
    /\ queue \in [Flows -> Nat]
    /\ budget \in [Faults -> Nat]
    /\ run \in [Workers -> Runs \cup {NoRun}]
    /\ req \in [Requests -> FlowReqs \cup AccountReqs \cup {NoReq}]
    /\ typed \in [Flows -> Nat]
    /\ tried \in [Flows -> Nat]

Crashes == Budget["crash"] - budget["crash"]

\* auth_flow_max_attempts bounds the sign_in calls of a flow, however requests
\* overlap; each crash costs at most one call that is not counted.
AttemptsLimit == \A f \in Flows : tried[f] <= MaxAttempts + Crashes

\* A code is tried at most once: neither a run restarted after a crash nor an
\* overlapping request makes the task sign in again with a code already used.
NoReplay == \A f \in Flows : tried[f] <= typed[f]

\* "Write password to flow for the running unified_auth_task to pick up": a
\* flow that still accepts a password has a run that will take it.
PasswordAwaited ==
    \A f \in Flows :
        state[f] = "wait_password" /\ f \notin stale =>
            \E w \in Workers : run[w].flow = f /\ run[w].phase = "pwpoll"

\* "Account must have an active session": an account that warms up has a
\* session to do it with.
WarmingHasSession == account = "warming" => session

\* "Sending a new code should expire any active flows": an expired flow stays
\* expired, so that one flow at most asks the user for a code.
ExpiredIsFinal ==
    [][\A f \in Flows : state[f] = "expired" => state'[f] \in {"expired", "gone"}]_vars

\* No authentication holds a worker for ever, whatever the user does or does
\* not submit, also without the pool's time limits.
RunsEnd == \A w \in Workers : run[w].phase # "idle" ~> run[w].phase = "idle"
=============================================================================
