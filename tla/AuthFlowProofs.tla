--------------------------- MODULE AuthFlowProofs ---------------------------
(***************************************************************************)
(* What holds of AuthFlow for any number of workers, flows and concurrent  *)
(* requests and any number of crashes.  The bounds on sign_in calls assume *)
(* that the broker delivers no message twice.                              *)
(***************************************************************************)
EXTENDS AuthFlow, TLAPS

-----------------------------------------------------------------------------
(* Types.                                                                  *)

\* A busy worker's record is a run, and it stays one under an update that
\* keeps the types of the fields.
LEMMA BusyIsRun ==
    ASSUME TypeOK, NEW w \in Workers, run[w].phase # "idle"
    PROVE  run[w] \in Runs /\ run[w].flow \in Flows /\ run[w].flow # None
BY AuthAssumption DEF TypeOK, NoRun, Runs

LEMMA FlowReqIsTyped ==
    ASSUME TypeOK, NEW r \in Requests, req[r].flow # None
    PROVE  req[r] \in FlowReqs
BY DEF TypeOK, NoReq, FlowReqs, AccountReqs

\* The two columns written by Commit, and the run, keep their types.
LEMMA CommitTypes ==
    ASSUME TypeOK, NEW w \in Workers, run[w].phase # "idle",
           NEW s \in FlowStates, NEW a \in AccountStates, NEW p \in Phases,
           Commit(w, s, a, p)
    PROVE  /\ state' \in [Flows -> FlowStates]
           /\ account' \in AccountStates
           /\ attempts' \in [Flows -> Nat]
           /\ run' \in [Workers -> Runs \cup {NoRun}]
<1>1. run[w] \in Runs /\ run[w].flow \in Flows
  BY BusyIsRun
<1>2. [run[w] EXCEPT !.phase = p, !.state = s, !.account = a] \in Runs
  BY <1>1 DEF Runs
<1>3. run' \in [Workers -> Runs \cup {NoRun}]
  BY <1>2 DEF TypeOK, Commit
<1>4. attempts' \in [Flows -> Nat]
  BY <1>1 DEF TypeOK, Commit, Runs
<1>5. account' \in AccountStates
  BY DEF TypeOK, Commit, Written
<1>6. state' \in [Flows -> FlowStates]
  BY <1>1 DEF TypeOK, Commit, Written
<1> QED BY <1>3, <1>4, <1>5, <1>6

LEMMA BeginOnFlowTypes ==
    ASSUME TypeOK, NEW r \in Requests, NEW f \in Flows,
           NEW to \in {"code_submitted", "password_submitted", "expired", "failed"},
           Begin(r, f, to)
    PROVE  TypeOK'
<1>1. [flow |-> f, to |-> to, account |-> account, session |-> session,
       state |-> IF f = None THEN "unborn" ELSE state[f],
       meta |-> IF f = None THEN {} ELSE meta[f]] \in FlowReqs
  BY DEF TypeOK, FlowReqs, FlowStates
<1> QED BY <1>1 DEF TypeOK, Begin, dbVars, flowRows, history

LEMMA BeginOnAccountTypes ==
    ASSUME TypeOK, NEW r \in Requests, NEW to \in {"init", "disconnected"},
           Begin(r, None, to)
    PROVE  TypeOK'
<1>1. [flow |-> None, to |-> to, account |-> account, session |-> session,
       state |-> "unborn", meta |-> {}] \in AccountReqs
  BY DEF TypeOK, AccountReqs, FlowStates
<1> QED BY <1>1 DEF TypeOK, Begin, dbVars, flowRows, history

LEMMA TypeInit == Init => TypeOK
<1> SUFFICES ASSUME Init PROVE TypeOK
  OBVIOUS
<1>1. account \in AccountStates /\ session \in BOOLEAN /\ stale \in SUBSET Flows
  BY DEF Init, AccountStates
<1>2. /\ state \in [Flows -> FlowStates]
      /\ attempts \in [Flows -> Nat]
      /\ meta \in [Flows -> SUBSET {"code", "password"}]
      /\ queue \in [Flows -> Nat]
      /\ typed \in [Flows -> Nat]
      /\ tried \in [Flows -> Nat]
  BY DEF Init, FlowStates
<1>3. budget \in [Faults -> Nat]
  BY AuthAssumption DEF Init
<1>4. run \in [Workers -> Runs \cup {NoRun}]
  BY DEF Init
<1>5. req \in [Requests -> FlowReqs \cup AccountReqs \cup {NoReq}]
  BY DEF Init
<1> QED BY <1>1, <1>2, <1>3, <1>4, <1>5 DEF TypeOK

LEMMA TypeOfSteps ==
    ASSUME TypeOK, NEW w \in Workers, Step(w) \/ Deadline(w) \/ SoftTimeout(w) \/ Crash(w)
    PROVE  TypeOK'
<1> USE DEF dbVars, flowRows, history
<1>1. CASE CodeSent(w)
  <2>1. run[w] \in Runs /\ run[w].flow \in Flows
    BY <1>1, BusyIsRun DEF CodeSent, At
  <2>2. [run[w] EXCEPT !.phase = "poll", !.state = "wait_code", !.account = "code_sent"] \in Runs
    BY <2>1 DEF Runs, Phases, FlowStates, AccountStates
  <2> QED BY <1>1, <2>1, <2>2 DEF CodeSent, TypeOK, Written, FlowStates, AccountStates
<1>2. CASE PollTimeout(w)
  BY <1>2, CommitTypes DEF PollTimeout, At, TypeOK, FlowStates, AccountStates, Phases
<1>3. CASE PollTerminated(w) \/ Deadline(w) \/ PickUpPassword(w)
  <2>1. run[w] \in Runs
    BY <1>3, BusyIsRun DEF PollTerminated, Deadline, PickUpPassword, At
  <2>2. /\ [run[w] EXCEPT !.phase = "close"] \in Runs
        /\ [run[w] EXCEPT !.spent = TRUE] \in Runs
        /\ [run[w] EXCEPT !.phase = "check", !.state = "password_submitted"] \in Runs
    BY <2>1 DEF Runs, Phases, FlowStates
  <2> QED BY <1>3, <2>2 DEF PollTerminated, Deadline, PickUpPassword, TypeOK
<1>4. CASE PickUpCode(w)
  <2>1. run[w] \in Runs /\ run[w].flow \in Flows
    BY <1>4, BusyIsRun DEF PickUpCode, At
  <2> DEFINE f == run[w].flow
  <2>2. attempts[f] + 1 \in Nat /\ state[f] \in FlowStates /\ tried[f] + 1 \in Nat
    BY <2>1 DEF TypeOK
  <2>3. /\ [run[w] EXCEPT !.phase = "sign", !.state = state[f], !.tries = attempts[f] + 1] \in Runs
        /\ [run[w] EXCEPT !.phase = "close"] \in Runs
    BY <2>1, <2>2 DEF Runs, Phases
  <2>4. CASE Allowed(attempts[f] + 1)
    <3>1. /\ run' = [run EXCEPT ![w].phase = "sign", ![w].state = state[f],
                                ![w].tries = attempts[f] + 1]
          /\ tried' = [tried EXCEPT ![f] = @ + 1]
          /\ UNCHANGED <<state, account, attempts, session, meta, stale, queue, budget,
                         req, typed>>
      BY <1>4, <2>4 DEF PickUpCode
    <3>2. run' \in [Workers -> Runs \cup {NoRun}]
      BY <3>1, <2>3 DEF TypeOK
    <3>3. tried' \in [Flows -> Nat]
      BY <3>1, <2>1, <2>2 DEF TypeOK
    <3> QED BY <3>1, <3>2, <3>3 DEF TypeOK
  <2>5. CASE ~Allowed(attempts[f] + 1)
    <3>1. /\ account' = Written(account, run[w].account, "error")
          /\ state' = [state EXCEPT ![f] = "failed"]
          /\ attempts' = [attempts EXCEPT ![f] = @ + 1]
          /\ run' = [run EXCEPT ![w].phase = "close"]
          /\ UNCHANGED <<tried, session, meta, stale, queue, budget, req, typed>>
      BY <1>4, <2>5 DEF PickUpCode
    <3>2. account' \in AccountStates
      BY <3>1 DEF TypeOK, Written, AccountStates
    <3>3. run' \in [Workers -> Runs \cup {NoRun}]
      BY <3>1, <2>3 DEF TypeOK
    <3> QED BY <3>1, <3>2, <3>3, <2>1, <2>2 DEF TypeOK, FlowStates
  <2> QED BY <2>4, <2>5
<1>5. CASE SignedIn(w)
  BY <1>5, CommitTypes DEF SignedIn, At, TypeOK, FlowStates, AccountStates, Phases
<1>6. CASE PasswordNeeded(w)
  <2>1. run[w] \in Runs /\ run[w].flow \in Flows
    BY <1>6, BusyIsRun DEF PasswordNeeded, At
  <2>2. [run[w] EXCEPT !.phase = "pwpoll", !.state = "wait_password",
                       !.account = "password_required", !.spent = FALSE, !.twofa = TRUE] \in Runs
    BY <2>1 DEF Runs, Phases, FlowStates, AccountStates
  <2>3. run[w].tries \in Nat
    BY <2>1 DEF Runs
  <2> QED BY <1>6, <2>1, <2>2, <2>3 DEF PasswordNeeded, TypeOK, Written, FlowStates, AccountStates
<1>7. CASE WrongCode(w) \/ WrongPassword(w)
  <2>1. run[w].account \in AccountStates /\ run[w].phase # "idle"
    BY <1>7, BusyIsRun DEF WrongCode, WrongPassword, At, Runs
  <2> QED BY <1>7, <2>1, CommitTypes
          DEF WrongCode, WrongPassword, TypeOK, FlowStates, Phases
<1>8. CASE Fails(w)
  <2>1. run[w].phase # "idle"
    BY <1>8 DEF Fails, At
  <2>2. CASE Commit(w, "expired", "error", "close")
    BY <1>8, <2>1, <2>2, CommitTypes DEF Fails, TypeOK, FlowStates, AccountStates, Phases
  <2>3. ASSUME NEW a \in {"error", "cooldown", "banned"}, Commit(w, "failed", a, "close")
        PROVE  TypeOK'
    <3>1. a \in AccountStates /\ "failed" \in FlowStates /\ "close" \in Phases
      BY DEF AccountStates, FlowStates, Phases
    <3> QED BY <1>8, <2>1, <2>3, <3>1, CommitTypes DEF Fails, TypeOK
  <2> QED BY <1>8, <2>2, <2>3 DEF Fails
<1>9. CASE Revoked(w)
  BY <1>9, CommitTypes DEF Revoked, At, TypeOK, FlowStates, AccountStates, Phases, Written
<1>10. CASE RowsGone(w) \/ Close(w)
  BY <1>10 DEF RowsGone, Close, EndRun, TypeOK
<1>11. CASE SoftTimeout(w)
  BY <1>11 DEF SoftTimeout, EndRun, TypeOK, FlowStates, AccountStates
<1>12. CASE Crash(w)
  <2>1. run[w].flow \in Flows
    BY <1>12, BusyIsRun DEF Crash
  <2> QED BY <1>12, <2>1 DEF Crash, Spend, EndRun, TypeOK, Faults
<1>13. CASE Deadline(w)
  BY <1>3, <1>13
<1> QED BY <1>1, <1>2, <1>3, <1>4, <1>5, <1>6, <1>7, <1>8, <1>9, <1>10, <1>11, <1>12, <1>13
        DEF Step

LEMMA TypeOfHandlers ==
    ASSUME TypeOK, NEW r \in Requests, Handler(r)
    PROVE  TypeOK'
<1> USE DEF dbVars, flowRows, history
<1>1. CASE AskCode(r)
  BY <1>1, BeginOnAccountTypes DEF AskCode
<1>2. CASE Disconnect(r)
  BY <1>2, BeginOnAccountTypes DEF Disconnect
<1>3. ASSUME NEW f \in Flows, ConfirmCode(r, f) \/ ConfirmPassword(r, f) \/ FailInit(r, f)
      PROVE  TypeOK'
  BY <1>3, BeginOnFlowTypes DEF ConfirmCode, ConfirmPassword, FailInit, Verdict
<1>4. CASE SendCode(r)
  BY <1>4 DEF SendCode, TypeOK, Spend, FlowStates, Faults
<1>5. CASE SaveDisconnect(r)
  BY <1>5 DEF SaveDisconnect, TypeOK, Written, AccountStates
<1>6. CASE SaveFlow(r)
  <2> DEFINE f == req[r].flow
             to == req[r].to
  <2>1. req[r] \in FlowReqs
    BY <1>6, FlowReqIsTyped DEF SaveFlow
  <2>2. f \in Flows /\ to \in FlowStates /\ req[r].meta \in SUBSET {"code", "password"}
    BY <2>1 DEF FlowReqs, FlowStates
  <2>3. state' \in [Flows -> FlowStates]
    BY <1>6, <2>2 DEF SaveFlow, TypeOK, Written
  <2>4. meta' \in [Flows -> SUBSET {"code", "password"}]
    BY <1>6, <2>2 DEF SaveFlow, TypeOK
  <2>5. account' \in AccountStates
    BY <1>6 DEF SaveFlow, TypeOK, Written, AccountStates
  <2>6. typed' \in [Flows -> Nat]
    BY <1>6, <2>2 DEF SaveFlow, TypeOK
  <2>7. req' \in [Requests -> FlowReqs \cup AccountReqs \cup {NoReq}]
    BY <1>6 DEF SaveFlow, TypeOK
  <2>8. UNCHANGED <<session, attempts, stale, queue, budget, run, tried>>
    BY <1>6 DEF SaveFlow
  <2> QED BY <2>3, <2>4, <2>5, <2>6, <2>7, <2>8 DEF TypeOK
<1> QED BY <1>1, <1>2, <1>3, <1>4, <1>5, <1>6 DEF Handler

LEMMA TypeStep == TypeOK /\ [Next]_vars => TypeOK'
<1> SUFFICES ASSUME TypeOK, [Next]_vars PROVE TypeOK'
  OBVIOUS
<1>1. ASSUME NEW f \in Flows, Redeliver(f) \/ FlowExpires(f)
      PROVE  TypeOK'
  BY <1>1 DEF Redeliver, FlowExpires, TypeOK, Spend, Faults, dbVars, flowRows, history
<1>2. ASSUME NEW f \in Flows, NEW w \in Workers, Deliver(w, f)
      PROVE  TypeOK'
  <2>1. [NoRun EXCEPT !.flow = f, !.phase = "send", !.state = state[f],
                      !.account = account, !.session = session] \in Runs
    BY DEF TypeOK, NoRun, Runs, Phases
  <2>2. queue' \in [Flows -> Nat]
    BY <1>2 DEF Deliver, TypeOK
  <2>3. run' \in [Workers -> Runs \cup {NoRun}]
    BY <1>2, <2>1 DEF Deliver, TypeOK
  <2> QED BY <1>2, <2>2, <2>3 DEF Deliver, TypeOK, dbVars, flowRows, history
<1>3. CASE CheckCooldowns \/ Delete
  BY <1>3 DEF CheckCooldowns, Delete, TypeOK, AccountStates, FlowStates, flowRows, history
<1>4. CASE UNCHANGED vars
  BY <1>4 DEF TypeOK, vars, dbVars, flowRows, history
<1> QED BY <1>1, <1>2, <1>3, <1>4, TypeOfSteps, TypeOfHandlers DEF Next

\* Every variable of the authentication keeps its type; no request that
\* opens a flow or disconnects names one.
THEOREM TypeCorrect == Spec => []TypeOK
BY TypeInit, TypeStep, PTL DEF Spec

-----------------------------------------------------------------------------
(* The bounds on sign_in.  With every message delivered once, a flow has   *)
(* one message or one run at a time; the run in sign_in carries the number *)
(* of its attempt, which the row receives with the outcome and which a     *)
(* crash loses.                                                            *)

Busy(w) == run[w].phase # "idle"
InSign(w, f) == run[w].flow = f /\ run[w].phase = "sign"

OneRun ==
    /\ budget["duplicate"] = 0
    /\ \A f \in Flows : queue[f] <= 1
    /\ \A f \in Flows : state[f] = "unborn" => queue[f] = 0
    /\ \A w \in Workers : Busy(w) => queue[run[w].flow] = 0 /\ state[run[w].flow] # "unborn"
    /\ \A v, w \in Workers : Busy(v) /\ Busy(w) /\ run[v].flow = run[w].flow => v = w

Shape ==
    /\ \A w \in Workers : run[w].phase = "sign" => run[w].state = "code_submitted"
    /\ \A w \in Workers : run[w].twofa => run[w].phase \in {"pwpoll", "check", "close"}
    /\ \A r \in Requests : req[r].to = "password_submitted" => req[r].state = "wait_password"

Counted ==
    /\ \A f \in Flows : tried[f] <= MaxAttempts + Crashes
    /\ \A f \in Flows : state[f] # "gone" /\ (\A w \in Workers : ~InSign(w, f)) =>
          tried[f] <= attempts[f] + Crashes
    /\ \A w \in Workers : run[w].phase = "sign" =>
          /\ run[w].tries = attempts[run[w].flow] + 1
          /\ tried[run[w].flow] <= run[w].tries + Crashes

Fresh ==
    /\ \A f \in Flows : tried[f] <= typed[f]
    /\ \A w \in Workers : run[w].phase = "poll" /\ Submitted(w, "code_submitted", "code") =>
          tried[run[w].flow] < typed[run[w].flow]

AuthInv == OneRun /\ Shape /\ Counted /\ Fresh

OnceOnly == Budget["duplicate"] = 0

LEMMA CrashesIsNat ==
    ASSUME TypeOK
    PROVE  Budget["crash"] \in Nat /\ budget["crash"] \in Nat /\ Crashes \in Int
BY AuthAssumption DEF TypeOK, Crashes, Faults

LEMMA AuthInvInit == OnceOnly /\ Init => AuthInv
<1> SUFFICES ASSUME OnceOnly, Init PROVE AuthInv
  OBVIOUS
<1>1. OneRun
  BY DEF Init, OneRun, OnceOnly, NoRun, Busy
<1>2. Shape
  BY DEF Init, Shape, NoRun, NoReq
<1>3. Crashes = 0
  BY AuthAssumption DEF Init, Crashes, Faults
<1>4. Counted
  BY <1>3, AuthAssumption DEF Init, Counted, NoRun
<1>5. Fresh
  BY DEF Init, Fresh, NoRun
<1> QED BY <1>1, <1>2, <1>4, <1>5 DEF AuthInv

\* A commit by which run w ends, or goes back to waiting for a code.
LEMMA CommitKeeps ==
    ASSUME TypeOK, AuthInv, NEW w \in Workers, At(w, Phases),
           NEW s \in {"done", "expired", "failed", "wait_code", "wait_password"}, NEW a,
           NEW p \in {"poll", "close"},
           p = "poll" => run[w].phase = "sign" /\ s = "wait_code",
           Commit(w, s, a, p), UNCHANGED <<meta, queue, budget, req, history>>
    PROVE  AuthInv'
<1> DEFINE f == run[w].flow
<1>1. run[w] \in Runs /\ f \in Flows /\ Busy(w) /\ state[f] # "gone"
  BY BusyIsRun DEF At, Phases, Busy
<1>2. /\ run'[w].flow = f /\ run'[w].phase = p /\ run'[w].twofa = run[w].twofa
      /\ \A v \in Workers : v # w => run'[v] = run[v]
  BY <1>1 DEF Commit, TypeOK, Runs
<1>3. /\ \A g \in Flows : g # f => state'[g] = state[g] /\ attempts'[g] = attempts[g]
      /\ state'[f] \in {s, state[f]}
      /\ attempts'[f] = IF run[w].phase = "sign" THEN run[w].tries ELSE attempts[f]
  BY <1>1 DEF Commit, TypeOK, Written
<1>4. \A v \in Workers : v # w /\ Busy(v) => run[v].flow \in Flows /\ run[v].flow # f
  BY <1>1, BusyIsRun DEF AuthInv, OneRun, Busy
<1>5. OneRun'
  BY <1>1, <1>2, <1>3, <1>4 DEF AuthInv, OneRun, Busy
<1>6. Shape'
  BY <1>1, <1>2 DEF AuthInv, Shape
<1>7. Crashes' = Crashes /\ tried' = tried /\ typed' = typed
  BY DEF Crashes, history
<1>8. Counted'
  <2>1. \A g \in Flows : tried'[g] <= MaxAttempts + Crashes'
    BY <1>7 DEF AuthInv, Counted
  <2>2. ASSUME NEW g \in Flows, state'[g] # "gone", \A v \in Workers : ~InSign(v, g)'
        PROVE  tried'[g] <= attempts'[g] + Crashes'
    <3>1. CASE g = f
      <4>1. CASE run[w].phase = "sign"
        BY <1>1, <1>3, <1>7, <3>1, <4>1 DEF AuthInv, Counted
      <4>2. CASE run[w].phase # "sign"
        BY <1>1, <1>3, <1>4, <1>7, <3>1, <4>2 DEF AuthInv, Counted, InSign, Busy
      <4> QED BY <4>1, <4>2
    <3>2. CASE g # f
      BY <1>2, <1>3, <1>7, <2>2, <3>2 DEF AuthInv, Counted, InSign
    <3> QED BY <3>1, <3>2
  <2>3. ASSUME NEW v \in Workers, run'[v].phase = "sign"
        PROVE  /\ run'[v].tries = attempts'[run'[v].flow] + 1
               /\ tried'[run'[v].flow] <= run'[v].tries + Crashes'
    BY <1>2, <1>3, <1>4, <1>7, <2>3 DEF AuthInv, Counted, Busy
  <2> QED BY <2>1, <2>2, <2>3 DEF Counted
<1>9. Fresh'
  <2>1. \A g \in Flows : tried'[g] <= typed'[g]
    BY <1>7 DEF AuthInv, Fresh
  <2>2. ASSUME NEW v \in Workers, run'[v].phase = "poll",
               Submitted(v, "code_submitted", "code")'
        PROVE  tried'[run'[v].flow] < typed'[run'[v].flow]
    <3>1. CASE v = w
      <4>1. run[w].phase = "sign" /\ s = "wait_code" /\ run[w].state = "code_submitted"
        BY <1>2, <2>2, <3>1 DEF AuthInv, Shape
      <4>2. state'[f] = "wait_code"
        BY <1>1, <4>1 DEF Commit, Written, TypeOK
      <4> QED BY <1>2, <2>2, <3>1, <4>2 DEF Submitted
    <3>2. CASE v # w
      BY <1>2, <1>3, <1>4, <1>7, <2>2, <3>2 DEF AuthInv, Fresh, Submitted, Busy
    <3> QED BY <3>1, <3>2
  <2> QED BY <2>1, <2>2 DEF Fresh
<1> QED BY <1>5, <1>6, <1>8, <1>9 DEF AuthInv

\* A step that changes nothing but where run w is, and neither takes it to
\* the poll or to sign_in, nor out of sign_in while its flow exists.
LEMMA MoveKeeps ==
    ASSUME TypeOK, AuthInv, NEW w \in Workers, Busy(w),
           UNCHANGED <<dbVars, queue, budget, req, history>>,
           \A v \in Workers : v # w => run'[v] = run[v],
           \/ run'[w].phase = "idle" /\ ~run'[w].twofa
           \/ /\ run'[w].flow = run[w].flow
              /\ run'[w].twofa => run'[w].phase \in {"pwpoll", "check", "close"},
           run'[w].phase = "sign" => run[w].phase = "sign" /\ run'[w].tries = run[w].tries
                                      /\ run'[w].state = run[w].state,
           run'[w].phase = "poll" => run[w].phase = "poll",
           run[w].phase = "sign" => run'[w].phase = "sign" \/ state[run[w].flow] = "gone"
    PROVE  AuthInv'
<1>1. Crashes' = Crashes /\ tried' = tried /\ typed' = typed /\ state' = state
      /\ attempts' = attempts /\ meta' = meta
  BY DEF Crashes, history, dbVars, flowRows
<1>2. OneRun'
  BY <1>1 DEF AuthInv, OneRun, Busy
<1>3. Shape'
  BY DEF AuthInv, Shape
<1>4. Counted'
  <2>1. ASSUME NEW g \in Flows, state'[g] # "gone", \A v \in Workers : ~InSign(v, g)'
        PROVE  \A v \in Workers : ~InSign(v, g)
    BY <1>1, <2>1 DEF InSign
  <2> QED BY <1>1, <2>1 DEF AuthInv, Counted
<1>5. Fresh'
  BY <1>1 DEF AuthInv, Fresh, Submitted
<1> QED BY <1>2, <1>3, <1>4, <1>5 DEF AuthInv

\* A step of a handler or of the clock: no run moves, and a flow shows a code
\* only if it did before or has just been given one.
LEMMA RowsKeep ==
    ASSUME TypeOK, TypeOK', AuthInv, Shape',
           UNCHANGED <<run, attempts, queue, budget, tried>>,
           \A f \in Flows : state'[f] = "unborn" => state[f] = "unborn",
           \A f \in Flows : state[f] = "gone" => state'[f] = "gone",
           \A f \in Flows : typed[f] <= typed'[f],
           \A f \in Flows : state'[f] = "code_submitted" /\ "code" \in meta'[f] =>
               \/ state[f] = "code_submitted" /\ "code" \in meta[f]
               \/ tried[f] < typed'[f]
    PROVE  AuthInv'
<1>1. Crashes' = Crashes /\ Crashes \in Int
  BY CrashesIsNat DEF Crashes
<1>2. \A w \in Workers : Busy(w) => run[w].flow \in Flows
  BY BusyIsRun DEF Busy
<1>3. OneRun'
  BY <1>2 DEF AuthInv, OneRun, Busy
<1>4. Counted'
  BY <1>1 DEF AuthInv, Counted, InSign
<1>5. Fresh'
  <2>1. \A f \in Flows : tried'[f] <= typed'[f]
    BY DEF AuthInv, Fresh, TypeOK
  <2>2. ASSUME NEW w \in Workers, run'[w].phase = "poll",
               Submitted(w, "code_submitted", "code")'
        PROVE  tried'[run'[w].flow] < typed'[run'[w].flow]
    <3> DEFINE g == run[w].flow
    <3>1. g \in Flows /\ run[w].phase = "poll"
      BY <1>2, <2>2 DEF Busy
    <3>2. state'[g] = "code_submitted" /\ "code" \in meta'[g]
      BY <2>2 DEF Submitted
    <3>3. CASE tried[g] < typed'[g]
      BY <3>3
    <3>4. CASE state[g] = "code_submitted" /\ "code" \in meta[g]
      <4>1. tried[g] < typed[g]
        BY <3>1, <3>4 DEF AuthInv, Fresh, Submitted
      <4> QED BY <3>1, <4>1 DEF TypeOK
    <3> QED BY <3>1, <3>2, <3>3, <3>4
  <2> QED BY <2>1, <2>2 DEF Fresh
<1> QED BY <1>3, <1>4, <1>5 DEF AuthInv

LEMMA InvOfHandlers ==
    ASSUME TypeOK, TypeOK', AuthInv, NEW r \in Requests, Handler(r)
    PROVE  AuthInv'
<1>1. ASSUME NEW f \in Flows \cup {None}, NEW to, Begin(r, f, to),
             to = "password_submitted" => f \in Flows /\ state[f] = "wait_password"
      PROVE  AuthInv'
  <2>1. Shape'
    <3>1. /\ req'[r].to = to
          /\ f \in Flows => req'[r].state = state[f]
          /\ \A q \in Requests : q # r => req'[q] = req[q]
          /\ run' = run
      BY <1>1, AuthAssumption DEF Begin, TypeOK
    <3> QED BY <1>1, <3>1 DEF AuthInv, Shape
  <2> QED BY <1>1, <2>1, RowsKeep DEF Begin, dbVars, flowRows, history, TypeOK
<1>2. CASE AskCode(r) \/ Disconnect(r)
  BY <1>1, <1>2 DEF AskCode, Disconnect
<1>3. ASSUME NEW f \in Flows, ConfirmCode(r, f) \/ ConfirmPassword(r, f) \/ FailInit(r, f)
      PROVE  AuthInv'
  BY <1>1, <1>3 DEF ConfirmCode, ConfirmPassword, FailInit, Verdict
<1>4. CASE SaveDisconnect(r)
  <2>1. Shape'
    BY <1>4 DEF AuthInv, Shape, SaveDisconnect, TypeOK, NoReq
  <2> QED BY <1>4, <2>1, RowsKeep DEF SaveDisconnect, flowRows, history, TypeOK
<1>5. CASE SaveFlow(r)
  <2> DEFINE f == req[r].flow
             to == req[r].to
  <2>1. req[r] \in FlowReqs
    BY <1>5, FlowReqIsTyped DEF SaveFlow
  <2>2. f \in Flows /\ to \in {"code_submitted", "password_submitted", "expired", "failed"}
    BY <2>1 DEF FlowReqs
  <2>3. Shape'
    BY <1>5 DEF AuthInv, Shape, SaveFlow, TypeOK, NoReq
  <2>4. UNCHANGED <<run, attempts, queue, budget, tried>>
    BY <1>5 DEF SaveFlow
  <2>5. CASE state[f] = "gone"
    BY <1>5, <2>3, <2>4, <2>5, RowsKeep DEF SaveFlow, TypeOK
  <2>6. CASE state[f] # "gone"
    <3>1. /\ \A g \in Flows : g # f => state'[g] = state[g] /\ meta'[g] = meta[g]
                                        /\ typed'[g] = typed[g]
          /\ state'[f] = Written(state[f], req[r].state, to)
          /\ typed'[f] = IF to = "code_submitted" THEN typed[f] + 1 ELSE typed[f]
          /\ to \in {"expired", "failed"} => meta'[f] = meta[f]
      BY <1>5, <2>2, <2>6 DEF SaveFlow, TypeOK
    <3>2. to = "password_submitted" => state'[f] = "password_submitted"
      BY <3>1 DEF AuthInv, Shape, Written
    <3>3. to = "code_submitted" => tried[f] < typed'[f]
      BY <2>2, <3>1 DEF AuthInv, Fresh, TypeOK
    <3>4. \A g \in Flows : typed[g] <= typed'[g]
      BY <3>1 DEF TypeOK
    <3>5. \A g \in Flows : state'[g] = "code_submitted" /\ "code" \in meta'[g] =>
               \/ state[g] = "code_submitted" /\ "code" \in meta[g]
               \/ tried[g] < typed'[g]
      BY <2>2, <3>1, <3>2, <3>3 DEF Written
    <3>6. /\ \A g \in Flows : state'[g] = "unborn" => state[g] = "unborn"
          /\ \A g \in Flows : state[g] = "gone" => state'[g] = "gone"
      BY <2>2, <2>6, <3>1 DEF Written
    <3> QED BY <2>3, <2>4, <3>4, <3>5, <3>6, RowsKeep
  <2> QED BY <2>5, <2>6
<1>6. CASE SendCode(r)
  <2>1. Shape'
    BY <1>6 DEF AuthInv, Shape, SendCode, TypeOK, NoReq
  <2>2. CASE account = "deleted"
    BY <1>6, <2>1, <2>2, RowsKeep DEF SendCode, TypeOK, history
  <2>3. CASE account # "deleted"
    <3>1. PICK f \in Flows :
            /\ state[f] = "unborn"
            /\ state' = [g \in Flows |-> IF g = f THEN "init"
                            ELSE IF state[g] \in OpenStates THEN "expired" ELSE state[g]]
            /\ \/ queue' = [queue EXCEPT ![f] = @ + 1] /\ UNCHANGED budget
               \/ Spend("enqueue") /\ UNCHANGED queue
      BY <1>6, <2>3 DEF SendCode
    <3>2. UNCHANGED <<run, attempts, meta, tried, typed>>
      BY <1>6 DEF SendCode, history
    <3>3. budget'["crash"] = budget["crash"] /\ budget'["duplicate"] = budget["duplicate"]
      BY <3>1 DEF Spend, TypeOK, Faults
    <3>4. Crashes' = Crashes
      BY <3>3 DEF Crashes
    <3>5. \A w \in Workers : Busy(w) => run[w].flow \in Flows /\ run[w].flow # f
      BY <3>1, BusyIsRun DEF AuthInv, OneRun, Busy
    <3>6. OneRun'
      BY <3>1, <3>2, <3>3, <3>5 DEF AuthInv, OneRun, Busy, TypeOK, OpenStates
    <3>7. Counted'
      <4>1. \A g \in Flows : state'[g] # "gone" => state[g] # "gone"
        BY <3>1 DEF OpenStates
      <4>2. \A g \in Flows : tried'[g] = tried[g] /\ attempts'[g] = attempts[g]
        BY <3>2
      <4>3. \A w \in Workers : run'[w] = run[w]
        BY <3>2
      <4>4. ASSUME NEW g \in Flows, state'[g] # "gone", \A w \in Workers : ~InSign(w, g)'
            PROVE  tried'[g] <= attempts'[g] + Crashes'
        BY <3>4, <4>1, <4>2, <4>3, <4>4 DEF AuthInv, Counted, InSign
      <4>5. ASSUME NEW w \in Workers, run'[w].phase = "sign"
            PROVE  /\ run'[w].tries = attempts'[run'[w].flow] + 1
                   /\ tried'[run'[w].flow] <= run'[w].tries + Crashes'
        BY <3>2, <3>4, <4>5 DEF AuthInv, Counted
      <4> QED BY <3>2, <3>4, <4>4, <4>5 DEF AuthInv, Counted
    <3>8. Fresh'
      BY <3>1, <3>2, <3>5 DEF AuthInv, Fresh, Submitted, OpenStates, Busy
    <3> QED BY <2>1, <3>6, <3>7, <3>8 DEF AuthInv
  <2> QED BY <2>2, <2>3
<1> QED BY <1>2, <1>3, <1>4, <1>5, <1>6 DEF Handler

\* The steps of a run: only picking a code up adds a sign_in call, and only a
\* crash forgets one.
LEMMA InvOfSteps ==
    ASSUME TypeOK, TypeOK', AuthInv, NEW w \in Workers,
           Step(w) \/ Deadline(w) \/ SoftTimeout(w) \/ Crash(w)
    PROVE  AuthInv'
<1> DEFINE f == run[w].flow
<1>1. Busy(w) /\ run[w] \in Runs /\ f \in Flows
  <2>1. CASE Step(w) \/ Deadline(w) \/ Crash(w)
    <3>1. Busy(w)
      BY <2>1 DEF Step, CodeSent, PollTimeout, PollTerminated, PickUpCode, PickUpPassword,
                  SignedIn, PasswordNeeded, WrongCode, WrongPassword, Fails, Revoked,
                  RowsGone, Close, Deadline, Crash, At, Busy, Phases
    <3> QED BY <3>1, BusyIsRun DEF Busy
  <2>2. CASE SoftTimeout(w)
    <3>1. Busy(w)
      BY <2>2 DEF SoftTimeout, AuthInv, Shape, Busy
    <3> QED BY <3>1, BusyIsRun DEF Busy
  <2> QED BY <2>1, <2>2
<1>2. \A v \in Workers : v # w /\ Busy(v) => run[v].flow \in Flows /\ run[v].flow # f
  BY <1>1, BusyIsRun DEF AuthInv, OneRun, Busy
<1>3. CASE PollTimeout(w) \/ SignedIn(w) \/ WrongCode(w) \/ WrongPassword(w) \/ Fails(w)
             \/ Revoked(w)
  BY <1>3, CommitKeeps DEF PollTimeout, SignedIn, WrongCode, WrongPassword, Fails, Revoked, At,
                           Phases
<1>4. CASE PollTerminated(w) \/ PickUpPassword(w) \/ Deadline(w)
  <2>1. /\ \A v \in Workers : v # w => run'[v] = run[v]
        /\ run'[w].flow = f /\ run'[w].twofa = run[w].twofa
        /\ run'[w].tries = run[w].tries
        /\ UNCHANGED <<dbVars, queue, budget, req, history>>
    BY <1>1, <1>4 DEF PollTerminated, PickUpPassword, Deadline, TypeOK, Runs
  <2>2. \/ run'[w].phase = "close" /\ run[w].phase \in {"poll", "pwpoll"}
        \/ run'[w].phase = "check" /\ run[w].phase = "pwpoll"
        \/ run'[w].phase = run[w].phase /\ run'[w].state = run[w].state
    BY <1>1, <1>4 DEF PollTerminated, PickUpPassword, Deadline, At, TypeOK, Runs
  <2>3. run'[w].twofa => run'[w].phase \in {"pwpoll", "check", "close"}
    BY <2>1, <2>2 DEF AuthInv, Shape
  <2> QED BY <1>1, <2>1, <2>2, <2>3, MoveKeeps
<1>5. CASE RowsGone(w) \/ Close(w)
  <2>1. /\ \A v \in Workers : v # w => run'[v] = run[v]
        /\ run'[w].phase = "idle" /\ ~run'[w].twofa
        /\ UNCHANGED <<dbVars, queue, budget, req, history>>
    BY <1>5 DEF RowsGone, Close, EndRun, TypeOK, NoRun
  <2>2. run[w].phase = "sign" => state[f] = "gone"
    BY <1>5 DEF RowsGone, Close
  <2> QED BY <1>1, <2>1, <2>2, MoveKeeps
<1>6. CASE CodeSent(w)
  <2>1. /\ \A v \in Workers : v # w => run'[v] = run[v]
        /\ run'[w].flow = f /\ run'[w].phase = "poll" /\ run'[w].twofa = run[w].twofa
        /\ run[w].phase = "send" /\ state[f] # "gone"
    BY <1>1, <1>6 DEF CodeSent, At, TypeOK, Runs
  <2>2. /\ \A g \in Flows : g # f => state'[g] = state[g] /\ meta'[g] = meta[g]
        /\ state'[f] \in {state[f], "wait_code"} /\ meta'[f] = {}
        /\ UNCHANGED <<attempts, queue, budget, req, tried, typed>>
    BY <1>1, <1>6 DEF CodeSent, Written, TypeOK, history
  <2>3. Crashes' = Crashes
    BY <2>2 DEF Crashes
  <2>4. OneRun'
    BY <1>1, <1>2, <2>1, <2>2 DEF AuthInv, OneRun, Busy
  <2>5. Shape'
    BY <2>1, <2>2 DEF AuthInv, Shape
  <2>6. Counted'
    <3>1. ASSUME NEW g \in Flows, state'[g] # "gone", \A v \in Workers : ~InSign(v, g)'
          PROVE  tried'[g] <= attempts'[g] + Crashes'
      <4>1. \A v \in Workers : ~InSign(v, g)
        BY <2>1, <3>1 DEF InSign
      <4> QED BY <2>1, <2>2, <2>3, <3>1, <4>1 DEF AuthInv, Counted
    <3> QED BY <2>1, <2>2, <2>3, <3>1 DEF AuthInv, Counted
  <2>7. Fresh'
    BY <1>2, <2>1, <2>2 DEF AuthInv, Fresh, Submitted, Busy
  <2> QED BY <2>4, <2>5, <2>6, <2>7 DEF AuthInv
<1>7. CASE PasswordNeeded(w)
  <2>1. /\ \A v \in Workers : v # w => run'[v] = run[v]
        /\ run'[w].flow = f /\ run'[w].phase = "pwpoll"
        /\ run[w].phase = "sign" /\ state[f] # "gone"
    BY <1>1, <1>7 DEF PasswordNeeded, At, TypeOK, Runs
  <2>2. /\ \A g \in Flows : g # f => state'[g] = state[g] /\ attempts'[g] = attempts[g]
        /\ state'[f] \in {state[f], "wait_password"} /\ attempts'[f] = run[w].tries
        /\ UNCHANGED <<meta, queue, budget, req, tried, typed>>
    BY <1>1, <1>7 DEF PasswordNeeded, Written, TypeOK, history
  <2>3. Crashes' = Crashes
    BY <2>2 DEF Crashes
  <2>4. OneRun'
    BY <1>1, <1>2, <2>1, <2>2 DEF AuthInv, OneRun, Busy
  <2>5. Shape'
    BY <2>1, <2>2 DEF AuthInv, Shape
  <2>6. Counted'
    <3>1. ASSUME NEW g \in Flows, state'[g] # "gone", \A v \in Workers : ~InSign(v, g)'
          PROVE  tried'[g] <= attempts'[g] + Crashes'
      <4>1. CASE g = f
        BY <1>1, <2>1, <2>2, <2>3, <4>1 DEF AuthInv, Counted
      <4>2. CASE g # f
        <5>1. \A v \in Workers : ~InSign(v, g)
          BY <2>1, <3>1, <4>2 DEF InSign
        <5> QED BY <2>2, <2>3, <3>1, <4>2, <5>1 DEF AuthInv, Counted
      <4> QED BY <4>1, <4>2
    <3>2. ASSUME NEW v \in Workers, run'[v].phase = "sign"
          PROVE  /\ run'[v].tries = attempts'[run'[v].flow] + 1
                 /\ tried'[run'[v].flow] <= run'[v].tries + Crashes'
      BY <1>2, <2>1, <2>2, <2>3, <3>2 DEF AuthInv, Counted, Busy
    <3> QED BY <2>2, <2>3, <3>1, <3>2 DEF AuthInv, Counted
  <2>7. Fresh'
    BY <1>2, <2>1, <2>2 DEF AuthInv, Fresh, Submitted, Busy
  <2> QED BY <2>4, <2>5, <2>6, <2>7 DEF AuthInv
<1>8. CASE SoftTimeout(w)
  <2>1. /\ \A v \in Workers : v # w => run'[v] = run[v]
        /\ run'[w].phase = "idle" /\ ~run'[w].twofa
        /\ run[w].phase \in {"pwpoll", "check", "close"}
    BY <1>8 DEF SoftTimeout, EndRun, TypeOK, NoRun, AuthInv, Shape
  <2>2. /\ \A g \in Flows : g # f => state'[g] = state[g]
        /\ state'[f] \in {state[f], "failed"} /\ (state[f] = "gone" => state'[f] = "gone")
        /\ UNCHANGED <<attempts, meta, queue, budget, req, tried, typed>>
    BY <1>1, <1>8 DEF SoftTimeout, TypeOK, history
  <2>3. Crashes' = Crashes
    BY <2>2 DEF Crashes
  <2>4. OneRun'
    BY <1>1, <1>2, <2>1, <2>2 DEF AuthInv, OneRun, Busy
  <2>5. Shape'
    BY <2>1, <2>2 DEF AuthInv, Shape
  <2>6. Counted'
    <3>1. ASSUME NEW g \in Flows, state'[g] # "gone", \A v \in Workers : ~InSign(v, g)'
          PROVE  tried'[g] <= attempts'[g] + Crashes'
      <4>1. \A v \in Workers : ~InSign(v, g)
        BY <2>1, <3>1 DEF InSign
      <4> QED BY <2>2, <2>3, <3>1, <4>1 DEF AuthInv, Counted
    <3> QED BY <2>1, <2>2, <2>3, <3>1 DEF AuthInv, Counted
  <2>7. Fresh'
    BY <1>2, <2>1, <2>2 DEF AuthInv, Fresh, Submitted, Busy
  <2> QED BY <2>4, <2>5, <2>6, <2>7 DEF AuthInv
<1>9. CASE PickUpCode(w)
  <2> DEFINE n == attempts[f] + 1
  <2>1. /\ run[w].phase = "poll" /\ state[f] = "code_submitted" /\ "code" \in meta[f]
        /\ UNCHANGED <<meta, queue, budget, req, typed>>
    BY <1>9 DEF PickUpCode, At, Submitted
  <2>2. /\ attempts[f] \in Nat /\ tried[f] \in Nat /\ typed[f] \in Nat
        /\ Crashes \in Int /\ Crashes' = Crashes
    BY <1>1, <2>1, CrashesIsNat DEF TypeOK, Crashes
  <2>3. \A v \in Workers : ~InSign(v, f)
    BY <1>2, <2>1 DEF InSign, Busy
  <2>4. tried[f] <= attempts[f] + Crashes /\ tried[f] < typed[f]
    BY <1>1, <2>1, <2>3 DEF AuthInv, Counted, Fresh, Submitted
  <2>5. CASE Allowed(n)
    <3>1. /\ \A v \in Workers : v # w => run'[v] = run[v]
          /\ run'[w].flow = f /\ run'[w].phase = "sign" /\ run'[w].twofa = run[w].twofa
          /\ run'[w].state = "code_submitted" /\ run'[w].tries = n
      BY <1>1, <1>9, <2>1, <2>5 DEF PickUpCode, TypeOK, Runs
    <3>2. /\ tried'[f] = tried[f] + 1
          /\ \A g \in Flows : g # f => tried'[g] = tried[g]
          /\ UNCHANGED <<state, attempts>>
      BY <1>1, <1>9, <2>5 DEF PickUpCode, TypeOK
    <3>3. OneRun'
      BY <1>1, <1>2, <2>1, <3>1, <3>2 DEF AuthInv, OneRun, Busy
    <3>4. Shape'
      <4>1. ~run[w].twofa
        BY <2>1 DEF AuthInv, Shape
      <4> QED BY <2>1, <3>1, <4>1 DEF AuthInv, Shape
    <3>5. Counted'
      <4>1. n <= MaxAttempts
        BY <2>5 DEF Allowed
      <4>2. tried'[f] <= MaxAttempts + Crashes' /\ tried'[f] <= n + Crashes'
        BY <2>2, <2>4, <3>2, <4>1, AuthAssumption
      <4>3. ASSUME NEW g \in Flows, state'[g] # "gone", \A v \in Workers : ~InSign(v, g)'
            PROVE  tried'[g] <= attempts'[g] + Crashes'
        <5>1. g # f
          BY <3>1, <4>3 DEF InSign
        <5>2. \A v \in Workers : ~InSign(v, g)
          BY <2>1, <3>1, <4>3 DEF InSign
        <5> QED BY <2>2, <3>2, <4>3, <5>1, <5>2 DEF AuthInv, Counted
      <4>4. ASSUME NEW v \in Workers, run'[v].phase = "sign"
            PROVE  /\ run'[v].tries = attempts'[run'[v].flow] + 1
                   /\ tried'[run'[v].flow] <= run'[v].tries + Crashes'
        <5>1. CASE v = w
          BY <3>1, <3>2, <4>2, <5>1
        <5>2. CASE v # w
          BY <1>2, <2>2, <3>1, <3>2, <4>4, <5>2 DEF AuthInv, Counted, Busy
        <5> QED BY <5>1, <5>2
      <4> QED BY <2>2, <3>2, <4>2, <4>3, <4>4 DEF AuthInv, Counted
    <3>6. Fresh'
      <4>1. \A g \in Flows : tried'[g] <= typed'[g]
        BY <2>1, <2>2, <2>4, <3>2 DEF AuthInv, Fresh
      <4>2. ASSUME NEW v \in Workers, run'[v].phase = "poll",
                   Submitted(v, "code_submitted", "code")'
            PROVE  tried'[run'[v].flow] < typed'[run'[v].flow]
        BY <1>2, <2>1, <3>1, <3>2, <4>2 DEF AuthInv, Fresh, Submitted, Busy
      <4> QED BY <4>1, <4>2 DEF Fresh
    <3> QED BY <3>3, <3>4, <3>5, <3>6 DEF AuthInv
  <2>6. CASE ~Allowed(n)
    <3>1. /\ \A v \in Workers : v # w => run'[v] = run[v]
          /\ run'[w].flow = f /\ run'[w].phase = "close" /\ run'[w].twofa = run[w].twofa
      BY <1>1, <1>9, <2>6 DEF PickUpCode, TypeOK, Runs
    <3>2. /\ state'[f] = "failed" /\ attempts'[f] = n
          /\ \A g \in Flows : g # f => state'[g] = state[g] /\ attempts'[g] = attempts[g]
          /\ UNCHANGED tried
      BY <1>1, <1>9, <2>6 DEF PickUpCode, TypeOK
    <3>3. OneRun'
      BY <1>1, <1>2, <2>1, <3>1, <3>2 DEF AuthInv, OneRun, Busy
    <3>4. Shape'
      BY <2>1, <3>1 DEF AuthInv, Shape
    <3>5. Counted'
      <4>1. ASSUME NEW g \in Flows, state'[g] # "gone", \A v \in Workers : ~InSign(v, g)'
            PROVE  tried'[g] <= attempts'[g] + Crashes'
        <5>1. CASE g = f
          BY <2>2, <2>4, <3>2, <5>1
        <5>2. CASE g # f
          <6>1. \A v \in Workers : ~InSign(v, g)
            BY <2>1, <3>1, <4>1 DEF InSign
          <6> QED BY <2>2, <3>2, <4>1, <5>2, <6>1 DEF AuthInv, Counted
        <5> QED BY <5>1, <5>2
      <4>2. ASSUME NEW v \in Workers, run'[v].phase = "sign"
            PROVE  /\ run'[v].tries = attempts'[run'[v].flow] + 1
                   /\ tried'[run'[v].flow] <= run'[v].tries + Crashes'
        BY <1>2, <2>2, <3>1, <3>2, <4>2 DEF AuthInv, Counted, Busy
      <4> QED BY <2>2, <3>2, <4>1, <4>2 DEF AuthInv, Counted
    <3>6. Fresh'
      BY <1>2, <2>1, <3>1, <3>2 DEF AuthInv, Fresh, Submitted, Busy
    <3> QED BY <3>3, <3>4, <3>5, <3>6 DEF AuthInv
  <2> QED BY <2>5, <2>6
<1>10. CASE Crash(w)
  <2>1. /\ \A v \in Workers : v # w => run'[v] = run[v]
        /\ run'[w].phase = "idle" /\ ~run'[w].twofa
        /\ UNCHANGED <<state, attempts, meta, req, tried, typed>>
    BY <1>10 DEF Crash, EndRun, TypeOK, NoRun, dbVars, flowRows, history
  <2>2. /\ queue'[f] = queue[f] + 1 /\ \A g \in Flows : g # f => queue'[g] = queue[g]
        /\ budget'["duplicate"] = budget["duplicate"]
        /\ budget'["crash"] = budget["crash"] - 1
    BY <1>1, <1>10 DEF Crash, Spend, TypeOK, Faults
  <2>3. Crashes \in Int /\ Crashes' = Crashes + 1
    BY <2>2, CrashesIsNat DEF Crashes
  <2>4. OneRun'
    <3>1. queue[f] = 0 /\ state[f] # "unborn"
      BY <1>1 DEF AuthInv, OneRun
    <3> QED BY <1>2, <2>1, <2>2, <3>1 DEF AuthInv, OneRun, Busy
  <2>5. Shape'
    BY <2>1 DEF AuthInv, Shape
  <2>6. Counted'
    <3>1. \A g \in Flows : tried[g] \in Nat /\ attempts[g] \in Nat
      BY DEF TypeOK
    <3>2. ASSUME NEW g \in Flows, state'[g] # "gone", \A v \in Workers : ~InSign(v, g)'
          PROVE  tried'[g] <= attempts'[g] + Crashes'
      <4>1. CASE InSign(w, g)
        <5>1. tried[g] <= attempts[g] + 1 + Crashes
          BY <4>1 DEF AuthInv, Counted, InSign
        <5> QED BY <2>1, <2>3, <3>1, <5>1
      <4>2. CASE ~InSign(w, g)
        <5>1. \A v \in Workers : ~InSign(v, g)
          BY <2>1, <3>2, <4>2 DEF InSign
        <5> QED BY <2>1, <2>3, <3>1, <3>2, <5>1 DEF AuthInv, Counted
      <4> QED BY <4>1, <4>2
    <3>3. ASSUME NEW v \in Workers, run'[v].phase = "sign"
          PROVE  /\ run'[v].tries = attempts'[run'[v].flow] + 1
                 /\ tried'[run'[v].flow] <= run'[v].tries + Crashes'
      <4>1. v # w /\ run[v].flow \in Flows /\ run[v] \in Runs
        BY <1>2, <2>1, <3>3, BusyIsRun DEF Busy
      <4> QED BY <2>1, <2>3, <3>1, <3>3, <4>1 DEF AuthInv, Counted, Runs
    <3>4. \A g \in Flows : tried'[g] <= MaxAttempts + Crashes'
      BY <2>1, <2>3, <3>1, AuthAssumption DEF AuthInv, Counted
    <3> QED BY <3>2, <3>3, <3>4 DEF Counted
  <2>7. Fresh'
    BY <1>2, <2>1 DEF AuthInv, Fresh, Submitted, Busy
  <2> QED BY <2>4, <2>5, <2>6, <2>7 DEF AuthInv
<1> QED BY <1>3, <1>4, <1>5, <1>6, <1>7, <1>8, <1>9, <1>10 DEF Step

\* A worker takes a message: the flow has no run, and gets one.
LEMMA DeliverKeeps ==
    ASSUME TypeOK, TypeOK', AuthInv, NEW w \in Workers, NEW f \in Flows, Deliver(w, f)
    PROVE  AuthInv'
<1>1. /\ ~Busy(w) /\ queue[f] = 1 /\ state[f] # "unborn"
      /\ \A v \in Workers : Busy(v) => run[v].flow \in Flows /\ run[v].flow # f
  BY BusyIsRun DEF Deliver, AuthInv, OneRun, Busy, TypeOK
<1>2. /\ \A v \in Workers : v # w => run'[v] = run[v]
      /\ \/ run'[w].phase = "idle" /\ run'[w] = run[w]
         \/ run'[w].phase = "send" /\ run'[w].flow = f /\ ~run'[w].twofa
      /\ queue'[f] = 0 /\ \A g \in Flows : g # f => queue'[g] = queue[g]
      /\ UNCHANGED <<state, attempts, meta, budget, req, tried, typed>>
  BY <1>1 DEF Deliver, TypeOK, NoRun, dbVars, flowRows, history
<1>3. Crashes' = Crashes
  BY <1>2 DEF Crashes
<1>4. OneRun'
  BY <1>1, <1>2 DEF AuthInv, OneRun, Busy
<1>5. Shape'
  BY <1>2 DEF AuthInv, Shape
<1>6. Counted'
  <2>1. ASSUME NEW g \in Flows, state'[g] # "gone", \A v \in Workers : ~InSign(v, g)'
        PROVE  tried'[g] <= attempts'[g] + Crashes'
    <3>1. \A v \in Workers : ~InSign(v, g)
      BY <1>1, <1>2, <2>1 DEF InSign, Busy
    <3> QED BY <1>2, <1>3, <2>1, <3>1 DEF AuthInv, Counted
  <2> QED BY <1>2, <1>3, <2>1 DEF AuthInv, Counted
<1>7. Fresh'
  BY <1>2 DEF AuthInv, Fresh, Submitted
<1> QED BY <1>4, <1>5, <1>6, <1>7 DEF AuthInv

LEMMA AuthInvStep == TypeOK /\ TypeOK' /\ AuthInv /\ [Next]_vars => AuthInv'
<1> SUFFICES ASSUME TypeOK, TypeOK', AuthInv, [Next]_vars PROVE AuthInv'
  OBVIOUS
<1>1. ASSUME NEW f \in Flows, Redeliver(f)
      PROVE  AuthInv'
  BY <1>1 DEF Redeliver, Spend, AuthInv, OneRun
<1>2. ASSUME NEW f \in Flows, FlowExpires(f)
      PROVE  AuthInv'
  <2>1. Shape'
    BY <1>2 DEF FlowExpires, AuthInv, Shape
  <2> QED BY <1>2, <2>1, RowsKeep DEF FlowExpires, history, TypeOK
<1>3. CASE CheckCooldowns
  <2>1. Shape'
    BY <1>3 DEF CheckCooldowns, AuthInv, Shape
  <2> QED BY <1>3, <2>1, RowsKeep DEF CheckCooldowns, flowRows, history, TypeOK
<1>4. CASE Delete
  <2>1. Shape'
    BY <1>4 DEF Delete, AuthInv, Shape
  <2> QED BY <1>4, <2>1, RowsKeep DEF Delete, history, TypeOK
<1>5. CASE UNCHANGED vars
  BY <1>5 DEF vars, dbVars, flowRows, history, AuthInv, OneRun, Shape, Counted, Fresh, Busy,
              InSign, Submitted, Crashes
<1> QED BY <1>1, <1>2, <1>3, <1>4, <1>5, InvOfSteps, InvOfHandlers, DeliverKeeps DEF Next

LEMMA AuthInvCorrect ==
    ASSUME OnceOnly
    PROVE  Spec => []AuthInv
BY TypeInit, TypeStep, AuthInvInit, AuthInvStep, PTL DEF Spec

\* Whatever the number of workers and the overlap of confirm requests, a flow
\* makes no more sign_in calls than auth_flow_max_attempts plus one for each
\* crash of a worker, provided no message is delivered twice.
THEOREM AttemptsBounded ==
    ASSUME OnceOnly
    PROVE  Spec => []AttemptsLimit
<1>1. AuthInv => AttemptsLimit
  BY DEF AuthInv, Counted, AttemptsLimit
<1> QED BY <1>1, AuthInvCorrect, PTL

\* Whatever the crashes and the overlap of confirm requests, every sign_in
\* call of a flow has a code of its own that was handed in for it, provided
\* no message is delivered twice.
THEOREM CodesTriedOnce ==
    ASSUME OnceOnly
    PROVE  Spec => []NoReplay
<1>1. AuthInv => NoReplay
  BY DEF AuthInv, Fresh, NoReplay
<1> QED BY <1>1, AuthInvCorrect, PTL
-----------------------------------------------------------------------------
(* Why runs end.                                                           *)

Stage(q) ==
    CASE q.phase = "send"            -> 5
      [] q.phase \in {"poll", "sign"} -> 4
      [] q.phase = "pwpoll"          -> 3
      [] q.phase = "check"           -> 2
      [] q.phase = "close"           -> 1
      [] OTHER                       -> 0

\* What is left of a run: its stages, then the time to poll, then the call
\* that is out.
Nearer(p, q) ==
    \/ Stage(p) < Stage(q)
    \/ /\ Stage(p) = Stage(q)
       /\ \/ p.spent /\ ~q.spent
          \/ p.spent = q.spent /\ p.phase = "poll" /\ q.phase = "sign"

\* A code is taken to Telegram, which may send the run back to the poll: only
\* while there is time.
Round(p, q) == p.phase = "sign" /\ q.phase = "poll" /\ ~q.spent

\* A step of its own brings a run nearer to its end or begins a round, and
\* nothing else throws it back.
Approach ==
    \A w \in Workers : Busy(w) =>
        /\ Step(w) => Nearer(run'[w], run[w]) \/ Round(run'[w], run[w])
        /\ \/ run'[w] = run[w]
           \/ Nearer(run'[w], run[w])
           \/ PickUpCode(w) /\ Round(run'[w], run[w])

\* A round has a number of its own, and there are MaxAttempts of them.
RoundsCounted ==
    \A w \in Workers :
        /\ Round(run'[w], run[w]) =>
              run[w].tries < run'[w].tries /\ run'[w].tries <= MaxAttempts
        /\ Stage(run[w]) = 4 /\ Stage(run'[w]) = 4 => run[w].tries <= run'[w].tries

\* What a run remembers of its attempts is what the row says, except in sign_in.
Remembered ==
    \A w \in Workers :
        run[w].phase \in {"send", "poll"} => run[w].tries <= attempts[run[w].flow]

\* The steps of a run.
LEMMA OwnApproach ==
    ASSUME TypeOK, NEW w \in Workers, Step(w)
    PROVE  /\ Busy(w)
           /\ \A v \in Workers : v # w => run'[v] = run[v]
           /\ Nearer(run'[w], run[w]) \/ (PickUpCode(w) /\ Round(run'[w], run[w]))
<1>1. Busy(w)
  BY DEF Step, CodeSent, PollTimeout, PollTerminated, PickUpCode, PickUpPassword, SignedIn,
         PasswordNeeded, WrongCode, WrongPassword, Fails, Revoked, RowsGone, Close, At, Busy,
         Phases
<1>2. run[w] \in Runs /\ run \in [Workers -> Runs \cup {NoRun}]
  BY <1>1, BusyIsRun DEF Busy, TypeOK
<1>3. ASSUME NEW p, run' = [run EXCEPT ![w] = p],
             Nearer(p, run[w]) \/ (PickUpCode(w) /\ Round(p, run[w]))
      PROVE  /\ \A v \in Workers : v # w => run'[v] = run[v]
             /\ Nearer(run'[w], run[w]) \/ (PickUpCode(w) /\ Round(run'[w], run[w]))
  BY <1>2, <1>3
<1>4. ASSUME NEW s, NEW a, Commit(w, s, a, "close"), At(w, Phases \ {"close"})
      PROVE  /\ \A v \in Workers : v # w => run'[v] = run[v]
             /\ Nearer(run'[w], run[w]) \/ (PickUpCode(w) /\ Round(run'[w], run[w]))
  <2> DEFINE p == [run[w] EXCEPT !.phase = "close", !.state = s, !.account = a]
  <2>1. run' = [run EXCEPT ![w] = p]
    BY <1>2, <1>4 DEF Commit
  <2>2. p.phase = "close"
    BY <1>2 DEF Runs
  <2>3. Nearer(p, run[w])
    BY <1>4, <2>2 DEF Nearer, Stage, At, Phases
  <2> HIDE DEF p
  <2> QED BY <1>1, <1>3, <2>1, <2>3
<1>5. CASE \/ PollTimeout(w) \/ SignedIn(w) \/ WrongPassword(w) \/ Fails(w) \/ Revoked(w)
  <2>1. \E s, a : Commit(w, s, a, "close")
    BY <1>5 DEF PollTimeout, SignedIn, WrongPassword, Fails, Revoked
  <2>2. At(w, Phases \ {"close"})
    BY <1>5 DEF PollTimeout, SignedIn, WrongPassword, Fails, Revoked, At, Phases
  <2> QED BY <1>1, <1>4, <2>1, <2>2
<1>6. CASE WrongCode(w)
  <2> DEFINE p == [run[w] EXCEPT !.phase = "poll", !.state = "wait_code",
                                 !.account = run[w].account]
  <2>1. run' = [run EXCEPT ![w] = p] /\ run[w].phase = "sign"
    BY <1>2, <1>6 DEF WrongCode, Commit, At
  <2>2. p.phase = "poll" /\ p.spent = run[w].spent
    BY <1>2 DEF Runs
  <2>3. Nearer(p, run[w])
    BY <2>1, <2>2 DEF Nearer, Stage
  <2> HIDE DEF p
  <2> QED BY <1>1, <1>3, <2>1, <2>3
<1>7. CASE CodeSent(w)
  <2> DEFINE p == [run[w] EXCEPT !.phase = "poll", !.state = "wait_code",
                                 !.account = "code_sent"]
  <2>1. run' = [run EXCEPT ![w] = p] /\ run[w].phase = "send"
    BY <1>2, <1>7 DEF CodeSent, At
  <2>2. p.phase = "poll"
    BY <1>2 DEF Runs
  <2>3. Nearer(p, run[w])
    BY <2>1, <2>2 DEF Nearer, Stage
  <2> HIDE DEF p
  <2> QED BY <1>1, <1>3, <2>1, <2>3
<1>8. CASE PasswordNeeded(w)
  <2> DEFINE p == [run[w] EXCEPT !.phase = "pwpoll", !.state = "wait_password",
                       !.account = "password_required", !.spent = FALSE, !.twofa = TRUE]
  <2>1. run' = [run EXCEPT ![w] = p] /\ run[w].phase = "sign"
    BY <1>2, <1>8 DEF PasswordNeeded, At
  <2>2. p.phase = "pwpoll"
    BY <1>2 DEF Runs
  <2>3. Nearer(p, run[w])
    BY <2>1, <2>2 DEF Nearer, Stage
  <2> HIDE DEF p
  <2> QED BY <1>1, <1>3, <2>1, <2>3
<1>9. CASE PollTerminated(w)
  <2> DEFINE p == [run[w] EXCEPT !.phase = "close"]
  <2>1. run' = [run EXCEPT ![w] = p] /\ run[w].phase \in {"poll", "pwpoll"}
    BY <1>2, <1>9 DEF PollTerminated, At
  <2>2. p.phase = "close"
    BY <1>2 DEF Runs
  <2>3. Nearer(p, run[w])
    BY <2>1, <2>2 DEF Nearer, Stage
  <2> HIDE DEF p
  <2> QED BY <1>1, <1>3, <2>1, <2>3
<1>10. CASE PickUpPassword(w)
  <2> DEFINE p == [run[w] EXCEPT !.phase = "check", !.state = "password_submitted"]
  <2>1. run' = [run EXCEPT ![w] = p] /\ run[w].phase = "pwpoll"
    BY <1>2, <1>10 DEF PickUpPassword, At
  <2>2. p.phase = "check"
    BY <1>2 DEF Runs
  <2>3. Nearer(p, run[w])
    BY <2>1, <2>2 DEF Nearer, Stage
  <2> HIDE DEF p
  <2> QED BY <1>1, <1>3, <2>1, <2>3
<1>11. CASE PickUpCode(w)
  <2>1. run[w].phase = "poll" /\ ~run[w].spent
    BY <1>11 DEF PickUpCode, At
  <2>2. \E p : /\ run' = [run EXCEPT ![w] = p]
               /\ Stage(p) < Stage(run[w]) \/ p.phase = "sign"
    <3> DEFINE f == run[w].flow
               n == attempts[f] + 1
    <3>1. CASE Allowed(n)
      <4> DEFINE p == [run[w] EXCEPT !.phase = "sign", !.state = state[f], !.tries = n]
      <4>1. run' = [run EXCEPT ![w] = p]
        BY <1>2, <1>11, <3>1 DEF PickUpCode
      <4>2. p.phase = "sign"
        BY <1>2 DEF Runs
      <4> HIDE DEF p
      <4> QED BY <4>1, <4>2
    <3>2. CASE ~Allowed(n)
      <4> DEFINE p == [run[w] EXCEPT !.phase = "close"]
      <4>1. run' = [run EXCEPT ![w] = p]
        BY <1>2, <1>11, <3>2 DEF PickUpCode
      <4>2. p.phase = "close"
        BY <1>2 DEF Runs
      <4>3. Stage(p) < Stage(run[w])
        BY <2>1, <4>2 DEF Stage
      <4> HIDE DEF p
      <4> QED BY <4>1, <4>3
    <3> QED BY <3>1, <3>2
  <2>3. PICK p : /\ run' = [run EXCEPT ![w] = p]
                 /\ Stage(p) < Stage(run[w]) \/ p.phase = "sign"
    BY <2>2
  <2> QED BY <1>1, <1>3, <1>11, <2>1, <2>3 DEF Nearer, Round
<1>12. CASE RowsGone(w) \/ Close(w)
  <2>1. run' = [run EXCEPT ![w] = NoRun]
    BY <1>12 DEF RowsGone, Close, EndRun
  <2>2. Nearer(NoRun, run[w])
    BY <1>1, <1>2 DEF Nearer, Stage, NoRun, Busy, Runs, Phases
  <2> QED BY <1>1, <1>3, <2>1, <2>2
<1> QED BY <1>1, <1>5, <1>6, <1>7, <1>8, <1>9, <1>10, <1>11, <1>12 DEF Step

\* The steps that end a run from outside, and those of everybody else.
LEMMA OtherApproach ==
    ASSUME TypeOK, [Next]_vars, \A v \in Workers : ~Step(v)
    PROVE  Approach
<1>1. run \in [Workers -> Runs \cup {NoRun}]
  BY DEF TypeOK
<1>2. ASSUME NEW v \in Workers, NEW p, run' = [run EXCEPT ![v] = p],
             Busy(v) => Nearer(p, run[v])
      PROVE  Approach
  BY <1>1, <1>2 DEF Approach
<1>3. ASSUME NEW v \in Workers, Busy(v)
      PROVE  Nearer(NoRun, run[v])
  <2>1. run[v] \in Runs
    BY <1>3, BusyIsRun DEF Busy
  <2> QED BY <1>1, <1>3, <2>1 DEF Nearer, Stage, NoRun, Busy, Runs, Phases
<1>4. ASSUME NEW v \in Workers, Deadline(v)
      PROVE  Approach
  <2> DEFINE p == [run[v] EXCEPT !.spent = TRUE]
  <2>1. run[v] \in Runs
    BY <1>4, BusyIsRun DEF Deadline
  <2>2. run' = [run EXCEPT ![v] = p]
    BY <1>1, <1>4 DEF Deadline
  <2>3. p.phase = run[v].phase /\ p.spent
    BY <2>1 DEF Runs
  <2>4. Nearer(p, run[v])
    BY <1>4, <2>3 DEF Nearer, Stage, Deadline
  <2> HIDE DEF p
  <2> QED BY <1>2, <2>2, <2>4
<1>5. ASSUME NEW v \in Workers, SoftTimeout(v) \/ Crash(v)
      PROVE  Approach
  <2>1. run' = [run EXCEPT ![v] = NoRun]
    BY <1>5 DEF SoftTimeout, Crash, EndRun
  <2> QED BY <1>2, <1>3, <2>1
<1>6. ASSUME NEW v \in Workers, NEW f \in Flows, Deliver(v, f)
      PROVE  Approach
  <2>1. ~Busy(v) /\ \E p : run' = [run EXCEPT ![v] = p]
    <3>1. ~Busy(v)
      BY <1>6 DEF Deliver, Busy
    <3>2. CASE state[f] = "gone"
      <4>1. run' = [run EXCEPT ![v] = run[v]]
        BY <1>1, <1>6, <3>2 DEF Deliver
      <4> QED BY <3>1, <4>1
    <3>3. CASE state[f] # "gone"
      BY <1>6, <3>1, <3>3 DEF Deliver
    <3> QED BY <3>2, <3>3
  <2> QED BY <1>2, <2>1
<1>7. ASSUME \/ \E f \in Flows : Redeliver(f) \/ FlowExpires(f)
             \/ \E r \in Requests : Handler(r)
             \/ CheckCooldowns \/ Delete \/ UNCHANGED vars
      PROVE  Approach
  <2>1. UNCHANGED run
    BY <1>7 DEF Redeliver, FlowExpires, Handler, AskCode, SendCode, Disconnect, SaveFlow,
                SaveDisconnect, ConfirmCode, ConfirmPassword, FailInit, Begin, CheckCooldowns,
                Delete, vars
  <2> QED BY <2>1 DEF Approach
<1> QED BY <1>4, <1>5, <1>6, <1>7 DEF Next

\* Every step of unified_auth_task is one towards its end or takes a code to
\* Telegram; once the 280 s of a poll are over no code is taken, and what users,
\* other runs and the clock do throws no run back, whatever is delivered twice.
THEOREM RunsApproach == Spec => [][Approach]_vars
<1>1. TypeOK /\ [Next]_vars => [Approach]_vars
  <2> SUFFICES ASSUME TypeOK, [Next]_vars PROVE Approach
    OBVIOUS
  <2>1. ASSUME NEW v \in Workers, Step(v)
        PROVE  Approach
    <3>1. ASSUME NEW w \in Workers, Busy(w), Step(w)
          PROVE  Nearer(run'[w], run[w]) \/ Round(run'[w], run[w])
      BY <3>1, OwnApproach
    <3>2. ASSUME NEW w \in Workers, Busy(w)
          PROVE  \/ run'[w] = run[w]
                 \/ Nearer(run'[w], run[w])
                 \/ PickUpCode(w) /\ Round(run'[w], run[w])
      BY <2>1, OwnApproach
    <3> QED BY <3>1, <3>2 DEF Approach
  <2> QED BY <2>1, OtherApproach
<1> QED BY <1>1, TypeCorrect, PTL DEF Spec

\* How a run w that becomes p and the attempts of its flow go together.
Moves(w, p) ==
    \/ /\ p.phase \notin {"send", "poll", "sign"}
       /\ \A g \in Flows : g # run[w].flow => attempts'[g] = attempts[g]
    \/ /\ ~Busy(w) /\ p.phase = "send" /\ p.tries = 0
       /\ p.flow \in Flows
       /\ attempts' = attempts
    \/ /\ p.flow = run[w].flow /\ p.tries = run[w].tries
       /\ p.phase = run[w].phase \/ (p.phase = "poll" /\ run[w].phase = "send")
       /\ attempts' = attempts
    \/ /\ p.phase = "sign" /\ run[w].phase = "poll"
       /\ p.tries = attempts[run[w].flow] + 1 /\ p.tries <= MaxAttempts
       /\ attempts' = attempts
    \/ /\ p.flow = run[w].flow /\ p.tries = run[w].tries
       /\ p.phase = "poll" /\ run[w].phase = "sign"
       /\ attempts' = [attempts EXCEPT ![run[w].flow] = p.tries]

LEMMA RunMoves ==
    ASSUME TypeOK, [Next]_vars
    PROVE  \/ UNCHANGED <<run, attempts>>
           \/ \E w \in Workers : \E p : run' = [run EXCEPT ![w] = p] /\ Moves(w, p)
<1> DEFINE Goal == \/ UNCHANGED <<run, attempts>>
                   \/ \E w \in Workers : \E p : run' = [run EXCEPT ![w] = p] /\ Moves(w, p)
<1>1. run \in [Workers -> Runs \cup {NoRun}] /\ attempts \in [Flows -> Nat]
  BY DEF TypeOK
<1>2. ASSUME NEW w \in Workers, NEW s, NEW a, NEW q, Commit(w, s, a, q),
             q = "close" \/ (q = "poll" /\ run[w].phase = "sign"), Busy(w)
      PROVE  Goal
  <2> DEFINE p == [run[w] EXCEPT !.phase = q, !.state = s, !.account = a]
  <2>1. run' = [run EXCEPT ![w] = p]
    BY <1>1, <1>2 DEF Commit
  <2>2. run[w] \in Runs
    BY <1>2, BusyIsRun DEF Busy
  <2>3. p.phase = q /\ p.flow = run[w].flow /\ p.tries = run[w].tries
    BY <2>2 DEF Runs
  <2>4. attempts' = IF run[w].phase = "sign"
                    THEN [attempts EXCEPT ![run[w].flow] = run[w].tries] ELSE attempts
    BY <1>2 DEF Commit
  <2>5. Moves(w, p)
    <3>1. CASE q = "close"
      BY <1>1, <2>3, <2>4, <3>1 DEF Moves
    <3>2. CASE q = "poll" /\ run[w].phase = "sign"
      BY <1>1, <2>3, <2>4, <3>2 DEF Moves
    <3> QED BY <1>2, <3>1, <3>2
  <2> HIDE DEF p
  <2> QED BY <2>1, <2>5
<1>3. ASSUME NEW w \in Workers,
             PollTimeout(w) \/ SignedIn(w) \/ WrongCode(w) \/ WrongPassword(w) \/ Fails(w)
             \/ Revoked(w)
      PROVE  Goal
  <2>1. \E s, a, q : /\ Commit(w, s, a, q) /\ Busy(w)
                     /\ q = "close" \/ (q = "poll" /\ run[w].phase = "sign")
    BY <1>3 DEF PollTimeout, SignedIn, WrongCode, WrongPassword, Fails, Revoked, At, Busy
  <2> QED BY <1>2, <2>1
<1>4. ASSUME NEW w \in Workers, CodeSent(w)
      PROVE  Goal
  <2> DEFINE p == [run[w] EXCEPT !.phase = "poll", !.state = "wait_code",
                                 !.account = "code_sent"]
  <2>1. run' = [run EXCEPT ![w] = p] /\ run[w].phase = "send" /\ attempts' = attempts
    BY <1>1, <1>4 DEF CodeSent, At
  <2>2. run[w] \in Runs
    BY <2>1, BusyIsRun
  <2>3. p.phase = "poll" /\ p.flow = run[w].flow /\ p.tries = run[w].tries
    BY <2>2 DEF Runs
  <2>4. Moves(w, p)
    BY <2>1, <2>3 DEF Moves
  <2> HIDE DEF p
  <2> QED BY <2>1, <2>4
<1>5. ASSUME NEW w \in Workers, PasswordNeeded(w)
      PROVE  Goal
  <2> DEFINE p == [run[w] EXCEPT !.phase = "pwpoll", !.state = "wait_password",
                       !.account = "password_required", !.spent = FALSE, !.twofa = TRUE]
  <2>1. /\ run' = [run EXCEPT ![w] = p] /\ run[w].phase = "sign"
        /\ attempts' = [attempts EXCEPT ![run[w].flow] = run[w].tries]
    BY <1>1, <1>5 DEF PasswordNeeded, At
  <2>2. run[w] \in Runs
    BY <2>1, BusyIsRun
  <2>3. p.phase = "pwpoll"
    BY <2>2 DEF Runs
  <2>4. Moves(w, p)
    BY <1>1, <2>1, <2>3 DEF Moves
  <2> HIDE DEF p
  <2> QED BY <2>1, <2>4
<1>6. ASSUME NEW w \in Workers, PollTerminated(w) \/ PickUpPassword(w)
      PROVE  Goal
  <2>1. /\ Busy(w) /\ attempts' = attempts
        /\ \/ run' = [run EXCEPT ![w] = [run[w] EXCEPT !.phase = "close"]]
           \/ run' = [run EXCEPT ![w] = [run[w] EXCEPT !.phase = "check",
                                                       !.state = "password_submitted"]]
    BY <1>1, <1>6 DEF PollTerminated, PickUpPassword, At, Busy, dbVars, flowRows
  <2>2. run[w] \in Runs
    BY <2>1, BusyIsRun DEF Busy
  <2>3. PICK p : run' = [run EXCEPT ![w] = p] /\ p.phase \in {"close", "check"}
    <3>1. CASE run' = [run EXCEPT ![w] = [run[w] EXCEPT !.phase = "close"]]
      <4>1. [run[w] EXCEPT !.phase = "close"].phase = "close"
        BY <2>2 DEF Runs
      <4> QED BY <3>1, <4>1
    <3>2. CASE run' = [run EXCEPT ![w] = [run[w] EXCEPT !.phase = "check",
                                                        !.state = "password_submitted"]]
      <4>1. [run[w] EXCEPT !.phase = "check", !.state = "password_submitted"].phase = "check"
        BY <2>2 DEF Runs
      <4> QED BY <3>2, <4>1
    <3> QED BY <2>1, <3>1, <3>2
  <2> QED BY <2>1, <2>3 DEF Moves
<1>7. ASSUME NEW w \in Workers, PickUpCode(w)
      PROVE  Goal
  <2> DEFINE f == run[w].flow
             n == attempts[f] + 1
  <2>1. run[w].phase = "poll"
    BY <1>7 DEF PickUpCode, At
  <2>2. run[w] \in Runs
    BY <2>1, BusyIsRun
  <2>3. CASE Allowed(n)
    <3> DEFINE p == [run[w] EXCEPT !.phase = "sign", !.state = state[f], !.tries = n]
    <3>1. run' = [run EXCEPT ![w] = p] /\ attempts' = attempts
      BY <1>1, <1>7, <2>3 DEF PickUpCode
    <3>2. p.phase = "sign" /\ p.tries = n
      BY <2>2 DEF Runs
    <3>3. Moves(w, p)
      BY <2>1, <2>3, <3>1, <3>2 DEF Moves, Allowed
    <3> HIDE DEF p
    <3> QED BY <3>1, <3>3
  <2>4. CASE ~Allowed(n)
    <3> DEFINE p == [run[w] EXCEPT !.phase = "close"]
    <3>1. run' = [run EXCEPT ![w] = p] /\ attempts' = [attempts EXCEPT ![f] = n]
      BY <1>1, <1>7, <2>4 DEF PickUpCode
    <3>2. p.phase = "close"
      BY <2>2 DEF Runs
    <3>3. Moves(w, p)
      BY <1>1, <3>1, <3>2 DEF Moves
    <3> HIDE DEF p
    <3> QED BY <3>1, <3>3
  <2> QED BY <2>3, <2>4
<1>8. ASSUME NEW w \in Workers, RowsGone(w) \/ Close(w) \/ SoftTimeout(w) \/ Crash(w)
      PROVE  Goal
  <2>1. run' = [run EXCEPT ![w] = NoRun] /\ attempts' = attempts
    BY <1>8 DEF RowsGone, Close, SoftTimeout, Crash, EndRun, dbVars, flowRows
  <2>2. Moves(w, NoRun)
    BY <2>1 DEF Moves, NoRun
  <2> QED BY <2>1, <2>2
<1>9. ASSUME NEW w \in Workers, Deadline(w)
      PROVE  Goal
  <2> DEFINE p == [run[w] EXCEPT !.spent = TRUE]
  <2>1. run[w] \in Runs
    BY <1>9, BusyIsRun DEF Deadline
  <2>2. run' = [run EXCEPT ![w] = p] /\ attempts' = attempts
    BY <1>1, <1>9 DEF Deadline, dbVars, flowRows
  <2>3. p.phase = run[w].phase /\ p.flow = run[w].flow /\ p.tries = run[w].tries
    BY <2>1 DEF Runs
  <2>4. Moves(w, p)
    BY <2>2, <2>3 DEF Moves
  <2> HIDE DEF p
  <2> QED BY <2>2, <2>4
<1>10. ASSUME NEW w \in Workers, NEW f \in Flows, Deliver(w, f)
       PROVE  Goal
  <2>1. ~Busy(w) /\ attempts' = attempts
    BY <1>10 DEF Deliver, Busy, dbVars, flowRows
  <2>2. CASE state[f] = "gone"
    BY <1>10, <2>1, <2>2 DEF Deliver
  <2>3. CASE state[f] # "gone"
    <3> DEFINE p == [NoRun EXCEPT !.flow = f, !.phase = "send", !.state = state[f],
                                  !.account = account, !.session = session]
    <3>1. run' = [run EXCEPT ![w] = p]
      BY <1>10, <2>3 DEF Deliver
    <3>2. p.phase = "send" /\ p.tries = 0 /\ p.flow = f
      BY DEF NoRun
    <3>3. Moves(w, p)
      BY <2>1, <3>2 DEF Moves
    <3> HIDE DEF p
    <3> QED BY <3>1, <3>3
  <2> QED BY <2>2, <2>3
<1>11. ASSUME \/ \E f \in Flows : Redeliver(f) \/ FlowExpires(f)
              \/ \E r \in Requests : Handler(r)
              \/ CheckCooldowns \/ Delete \/ UNCHANGED vars
       PROVE  Goal
  <2>1. UNCHANGED <<run, attempts>>
    BY <1>11 DEF Redeliver, FlowExpires, Handler, AskCode, SendCode, Disconnect, SaveFlow,
                 SaveDisconnect, ConfirmCode, ConfirmPassword, FailInit, Begin, CheckCooldowns,
                 Delete, vars, dbVars, flowRows
  <2> QED BY <2>1
<1> HIDE DEF Goal
<1>12. Goal
  BY <1>3, <1>4, <1>5, <1>6, <1>7, <1>8, <1>9, <1>10, <1>11 DEF Next, Step
<1> QED BY <1>12 DEF Goal

LEMMA RoundsStep ==
    ASSUME TypeOK, AuthInv, Remembered, [Next]_vars
    PROVE  Remembered' /\ RoundsCounted
<1>1. run \in [Workers -> Runs \cup {NoRun}] /\ attempts \in [Flows -> Nat]
  BY DEF TypeOK
<1>2. CASE UNCHANGED <<run, attempts>>
  <2>1. ASSUME NEW v \in Workers, Stage(run[v]) = 4
        PROVE  run[v].tries <= run'[v].tries
    <3>1. run[v] \in Runs
      BY <2>1, BusyIsRun DEF Stage
    <3> QED BY <1>2, <3>1 DEF Runs
  <2> QED BY <1>2, <2>1 DEF Remembered, RoundsCounted, Round
<1>3. ASSUME NEW w \in Workers, NEW p, run' = [run EXCEPT ![w] = p], Moves(w, p)
      PROVE  Remembered' /\ RoundsCounted
  <2>1. run'[w] = p /\ \A v \in Workers : v # w => run'[v] = run[v]
    BY <1>1, <1>3
  <2>2. ASSUME NEW v \in Workers, v # w, run[v].phase \in {"send", "poll"}
        PROVE  run[v].tries <= attempts'[run[v].flow]
    <3>1. run[v].flow \in Flows /\ Busy(v)
      BY <2>2, BusyIsRun DEF Busy
    <3>2. run[v].tries <= attempts[run[v].flow]
      BY <2>2 DEF Remembered
    <3>3. Busy(w) => run[v].flow # run[w].flow
      BY <2>2, <3>1 DEF AuthInv, OneRun
    <3>4. ~Busy(w) => run[w].flow = None /\ None \notin Flows
      BY <1>1, AuthAssumption DEF Busy, NoRun, Runs, Phases
    <3>5. attempts'[run[v].flow] = attempts[run[v].flow]
      BY <1>1, <1>3, <3>1, <3>3, <3>4 DEF Moves
    <3> QED BY <3>2, <3>5
  <2>3. p.phase \in {"send", "poll"} => p.tries <= attempts'[p.flow]
    <3>1. CASE Busy(w)
      <4>1. run[w] \in Runs /\ run[w].flow \in Flows /\ run[w].tries \in Nat
        BY <3>1, BusyIsRun DEF Busy, Runs
      <4> QED BY <1>1, <1>3, <3>1, <4>1 DEF Moves, Remembered
    <3>2. CASE ~Busy(w)
      BY <1>1, <1>3, <3>2 DEF Moves, Busy
    <3> QED BY <3>1, <3>2
  <2>4. Remembered'
    BY <2>1, <2>2, <2>3 DEF Remembered
  <2>5. ASSUME NEW v \in Workers
        PROVE  /\ Round(run'[v], run[v]) =>
                     run[v].tries < run'[v].tries /\ run'[v].tries <= MaxAttempts
               /\ Stage(run[v]) = 4 /\ Stage(run'[v]) = 4 => run[v].tries <= run'[v].tries
    <3>1. CASE v # w
      <4>1. ~Round(run'[v], run[v])
        BY <2>1, <3>1 DEF Round
      <4>2. Stage(run[v]) = 4 => run[v].tries \in Nat
        BY BusyIsRun DEF Stage, Runs
      <4> QED BY <2>1, <3>1, <4>1, <4>2
    <3>2. CASE v = w /\ run[w].phase \in {"poll", "sign"} /\ p.phase \in {"poll", "sign"}
      <4>1. run[w] \in Runs /\ run[w].flow \in Flows /\ run[w].tries \in Nat
        BY <3>2, BusyIsRun DEF Runs
      <4>2. run[w].phase = "poll" => run[w].tries <= attempts[run[w].flow]
        BY <3>2 DEF Remembered
      <4>3. /\ p.phase = "sign" /\ run[w].phase = "poll" =>
                  run[w].tries < p.tries /\ p.tries <= MaxAttempts
            /\ run[w].tries <= p.tries
        BY <1>1, <1>3, <3>2, <4>1, <4>2 DEF Moves, Busy
      <4> QED BY <2>1, <3>2, <4>3 DEF Round
    <3>3. CASE v = w /\ ~(run[w].phase \in {"poll", "sign"} /\ p.phase \in {"poll", "sign"})
      BY <2>1, <3>3 DEF Round, Stage
    <3> QED BY <3>1, <3>2, <3>3
  <2> QED BY <2>4, <2>5 DEF RoundsCounted
<1> QED BY <1>2, <1>3, RunMoves

\* Provided no message is delivered twice, each round of a run has a number of
\* its own, at most auth_flow_max_attempts: with RunsApproach, the steps of a
\* run descend in an order without infinite descent.
THEOREM RoundsAreCounted ==
    ASSUME OnceOnly
    PROVE  Spec => [][RoundsCounted]_vars
<1>1. Init => Remembered
  BY DEF Init, Remembered, NoRun
<1>2. TypeOK /\ AuthInv /\ Remembered /\ [Next]_vars => Remembered' /\ [RoundsCounted]_vars
  BY RoundsStep
<1> QED BY <1>1, <1>2, TypeCorrect, AuthInvCorrect, PTL DEF Spec
=============================================================================
