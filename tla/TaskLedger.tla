----------------------------- MODULE TaskLedger -----------------------------
(***************************************************************************)
(* What invite dispatch promises about the tasks of a campaign, whatever   *)
(* the number of workers: a task belongs to at most one run, only the run  *)
(* it belongs to gives a verdict on it, a verdict stands once the run has  *)
(* let go of the task, and a task without a verdict can be claimed again.  *)
(***************************************************************************)
CONSTANTS Tasks, Runs, None

VARIABLES
    owner,     \* the run each task belongs to, or None
    verdict    \* "open", one of Verdicts, or "gone" with its campaign

Verdicts == {"success", "failed", "skipped"}

Init ==
    /\ owner = [t \in Tasks |-> None]
    /\ verdict = [t \in Tasks |-> "open"]

Claim(r, S) ==
    /\ \A t \in S : owner[t] = None /\ verdict[t] = "open"
    /\ owner' = [t \in Tasks |-> IF t \in S THEN r ELSE owner[t]]
    /\ UNCHANGED verdict

LetGo(r, S) ==
    /\ \A t \in S : owner[t] = r
    /\ owner' = [t \in Tasks |-> IF t \in S THEN None ELSE owner[t]]
    /\ UNCHANGED verdict

Decide(r, t, v) ==
    /\ owner[t] = r
    /\ verdict[t] # "gone"
    /\ verdict' = [verdict EXCEPT ![t] = v]
    /\ owner' = owner \/ owner' = [owner EXCEPT ![t] = None]

Erase ==
    /\ verdict' = [t \in Tasks |-> "gone"]
    /\ UNCHANGED owner

Next ==
    \/ \E r \in Runs, S \in SUBSET Tasks : Claim(r, S) \/ LetGo(r, S)
    \/ \E r \in Runs, t \in Tasks, v \in Verdicts : Decide(r, t, v)
    \/ Erase

Spec == Init /\ [][Next]_<<owner, verdict>>
=============================================================================
