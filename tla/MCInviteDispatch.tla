-------------------------- MODULE MCInviteDispatch --------------------------
(***************************************************************************)
(* Instances of InviteDispatch for TLC: the budgets of the deployments and *)
(* the symmetry of the model values.                                       *)
(***************************************************************************)
EXTENDS InviteDispatch, TLC

Faultless == [f \in Faults |-> 0]

\* Prefork children: a crash and a redelivery; nobody resumes and the broker is
\* reachable, so chains of dispatches must not break.
ParallelBudget == [Faultless EXCEPT !["crash"] = 1, !["duplicate"] = 1]

\* One prefork child: a crash, and a soft limit that is swallowed.
LiveBudget == [Faultless EXCEPT !["crash"] = 1, !["swallow"] = 1]

\* One solo worker: every fault but the time limits.
SoloBudget ==
    [Faultless EXCEPT !["crash"] = 1, !["duplicate"] = 1, !["flood"] = 1,
                      !["resume"] = 1, !["enqueue"] = 1]

OneFlood == [Faultless EXCEPT !["flood"] = 1]
OneResume == [Faultless EXCEPT !["resume"] = 1]

Symmetric == Permutations(Tasks) \cup Permutations(Workers) \cup Permutations(Ids)
=============================================================================
