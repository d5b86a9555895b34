----------------------------- MODULE MCAuthFlow -----------------------------
(***************************************************************************)
(* Instances of AuthFlow for TLC.                                          *)
(***************************************************************************)
EXTENDS AuthFlow, TLC

Faultless == [f \in Faults |-> 0]
OneCrash == [Faultless EXCEPT !["crash"] = 1]
OneOfEach == [f \in Faults |-> 1]

Symmetric == Permutations(Workers) \cup Permutations(Flows) \cup Permutations(Requests)
=============================================================================
