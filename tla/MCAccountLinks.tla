--------------------------- MODULE MCAccountLinks ---------------------------
(***************************************************************************)
(* The symmetry of AccountLinks' model values, for TLC.                    *)
(***************************************************************************)
EXTENDS AccountLinks, TLC

Symmetric == Permutations(Accounts) \cup Permutations(Apps) \cup Permutations(Requests)
=============================================================================
