------------------------------ MODULE Exclusion ------------------------------
(***************************************************************************)
(* What a lease or a lock is taken for: of those who work on a thing, the  *)
(* second enters only after the first has left.                            *)
(***************************************************************************)
CONSTANTS Things, Holders

VARIABLE inside    \* who works on each thing

Init == inside = [t \in Things |-> {}]

Enter(t, h) ==
    /\ inside[t] = {}
    /\ inside' = [inside EXCEPT ![t] = {h}]

\* Work on several things may be given up at once.
Leave(T) ==
    /\ \E t \in T : inside[t] # {}
    /\ inside' = [t \in Things |-> IF t \in T THEN {} ELSE inside[t]]

Next ==
    \/ \E t \in Things, h \in Holders : Enter(t, h)
    \/ \E T \in SUBSET Things : Leave(T)

Spec == Init /\ [][Next]_inside
=============================================================================
