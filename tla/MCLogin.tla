------------------------------- MODULE MCLogin -------------------------------
(* Instances of Login for TLC. *)
EXTENDS Login, TLC

CONSTANTS n1, n2

\* The profile of one network is right, or has the other's endpoints.
OwnOrCrossed == {[n \in Networks |-> n], [n \in Networks |-> n2]}

Symmetry == Permutations(Logins)
=============================================================================
