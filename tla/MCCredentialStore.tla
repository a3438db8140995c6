------------------------- MODULE MCCredentialStore -------------------------
(* Instances of CredentialStore for TLC. *)
EXTENDS CredentialStore, TLC

Symmetry == Permutations(Processes)
=============================================================================
