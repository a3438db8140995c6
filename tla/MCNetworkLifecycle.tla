------------------------ MODULE MCNetworkLifecycle ------------------------
(* Instances of NetworkLifecycle for TLC. *)
EXTENDS NetworkLifecycle, TLC
=============================================================================
