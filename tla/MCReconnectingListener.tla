----------------------- MODULE MCReconnectingListener -----------------------
(* Instances of ReconnectingListener for TLC. *)
EXTENDS ReconnectingListener
=============================================================================
