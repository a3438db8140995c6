--------------------------- MODULE MCTokenRefresh ---------------------------
(* An instance of TokenRefresh for TLC. *)
EXTENDS TokenRefresh
=============================================================================
