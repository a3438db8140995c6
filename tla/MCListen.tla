------------------------------ MODULE MCListen ------------------------------
(***************************************************************************)
(* Small instances of Listen: two or three envelopes, a clock of two or     *)
(* three ticks, pages of one or two rows.  Ids are plain naturals, because  *)
(* their order matters.                                                     *)
(***************************************************************************)
EXTENDS Listen, TLC
=============================================================================
