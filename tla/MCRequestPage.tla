---------------------------- MODULE MCRequestPage ----------------------------
(***************************************************************************)
(* Small instances of RequestPage for TLC.                                 *)
(***************************************************************************)
EXTENDS RequestPage, TLC

=============================================================================
