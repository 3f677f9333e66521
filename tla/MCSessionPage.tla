---------------------------- MODULE MCSessionPage ----------------------------
(***************************************************************************)
(* Small instances of SessionPage for TLC.                                 *)
(***************************************************************************)
EXTENDS SessionPage, TLC

=============================================================================
