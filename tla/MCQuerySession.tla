--------------------------- MODULE MCQuerySession ---------------------------
(***************************************************************************)
(* Small instances of QuerySession for TLC.                                *)
(***************************************************************************)
EXTENDS QuerySession, TLC

CONSTANTS q1, q2

\* Everything is permitted; a fresh approval is needed; access is withdrawn.
OpenSituation   == [access |-> TRUE, approval |-> FALSE]
StrictSituation == [OpenSituation EXCEPT !.approval = TRUE]
ClosedSituation == [OpenSituation EXCEPT !.access = FALSE]

OpenOnly      == {OpenSituation}
AllSituations == {OpenSituation, StrictSituation, ClosedSituation}

Symmetry == Permutations(Queries)
=============================================================================
