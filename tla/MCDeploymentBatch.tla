------------------------- MODULE MCDeploymentBatch -------------------------
(***************************************************************************)
(* Small instances of DeploymentBatch for TLC.                             *)
(***************************************************************************)
EXTENDS BatchLifecycle, TLC

CONSTANTS alice, rita, root, r1, r2, w1, w2

\* Everything is permitted and only writes need an approval; everything needs
\* one; the targets are inactive; the requester is disabled.
OpenPolicy    == [approvalTypes |-> {"write"}, access |-> TRUE, active |-> TRUE, disabled |-> {}]
StrictPolicy  == [OpenPolicy EXCEPT !.approvalTypes = {"read", "write"}]
BlockedPolicy == [OpenPolicy EXCEPT !.active = FALSE]
DisabledAlice == [OpenPolicy EXCEPT !.disabled = {alice}]

OpenOnly == {OpenPolicy}
ApprovalPolicies == {OpenPolicy, StrictPolicy}
AllPolicies == {OpenPolicy, StrictPolicy, BlockedPolicy, DisabledAlice}
=============================================================================
