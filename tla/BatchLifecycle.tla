--------------------------- MODULE BatchLifecycle ---------------------------
(***************************************************************************)
(* DeploymentBatch implements RequestLifecycle: seen through the columns a *)
(* page shows, every step of a handler, a worker or a fault is a step of   *)
(* one abstract row or leaves the table alone.                             *)
(***************************************************************************)
EXTENDS DeploymentBatch

\* The row of a request as its readers see it.
RowOf(r) ==
    [kind |-> "single_execution", status |-> req[r].status,
     revision |-> req[r].revision, stamp |-> req[r].stamp,
     queryType |-> req[r].queryType, dispatched |-> req[r].dispatched,
     dispatchedBy |-> req[r].dispatchedBy, resolved |-> req[r].resolved]

Table == INSTANCE RequestLifecycle
         WITH rows <- [r \in Requests |-> RowOf(r)], Ids <- Requests, Actors <- Users

\* Every request goes through the transitions of RequestRow and no others: no
\* interleaving of edits, decisions, dispatches, workers and faults takes a row
\* from one status to another in a way its handlers do not foresee, changes its
\* statements while it is dispatched, or changes them without a new revision.
FollowsLifecycle == Table!Lifecycle

=============================================================================
