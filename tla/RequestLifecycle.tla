-------------------------- MODULE RequestLifecycle --------------------------
(***************************************************************************)
(* The abstract specification of the query_requests table: the requests    *)
(* take the transitions of RequestRow, one at a time, in any order.        *)
(***************************************************************************)
EXTENDS RequestRow

CONSTANT Ids     \* request ids

VARIABLE rows    \* the row of each request

LifecycleInit == \A i \in Ids : \E kind \in Kinds : rows[i] = AbsentRow(kind)

LifecycleNext ==
    \E i \in Ids :
        /\ RowStep(rows[i], rows'[i])
        /\ \A j \in Ids \ {i} : rows'[j] = rows[j]

Lifecycle == LifecycleInit /\ [][LifecycleNext]_rows

=============================================================================
