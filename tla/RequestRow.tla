----------------------------- MODULE RequestRow -----------------------------
(***************************************************************************)
(* What a reader of one query_requests row may rely on: the statuses it    *)
(* goes through, and what else changes with them.  Who acts, which policy  *)
(* is in force, the queue, the workers and their faults are left open:     *)
(* every transition is a relation between the row before (p) and after (q).*)
(*                                                                         *)
(* RequestLifecycle is the abstract specification made of them, which      *)
(* DeploymentBatch implements; RequestPage uses them for everything that   *)
(* happens to a request behind an open page.                               *)
(*                                                                         *)
(* Source: app/Services/QueryRequestWorkflow.php, the transactions of      *)
(* app/Jobs/ExecuteQueryRequest.php, app/Services/QuerySessionWorkflow.php *)
(* and app/Console/Commands/ExpireQuerySessions.php.                       *)
(***************************************************************************)
EXTENDS Naturals

CONSTANTS
    Actors,   \* the users that dispatched_by_id can name
    None      \* a null column

ASSUME RowAssumption == None \notin Actors

RowStatus == {"absent", "draft", "pending_review", "approved", "rejected",
              "scheduled", "running", "completed", "failed", "cancelled"}

RowFinished == {"completed", "failed", "rejected", "cancelled"}

Kinds == {"single_execution", "query_access"}

Row == [kind : Kinds, status : RowStatus,
        revision : Nat, stamp : Nat, queryType : {"read", "write"},
        dispatched : BOOLEAN, dispatchedBy : Actors \cup {None},
        resolved : BOOLEAN]

\* The row before the request is created.
AbsentRow(kind) ==
    [kind |-> kind, status |-> "absent", revision |-> 0, stamp |-> 0,
     queryType |-> "write", dispatched |-> FALSE, dispatchedBy |-> None,
     resolved |-> FALSE]

IsBatch(p) == p.kind = "single_execution"

\* create(), createDraft(), createRetryRequest().
Created(p, q) ==
    /\ p.status = "absent"
    /\ \E s \in {"draft", "pending_review", "approved", "scheduled"}, t \in {"read", "write"} :
          /\ s = "draft" => IsBatch(p) /\ t = "write"
          /\ s = "scheduled" => IsBatch(p)
          /\ q = [p EXCEPT !.status = s, !.revision = 1, !.stamp = 1, !.queryType = t]

\* update() and updateDraft(): only work that is not under way changes, and every
\* change opens a new revision.
Edited(p, q) ==
    /\ IsBatch(p) /\ ~p.dispatched
    /\ p.status \in {"draft", "pending_review", "approved", "rejected", "scheduled"}
    /\ \E s \in {"draft", "pending_review", "approved", "scheduled"}, t \in {"read", "write"} :
          /\ s = "draft" => p.status = "draft" /\ t = "write"
          /\ q = [p EXCEPT !.status = s, !.revision = p.revision + 1,
                     !.stamp = p.revision + 1, !.queryType = t, !.dispatchedBy = None]

\* review().
Decided(p, q) ==
    /\ p.status = "pending_review"
    /\ \E s \in {"approved", "scheduled", "rejected"} :
          /\ s = "scheduled" => IsBatch(p)
          /\ q = [p EXCEPT !.status = s]

\* withdrawFromReview().
Withdrawn(p, q) ==
    /\ IsBatch(p) /\ p.status = "pending_review" /\ ~p.dispatched
    /\ q = [p EXCEPT !.status = "draft", !.revision = p.revision + 1,
                     !.dispatchedBy = None]

\* dispatch() for a person or (None) for the scheduler, and an in-place retry().
Dispatched(p, q) ==
    /\ IsBatch(p)
    /\ \/ p.status \in {"approved", "scheduled"} /\ ~p.dispatched
       \/ p.status = "failed" /\ p.queryType = "read"
    /\ \E a \in Actors \cup {None} :
          /\ a = None => p.status = "scheduled"
          /\ q = [p EXCEPT !.status = "approved", !.dispatched = TRUE, !.dispatchedBy = a]

\* Preflight blocks the work, or its requester is disabled: it goes back to its
\* owner, at dispatch or when a worker takes it up.
GivenBack(p, q) ==
    /\ IsBatch(p) /\ p.status \in {"approved", "scheduled", "running"}
    /\ q = [p EXCEPT !.status = "approved", !.dispatched = FALSE, !.dispatchedBy = None]

\* Current policy requires an approval that the work does not have.
SentBackToReview(p, q) ==
    /\ p.status \in {"approved", "scheduled", "running"}
    /\ q = [p EXCEPT !.status = "pending_review", !.revision = p.revision + 1,
                     !.dispatched = FALSE, !.dispatchedBy = None]

\* A worker claims the batch, or a session of the access request starts.
Started(p, q) ==
    /\ p.status = "approved"
    /\ q = [p EXCEPT !.status = "running"]

\* The work ends: the completion or failure of a run (also of one that failed()
\* has given up on, and that may have been dispatched again since), the failed
\* hook of a job, the end or expiry of a session.
Ended(p, q) ==
    \/ /\ p.status \in {"running", "failed"} \/ (p.status = "approved" /\ p.dispatched)
       /\ q = [p EXCEPT !.status = "completed"]
    \/ /\ IsBatch(p) /\ p.status \notin RowFinished \cup {"absent"}
       /\ q = [p EXCEPT !.status = "failed"]

\* cancel().
Cancelled(p, q) ==
    /\ p.status \notin RowFinished \cup {"absent"}
    /\ q = [p EXCEPT !.status = "cancelled"]

\* resolveFailure().
Resolved(p, q) ==
    /\ IsBatch(p) /\ p.status = "failed" /\ ~p.resolved
    /\ q = [p EXCEPT !.resolved = TRUE]

RowStep(p, q) ==
    \/ Created(p, q) \/ Edited(p, q) \/ Decided(p, q) \/ Withdrawn(p, q)
    \/ Dispatched(p, q) \/ GivenBack(p, q) \/ SentBackToReview(p, q)
    \/ Started(p, q) \/ Ended(p, q) \/ Cancelled(p, q) \/ Resolved(p, q)

=============================================================================
