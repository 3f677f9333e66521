-------------------------- MODULE BatchRefinement --------------------------
(***************************************************************************)
(* DeploymentBatch implements RequestLifecycle, for any numbers of         *)
(* requests, people and workers: Init maps to an initial state of the      *)
(* table and every step of DeploymentBatch maps to one transition of one   *)
(* row or to a stutter.                                                    *)
(*                                                                         *)
(* A step writes at most one row of req, so the argument is one lemma per  *)
(* kind of write (which transition of RequestRow it is), one lemma that    *)
(* lifts a row to the table, and one step per action.  The completion and  *)
(* the failure of a run are transitions of RequestRow only because the     *)
(* batch a worker executes is still under way: that is ExecInv of          *)
(* DeploymentBatchSafety, and the reason the refinement needs the lock.    *)
(***************************************************************************)
EXTENDS BatchLifecycle, DeploymentBatchSafety, TLAPS

\* The row of RequestRow that readers see of a row of DeploymentBatch.
Shown(q) ==
    [kind |-> "single_execution", status |-> q.status,
     revision |-> q.revision, stamp |-> q.stamp,
     queryType |-> q.queryType, dispatched |-> q.dispatched,
     dispatchedBy |-> q.dispatchedBy, resolved |-> q.resolved]

\* The row q comes from the row p by one transition of RequestRow, or looks the same.
Allowed(p, q) == Table!RowStep(Shown(p), Shown(q)) \/ Shown(q) = Shown(p)

\* A write of one row that is allowed is a step of the table.
LEMMA WriteIsTableStep ==
    ASSUME TypeOK, NEW r \in Requests, NEW q, req' = [req EXCEPT ![r] = q],
           Allowed(req[r], q)
    PROVE  [Table!LifecycleNext]_[x \in Requests |-> RowOf(x)]
  <1> DEFINE T == [x \in Requests |-> RowOf(x)]
  <1>1. \A x \in Requests : T[x] = Shown(req[x]) /\ T'[x] = Shown(req'[x])
    BY DEF RowOf, Shown
  <1>2. req'[r] = q /\ \A x \in Requests \ {r} : req'[x] = req[x]
    BY DEF TypeOK
  <1>3. T'[r] = Shown(q) /\ \A x \in Requests \ {r} : T'[x] = T[x]
    BY <1>1, <1>2
  <1>4. CASE Shown(q) = Shown(req[r])
    <2>1. \A x \in Requests : RowOf(x)' = RowOf(x)
      BY <1>1, <1>3, <1>4
    <2> QED
      BY <2>1
  <1>5. CASE Table!RowStep(Shown(req[r]), Shown(q))
    <2>1. Table!RowStep(T[r], T'[r])
      BY <1>1, <1>3, <1>5
    <2>2. Table!LifecycleNext
      BY <2>1, <1>3 DEF Table!LifecycleNext
    <2> QED
      BY <2>2
  <1> QED
    BY <1>4, <1>5 DEF Allowed

\* A step that leaves req alone leaves the table alone.
LEMMA QuietIsStutter ==
    ASSUME UNCHANGED req
    PROVE  [Table!LifecycleNext]_[x \in Requests |-> RowOf(x)]
  <1>1. \A x \in Requests : RowOf(x)' = RowOf(x)
    BY DEF RowOf
  <1> QED
    BY <1>1

-----------------------------------------------------------------------------
(* Which transition each kind of write is                                  *)

\* create(), createDraft() and createRetryRequest().
LEMMA CreatedRow ==
    ASSUME NEW p, NEW q, Shown(p) = Shown(AbsentRequest), q.status \in {"draft", "pending_review", "approved", "scheduled"},
           q.status = "draft" => q.queryType = "write",
           q.queryType \in QueryType, q.revision = 1, q.stamp = 1,
           q.dispatched = FALSE, q.dispatchedBy = None, q.resolved = FALSE
    PROVE  Allowed(p, q)
  <1> DEFINE P == Shown(AbsentRequest)
  <1>1. Shown(q) = [P EXCEPT !.status = q.status, !.revision = 1, !.stamp = 1,
                             !.queryType = q.queryType]
    <2>1. PICK z : z = [P EXCEPT !.status = q.status, !.revision = 1, !.stamp = 1,
                             !.queryType = q.queryType]
      BY Zenon
    <2>2. z = Shown(q)
      BY <2>1 DEF Shown, AbsentRequest
    <2> QED
      BY <2>1, <2>2, Zenon
  <1>2. Table!IsBatch(P) /\ P.status = "absent"
    BY DEF Table!IsBatch, Shown, AbsentRequest
  <1>3. Table!Created(P, Shown(q))
    BY <1>1, <1>2 DEF Table!Created, QueryType
  <1> QED
    BY <1>3 DEF Allowed, Table!RowStep

\* update() and updateDraft().
LEMMA EditedRow ==
    ASSUME NEW p, NEW q, p.dispatched = FALSE,
           p.status \in {"draft", "pending_review", "approved", "rejected", "scheduled"},
           q.status \in {"draft", "pending_review", "approved", "scheduled"},
           q.status = "draft" => p.status = "draft" /\ q.queryType = "write",
           q.queryType \in QueryType, q.revision = p.revision + 1, q.stamp = p.revision + 1,
           q.dispatched = FALSE, q.dispatchedBy = None, q.resolved = p.resolved
    PROVE  Allowed(p, q)
  <1>1. Shown(q) = [Shown(p) EXCEPT !.status = q.status, !.revision = p.revision + 1,
              !.stamp = p.revision + 1, !.queryType = q.queryType, !.dispatchedBy = None]
    <2>1. PICK z : z = [Shown(p) EXCEPT !.status = q.status, !.revision = p.revision + 1,
              !.stamp = p.revision + 1, !.queryType = q.queryType, !.dispatchedBy = None]
      BY Zenon
    <2>2. z = Shown(q)
      BY <2>1 DEF Shown
    <2> QED
      BY <2>1, <2>2, Zenon
  <1>2. /\ Table!IsBatch(Shown(p)) /\ Shown(p).status = p.status
        /\ Shown(p).dispatched = FALSE /\ Shown(p).revision = p.revision
    BY DEF Table!IsBatch, Shown
  <1>3. Table!Edited(Shown(p), Shown(q))
    BY <1>1, <1>2 DEF Table!Edited, QueryType
  <1> QED
    BY <1>3 DEF Allowed, Table!RowStep

\* What a write of the status alone, or of the dispatch columns with it, keeps.
SameWork(p, q) ==
    q.stamp = p.stamp /\ q.queryType = p.queryType /\ q.resolved = p.resolved

\* The writes that change the status and nothing else a reader sees: review(),
\* cancel(), the claim, the end of a run and failed().
LEMMA StatusRow ==
    ASSUME NEW p, NEW q, SameWork(p, q), q.revision = p.revision,
           q.dispatched = p.dispatched, q.dispatchedBy = p.dispatchedBy,
           \/ q.status = p.status
           \/ p.status = "pending_review" /\ q.status \in {"approved", "scheduled", "rejected"}
           \/ p.status = "approved" /\ q.status = "running"
           \/ /\ p.status \in {"running", "failed"} \/ (p.status = "approved" /\ p.dispatched)
              /\ q.status = "completed"
           \/ /\ p.status \in Status \ (Terminal \cup {"absent"})
              /\ q.status \in {"failed", "cancelled"}
    PROVE  Allowed(p, q)
  <1>1. Shown(q) = [Shown(p) EXCEPT !.status = q.status]
    BY DEF Shown, SameWork
  <1>2. Table!IsBatch(Shown(p)) /\ Shown(p).status = p.status /\ Shown(p).dispatched = p.dispatched
    BY DEF Table!IsBatch, Shown
  <1>3. CASE q.status = p.status
    BY <1>3 DEF Shown, SameWork, Allowed
  <1>4. CASE p.status = "pending_review" /\ q.status \in {"approved", "scheduled", "rejected"}
    <2>1. Table!Decided(Shown(p), Shown(q))
      BY <1>1, <1>2, <1>4 DEF Table!Decided
    <2> QED
      BY <2>1 DEF Allowed, Table!RowStep
  <1>5. CASE p.status = "approved" /\ q.status = "running"
    <2>1. Table!Started(Shown(p), Shown(q))
      BY <1>1, <1>2, <1>5 DEF Table!Started
    <2> QED
      BY <2>1 DEF Allowed, Table!RowStep
  <1>6. CASE /\ p.status \in {"running", "failed"} \/ (p.status = "approved" /\ p.dispatched)
             /\ q.status = "completed"
    <2>1. Table!Ended(Shown(p), Shown(q))
      BY <1>1, <1>2, <1>6 DEF Table!Ended
    <2> QED
      BY <2>1 DEF Allowed, Table!RowStep
  <1>7. CASE p.status \in Status \ (Terminal \cup {"absent"}) /\ q.status = "failed"
    <2>1. Table!Ended(Shown(p), Shown(q))
      BY <1>1, <1>2, <1>7 DEF Table!Ended, Table!RowFinished, Terminal
    <2> QED
      BY <2>1 DEF Allowed, Table!RowStep
  <1>8. CASE p.status \in Status \ (Terminal \cup {"absent"}) /\ q.status = "cancelled"
    <2>1. Table!Cancelled(Shown(p), Shown(q))
      BY <1>1, <1>2, <1>8 DEF Table!Cancelled, Table!RowFinished, Terminal
    <2> QED
      BY <2>1 DEF Allowed, Table!RowStep
  <1> QED
    BY <1>3, <1>4, <1>5, <1>6, <1>7, <1>8

\* withdrawFromReview().
LEMMA WithdrawnRow ==
    ASSUME NEW p, NEW q, SameWork(p, q), p.status = "pending_review", p.dispatched = FALSE,
           q.status = "draft", q.revision = p.revision + 1,
           q.dispatched = FALSE, q.dispatchedBy = None
    PROVE  Allowed(p, q)
  <1>1. Shown(q) = [Shown(p) EXCEPT !.status = "draft", !.revision = p.revision + 1,
                                    !.dispatchedBy = None]
    <2>1. PICK z : z = [Shown(p) EXCEPT !.status = "draft", !.revision = p.revision + 1,
                                    !.dispatchedBy = None]
      BY Zenon
    <2>2. z = Shown(q)
      BY <2>1 DEF Shown, SameWork
    <2> QED
      BY <2>1, <2>2, Zenon
  <1>2. Table!Withdrawn(Shown(p), Shown(q))
    BY <1>1 DEF Table!Withdrawn, Table!IsBatch, Shown
  <1> QED
    BY <1>2 DEF Allowed, Table!RowStep

\* dispatch() and an in-place retry().
LEMMA DispatchedRow ==
    ASSUME NEW p, NEW q, SameWork(p, q),
           \/ p.status \in {"approved", "scheduled"} /\ p.dispatched = FALSE
           \/ p.status = "failed" /\ p.queryType = "read",
           q.status = "approved", q.revision = p.revision, q.dispatched = TRUE,
           q.dispatchedBy \in Users \cup {None},
           q.dispatchedBy = None => p.status = "scheduled"
    PROVE  Allowed(p, q)
  <1>1. Shown(q) = [Shown(p) EXCEPT !.status = "approved", !.dispatched = TRUE,
                                    !.dispatchedBy = q.dispatchedBy]
    <2>1. PICK z : z = [Shown(p) EXCEPT !.status = "approved", !.dispatched = TRUE,
                                    !.dispatchedBy = q.dispatchedBy]
      BY Zenon
    <2>2. z = Shown(q)
      BY <2>1 DEF Shown, SameWork
    <2> QED
      BY <2>1, <2>2, Zenon
  <1>2. /\ Table!IsBatch(Shown(p)) /\ Shown(p).status = p.status
        /\ Shown(p).dispatched = p.dispatched /\ Shown(p).queryType = p.queryType
    BY DEF Table!IsBatch, Shown
  <1>3. Table!Dispatched(Shown(p), Shown(q))
    BY <1>1, <1>2 DEF Table!Dispatched
  <1> QED
    BY <1>3 DEF Allowed, Table!RowStep

\* The row goes back to its owner.
LEMMA GivenBackRow ==
    ASSUME NEW p \in Request, p.status \in {"approved", "scheduled", "running"}
    PROVE  Allowed(p, Undispatched(p))
  <1>1. Shown(Undispatched(p)) = [Shown(p) EXCEPT !.status = "approved", !.dispatched = FALSE,
                                                  !.dispatchedBy = None]
    <2>1. PICK z : z = [Shown(p) EXCEPT !.status = "approved", !.dispatched = FALSE,
                                                  !.dispatchedBy = None]
      BY Zenon
    <2>2. z = Shown(Undispatched(p))
      BY <2>1 DEF Shown, Undispatched, Request
    <2> QED
      BY <2>1, <2>2, Zenon
  <1>2. Table!GivenBack(Shown(p), Shown(Undispatched(p)))
    BY <1>1 DEF Table!GivenBack, Table!IsBatch, Shown
  <1> QED
    BY <1>2 DEF Allowed, Table!RowStep

\* The row goes back to review.
LEMMA SentBackRow ==
    ASSUME NEW p \in Request, p.status \in {"approved", "scheduled", "running"}
    PROVE  Allowed(p, ReturnedToReview(p))
  <1>1. Shown(ReturnedToReview(p)) = [Shown(p) EXCEPT !.status = "pending_review",
            !.revision = p.revision + 1, !.dispatched = FALSE, !.dispatchedBy = None]
    <2>1. PICK z : z = [Shown(p) EXCEPT !.status = "pending_review",
            !.revision = p.revision + 1, !.dispatched = FALSE, !.dispatchedBy = None]
      BY Zenon
    <2>2. z = Shown(ReturnedToReview(p))
      BY <2>1 DEF Shown, ReturnedToReview, Request
    <2> QED
      BY <2>1, <2>2, Zenon
  <1>2. Table!SentBackToReview(Shown(p), Shown(ReturnedToReview(p)))
    BY <1>1 DEF Table!SentBackToReview, Shown
  <1> QED
    BY <1>2 DEF Allowed, Table!RowStep

-----------------------------------------------------------------------------
(* Which write each action is                                              *)

\* failed() and its callers.
LEMMA FailedHookRow ==
    ASSUME TypeOK, NEW r \in Requests, req[r].status # "absent", req' = AfterFailedHook(r)
    PROVE  UNCHANGED req \/ \E q : req' = [req EXCEPT ![r] = q] /\ Allowed(req[r], q)
  <1>1. CASE IsTerminal(r)
    BY <1>1 DEF AfterFailedHook
  <1>2. CASE ~IsTerminal(r)
    <2> DEFINE q == [req[r] EXCEPT !.status = "failed"]
    <2>1. req[r] \in Request /\ req[r].status \in Status \ (Terminal \cup {"absent"})
      BY <1>2 DEF TypeOK, Request, IsTerminal
    <2>2. /\ q.status = "failed" /\ q.revision = req[r].revision /\ SameWork(req[r], q)
          /\ q.dispatched = req[r].dispatched /\ q.dispatchedBy = req[r].dispatchedBy
      BY <2>1 DEF Request, SameWork
    <2>3. Allowed(req[r], q)
      <3> HIDE DEF q
      <3> QED
        BY <2>1, <2>2, StatusRow
    <2>4. req' = [req EXCEPT ![r] = q]
      BY <1>2 DEF AfterFailedHook
    <2> QED
      BY <2>3, <2>4
  <1> QED
    BY <1>1, <1>2

\* The writes of the status alone.
LEMMA StatusWrite ==
    ASSUME NEW p \in Request, NEW st,
           \/ p.status = "pending_review" /\ st = "rejected"
           \/ p.status \in {"approved", "running"} /\ st = "running"
           \/ p.status \in {"running", "failed"} /\ st = "completed"
           \/ p.status = "approved" /\ p.dispatched /\ st = "completed"
           \/ p.status \in {"draft", "pending_review", "approved", "scheduled", "running"}
              /\ st \in {"failed", "cancelled"}
           \/ p.status = st
    PROVE  Allowed(p, [p EXCEPT !.status = st])
  <1> DEFINE q == [p EXCEPT !.status = st]
  <1>1. /\ q.status = st /\ q.revision = p.revision /\ SameWork(p, q)
        /\ q.dispatched = p.dispatched /\ q.dispatchedBy = p.dispatchedBy
    BY DEF Request, SameWork
  <1>2. p.status \in {"draft", "pending_review", "approved", "scheduled", "running"} =>
            p.status \in Status \ (Terminal \cup {"absent"})
    BY DEF Status, Terminal
  <1> HIDE DEF q
  <1> SUFFICES Allowed(p, q)
    BY DEF q
  <1> QED
    BY <1>1, <1>2, StatusRow

\* dispatch(), for a person or for the scheduler.
LEMMA DispatchIsTableStep ==
    ASSUME TypeOK, NEW r \in Requests, NEW by \in Users \cup {None},
           req[r].status \in {"approved", "scheduled"},
           by = None => req[r].status = "scheduled", DispatchTransaction(r, by)
    PROVE  \E q : req' = [req EXCEPT ![r] = q] /\ Allowed(req[r], q)
  <1>1. req[r] \in Request /\ req[r].dispatched = FALSE
    BY DEF DispatchTransaction, TypeOK, Request
  <1>2. CASE req' = [req EXCEPT ![r] = Undispatched(@)]
    BY <1>1, <1>2, GivenBackRow
  <1>3. CASE req' = [req EXCEPT ![r] = ReturnedToReview(@)]
    BY <1>1, <1>3, SentBackRow
  <1>4. CASE req' = [req EXCEPT ![r] = [@ EXCEPT !.status = "approved",
                                   !.dispatched = TRUE, !.dispatchedBy = by]]
    <2> DEFINE q == [req[r] EXCEPT !.status = "approved", !.dispatched = TRUE, !.dispatchedBy = by]
    <2>1. /\ q.status = "approved" /\ q.revision = req[r].revision /\ SameWork(req[r], q)
          /\ q.dispatched = TRUE /\ q.dispatchedBy = by
      BY <1>1 DEF Request, SameWork
    <2>2. Allowed(req[r], q)
      <3> HIDE DEF q
      <3> QED
        BY <1>1, <2>1, DispatchedRow
    <2> QED
      BY <1>4, <2>2
  <1> QED
    BY <1>2, <1>3, <1>4 DEF DispatchTransaction

\* A draft is not dispatched: what makes updateDraft(), which does not look, an edit
\* of work that is not under way.
DraftInv == \A x \in Requests : req[x].status = "draft" => ~req[x].dispatched

\* A step writes no row, or one row in an allowed way.
OneWrite ==
    UNCHANGED req \/ \E x \in Requests : \E q : req' = [req EXCEPT ![x] = q] /\ Allowed(req[x], q)

\* The handlers and the control plane.
LEMMA RequestWrites ==
    ASSUME TypeInv, DraftInv, NEW r \in Requests,
           UserStep(r) \/ ReviewStep(r) \/ SystemStep(r) \/ TimePasses(r)
    PROVE  OneWrite
  <1>0. /\ TypeOK /\ req[r] \in Request
        /\ \A x \in Requests : req[x].status = "absent" => req[x] = AbsentRequest
    BY DEF TypeInv, TypeOK, QueueInv
  <1>1. ASSUME NEW u \in Users, NEW s \in Statements, NEW sched \in Schedules,
               Create(r, u, s, sched)
        PROVE  OneWrite
    <2> DEFINE st == IF RequiresApproval(u, s) THEN "pending_review" ELSE ReadyStatus(sched)
               a == IF RequiresApproval(u, s) THEN None ELSE u
               t == BatchQueryType(s)
    <2>0. PICK q : q = [AbsentRequest EXCEPT !.status = st, !.requester = u, !.revision = 1,
                           !.stamp = 1, !.stmts = s, !.queryType = t, !.sched = sched,
                           !.approvedBy = a]
      BY Zenon
    <2>1. req' = [req EXCEPT ![r] = q] /\ req[r] = AbsentRequest
      BY <1>0, <1>1, <2>0, Zenon DEF Create
    <2>2. st \in {"pending_review", "approved", "scheduled"} /\ t \in QueryType
      BY DEF ReadyStatus, BatchQueryType, QueryType
    <2>3. /\ q.status = st /\ q.queryType = t /\ q.revision = 1 /\ q.stamp = 1
          /\ q.dispatched = FALSE /\ q.dispatchedBy = None /\ q.resolved = FALSE
      <3> HIDE DEF st, a, t
      <3> QED
        BY <2>0 DEF AbsentRequest
    <2>4. Allowed(req[r], q)
      <3> HIDE DEF st, a, t
      <3> QED
        BY <2>1, <2>2, <2>3, CreatedRow
    <2> QED
      BY <2>1, <2>4 DEF OneWrite
  <1>2. ASSUME NEW u \in Users, NEW n \in Positions, NEW sched \in Schedules,
               CreateDraft(r, u, n, sched)
        PROVE  OneWrite
    <2> DEFINE s == [i \in 1 .. n |-> "write"]
    <2>0. PICK q : q = [AbsentRequest EXCEPT !.status = "draft", !.requester = u,
                           !.revision = 1, !.stamp = 1, !.stmts = s, !.sched = sched]
      BY Zenon
    <2>1. req' = [req EXCEPT ![r] = q] /\ req[r] = AbsentRequest
      BY <1>0, <1>2, <2>0, Zenon DEF CreateDraft
    <2>3. /\ q.status = "draft" /\ q.queryType = "write" /\ q.revision = 1 /\ q.stamp = 1
          /\ q.dispatched = FALSE /\ q.dispatchedBy = None /\ q.resolved = FALSE
      <3> HIDE DEF s
      <3> QED
        BY <2>0 DEF AbsentRequest
    <2>4. Allowed(req[r], q)
      BY <2>1, <2>3, CreatedRow DEF QueryType
    <2> QED
      BY <2>1, <2>4 DEF OneWrite
  <1>3. ASSUME NEW u \in Users, NEW s \in Statements, NEW sched \in Schedules,
               BeginUpdate(r, u, s, sched)
        PROVE  OneWrite
    BY <1>3 DEF BeginUpdate, OneWrite
  <1>4. ASSUME NEW u \in Users, NEW n \in Positions, NEW sched \in Schedules,
               UpdateDraft(r, u, n, sched)
        PROVE  OneWrite
    <2> DEFINE s == [i \in 1 .. n |-> "write"]
               next == req[r].revision + 1
               q == [req[r] EXCEPT !.stmts = s, !.stamp = next, !.revision = next,
                        !.queryType = "write", !.sched = sched, !.approvedBy = None,
                        !.dispatched = FALSE, !.dispatchedBy = None]
    <2>1. req' = [req EXCEPT ![r] = q] /\ req[r].status = "draft"
      BY <1>4, Zenon DEF UpdateDraft
    <2>2. req[r].dispatched = FALSE
      BY <1>0, <2>1 DEF DraftInv, Request
    <2>3. /\ q.status = "draft" /\ q.queryType = "write" /\ q.revision = next /\ q.stamp = next
          /\ q.dispatched = FALSE /\ q.dispatchedBy = None /\ q.resolved = req[r].resolved
      <3> HIDE DEF s, next
      <3> QED
        BY <1>0, <2>1 DEF Request
    <2>4. Allowed(req[r], q)
      <3> HIDE DEF q
      <3> QED
        BY <2>1, <2>2, <2>3, EditedRow DEF QueryType
    <2> QED
      BY <2>1, <2>4 DEF OneWrite
  <1>5. ASSUME NEW u \in Users, Withdraw(r, u)
        PROVE  OneWrite
    <2> DEFINE next == req[r].revision + 1
               q == [req[r] EXCEPT !.status = "draft", !.approvedBy = None, !.dispatched = FALSE,
                        !.dispatchedBy = None, !.revision = next]
    <2>1. /\ req' = [req EXCEPT ![r] = q]
          /\ req[r].status = "pending_review" /\ req[r].dispatched = FALSE
      BY <1>0, <1>5 DEF Withdraw, Request
    <2>2. /\ q.status = "draft" /\ q.revision = next /\ SameWork(req[r], q)
          /\ q.dispatched = FALSE /\ q.dispatchedBy = None
      <3> HIDE DEF next
      <3> QED
        BY <1>0 DEF Request, SameWork
    <2>3. Allowed(req[r], q)
      <3> HIDE DEF q
      <3> QED
        BY <2>1, <2>2, WithdrawnRow
    <2> QED
      BY <2>1, <2>3 DEF OneWrite
  <1>6. ASSUME NEW u \in Users, Dispatch(r, u)
        PROVE  OneWrite
    <2>1. u # None
      BY BatchAssumption
    <2> QED
      BY <1>0, <1>6, <2>1, DispatchIsTableStep DEF Dispatch, OneWrite
  <1>7. ASSUME NEW u \in Users, Cancel(r, u)
        PROVE  OneWrite
    <2>1. Allowed(req[r], [req[r] EXCEPT !.status = "cancelled"])
      BY <1>0, <1>7, StatusWrite DEF Cancel
    <2> QED
      BY <1>7, <2>1 DEF Cancel, OneWrite
  <1>8. ASSUME NEW u \in Users, RetryInPlace(r, u)
        PROVE  OneWrite
    <2> DEFINE q == [req[r] EXCEPT !.status = "approved", !.dispatched = TRUE,
                                   !.dispatchedBy = u]
    <2>1. /\ req' = [req EXCEPT ![r] = q] /\ u # None
          /\ req[r].status = "failed" /\ req[r].queryType = "read"
      BY <1>8, BatchAssumption DEF RetryInPlace, CanRetry
    <2>2. /\ q.status = "approved" /\ q.revision = req[r].revision /\ SameWork(req[r], q)
          /\ q.dispatched = TRUE /\ q.dispatchedBy = u
      BY <1>0 DEF Request, SameWork
    <2>3. Allowed(req[r], q)
      <3> HIDE DEF q
      <3> QED
        BY <2>1, <2>2, DispatchedRow
    <2> QED
      BY <2>1, <2>3 DEF OneWrite
  <1>9. ASSUME NEW u \in Users, NEW new \in Requests, RetryLinked(r, u, new)
        PROVE  OneWrite
    <2> DEFINE rest == SubSeq(req[r].stmts, RetryFrom(r), Len(req[r].stmts))
               owner == req[r].requester
               st == IF RequiresApproval(owner, rest) THEN "pending_review" ELSE "approved"
               t == req[r].queryType
               a == IF RequiresApproval(owner, rest) THEN None ELSE owner
    <2>0. PICK q : q = [AbsentRequest EXCEPT !.status = st, !.requester = owner, !.revision = 1,
                           !.stamp = 1, !.stmts = rest, !.queryType = t, !.approvedBy = a]
      BY Zenon
    <2>1. req' = [req EXCEPT ![new] = q] /\ req[new] = AbsentRequest
      BY <1>0, <1>9, <2>0, Zenon DEF RetryLinked
    <2>2. st \in {"pending_review", "approved"} /\ t \in QueryType
      BY <1>0 DEF Request
    <2>3. /\ q.status = st /\ q.queryType = t /\ q.revision = 1 /\ q.stamp = 1
          /\ q.dispatched = FALSE /\ q.dispatchedBy = None /\ q.resolved = FALSE
      <3> HIDE DEF rest, owner, st, t, a
      <3> QED
        BY <2>0 DEF AbsentRequest
    <2>4. Allowed(req[new], q)
      <3> HIDE DEF rest, owner, st, t, a
      <3> QED
        BY <2>1, <2>2, <2>3, CreatedRow
    <2> QED
      BY <2>1, <2>4 DEF OneWrite
  <1>10. ASSUME NEW u \in Users, ResolveFailure(r, u)
         PROVE  OneWrite
    <2> DEFINE q == [req[r] EXCEPT !.resolved = TRUE]
    <2>1. req' = [req EXCEPT ![r] = q] /\ req[r].status = "failed" /\ req[r].resolved = FALSE
      BY <1>0, <1>10 DEF ResolveFailure, Request
    <2>2. Shown(q) = [Shown(req[r]) EXCEPT !.resolved = TRUE]
      <3>1. PICK z : z = [Shown(req[r]) EXCEPT !.resolved = TRUE]
        BY Zenon
      <3>2. z = Shown(q)
        BY <1>0, <3>1 DEF Shown, Request
      <3> QED
        BY <3>1, <3>2, Zenon
    <2>3. Table!Resolved(Shown(req[r]), Shown(q))
      BY <2>1, <2>2 DEF Table!Resolved, Table!IsBatch, Shown
    <2>4. Allowed(req[r], q)
      BY <2>3 DEF Allowed, Table!RowStep
    <2> QED
      BY <2>1, <2>4 DEF OneWrite
  <1>11. ASSUME NEW u \in Reviewers, OpenForReview(u, r)
         PROVE  OneWrite
    BY <1>11 DEF OpenForReview, OneWrite
  <1>12. ASSUME NEW u \in Reviewers, Approve(u, r)
         PROVE  OneWrite
    <2> DEFINE st == ReadyStatus(req[r].sched)
               q == [req[r] EXCEPT !.status = st, !.approvedBy = u]
    <2>1. req' = [req EXCEPT ![r] = q] /\ req[r].status = "pending_review"
      BY <1>12 DEF Approve, CanDecide
    <2>2. st \in {"approved", "scheduled"}
      BY DEF ReadyStatus
    <2>3. /\ q.status = st /\ q.revision = req[r].revision /\ SameWork(req[r], q)
          /\ q.dispatched = req[r].dispatched /\ q.dispatchedBy = req[r].dispatchedBy
      <3> HIDE DEF st
      <3> QED
        BY <1>0 DEF Request, SameWork
    <2>4. Allowed(req[r], q)
      <3> HIDE DEF q, st
      <3> QED
        BY <2>1, <2>2, <2>3, StatusRow
    <2> QED
      BY <2>1, <2>4 DEF OneWrite
  <1>13. ASSUME NEW u \in Reviewers, Reject(u, r)
         PROVE  OneWrite
    <2>1. Allowed(req[r], [req[r] EXCEPT !.status = "rejected"])
      BY <1>0, <1>13, StatusWrite DEF Reject, CanDecide
    <2> QED
      BY <1>13, <2>1 DEF Reject, OneWrite
  <1>14. ASSUME CommitUpdate(r)
         PROVE  OneWrite
    <2> DEFINE e == edit[r]
               next == req[r].revision + 1
               st == IF e.requires THEN "pending_review" ELSE ReadyStatus(e.sched)
               t == BatchQueryType(e.stmts)
               a == IF e.requires THEN None ELSE e.by
               q == [req[r] EXCEPT !.status = st, !.stmts = e.stmts, !.stamp = next,
                        !.revision = next, !.queryType = t, !.sched = e.sched,
                        !.approvedBy = a, !.dispatched = FALSE, !.dispatchedBy = None]
    <2>1. req' = [req EXCEPT ![r] = q] /\ IsEditable(r)
      BY <1>14, Zenon DEF CommitUpdate
    <2>2. st \in {"pending_review", "approved", "scheduled"} /\ t \in QueryType
      BY DEF ReadyStatus, BatchQueryType, QueryType
    <2>3. /\ q.status = st /\ q.queryType = t /\ q.revision = next /\ q.stamp = next
          /\ q.dispatched = FALSE /\ q.dispatchedBy = None /\ q.resolved = req[r].resolved
      <3> HIDE DEF e, st, next, t, a
      <3> QED
        BY <1>0 DEF Request
    <2>4. /\ req[r].dispatched = FALSE
          /\ req[r].status \in {"draft", "pending_review", "approved", "rejected", "scheduled"}
      BY <1>0, <2>1 DEF IsEditable, Request
    <2>5. Allowed(req[r], q)
      <3> HIDE DEF e, st, t, a, q
      <3> QED
        BY <2>2, <2>3, <2>4, EditedRow
    <2> QED
      BY <2>1, <2>5 DEF OneWrite
  <1>15. ASSUME AbortUpdate(r) \/ ExpireLock(r)
         PROVE  OneWrite
    BY <1>15 DEF AbortUpdate, ExpireLock, OneWrite, requestVars
  <1>16. ASSUME DispatchDue(r)
         PROVE  OneWrite
    BY <1>0, <1>16, DispatchIsTableStep DEF DispatchDue, OneWrite
  <1>17. ASSUME Redeliver(r)
         PROVE  OneWrite
    <2>1. req[r].status # "absent"
      BY <1>17 DEF Redeliver, TypeInv, QueueInv
    <2> QED
      BY <1>0, <1>17, <2>1, FailedHookRow DEF Redeliver, OneWrite
  <1>18. ASSUME TimePasses(r)
         PROVE  OneWrite
    <2> DEFINE q == [req[r] EXCEPT !.sched = "past"]
    <2>1. Shown(q) = Shown(req[r])
      BY <1>0 DEF Shown, Request
    <2>2. Allowed(req[r], q)
      BY <2>1 DEF Allowed
    <2>3. UNCHANGED req \/ req' = [req EXCEPT ![r] = q]
      BY <1>18 DEF TimePasses
    <2> QED
      BY <2>2, <2>3 DEF OneWrite
  <1>19. CASE UserStep(r)
    BY <1>1, <1>2, <1>3, <1>4, <1>5, <1>6, <1>7, <1>8, <1>9, <1>10, <1>19 DEF UserStep
  <1>20. CASE ReviewStep(r)
    BY <1>11, <1>12, <1>13, <1>20 DEF ReviewStep
  <1>21. CASE SystemStep(r)
    BY <1>14, <1>15, <1>16, <1>17, <1>21 DEF SystemStep
  <1> QED
    BY <1>18, <1>19, <1>20, <1>21

\* The worker and its faults.
LEMMA WorkerWrites ==
    ASSUME TypeInv, ExecInv, NEW w \in Workers, WorkerStep(w) \/ FaultStep(w)
    PROVE  OneWrite
  <1> DEFINE x == worker[w].req
  <1>0. /\ TypeOK
        /\ worker[w].phase # "idle" =>
              x \in Requests /\ req[x] \in Request /\ req[x].status # "absent"
        /\ worker[w].phase \in Claimed =>
              \/ req[x].status \in {"running", "failed", "cancelled"}
              \/ req[x].status = "approved" /\ req[x].dispatched
    BY DEF TypeInv, TypeOK, WorkerInv, ExecInv, Busy
  <1>1. ASSUME UNCHANGED req
        PROVE  OneWrite
    BY <1>1 DEF OneWrite
  <1>2. ASSUME worker[w].phase # "idle", NEW st, req' = [req EXCEPT ![x].status = st],
               \/ req[x].status \in {"approved", "running"} /\ st = "running"
               \/ req[x].status \in {"running", "failed"} /\ st = "completed"
               \/ req[x].status = "approved" /\ req[x].dispatched /\ st = "completed"
               \/ req[x].status \in {"approved", "running"} /\ st = "failed"
               \/ req[x].status = st
        PROVE  OneWrite
    <2>1. Allowed(req[x], [req[x] EXCEPT !.status = st])
      BY <1>0, <1>2, StatusWrite
    <2>2. req' = [req EXCEPT ![x] = [req[x] EXCEPT !.status = st]]
      BY <1>2
    <2> QED
      BY <1>0, <1>2, <2>1, <2>2 DEF OneWrite
  <1>3. ASSUME worker[w].phase # "idle", req[x].status \in {"approved", "running"},
               \/ req' = [req EXCEPT ![x] = Undispatched(@)]
               \/ req' = [req EXCEPT ![x] = ReturnedToReview(@)]
        PROVE  OneWrite
    BY <1>0, <1>3, GivenBackRow, SentBackRow DEF OneWrite
  <1>4. ASSUME worker[w].phase # "idle", req' = AfterFailedHook(x)
        PROVE  OneWrite
    BY <1>0, <1>4, FailedHookRow DEF OneWrite
  <1>5. ASSUME NEW r \in Requests, TakeJob(w, r) \/ DropJob(w, r)
        PROVE  OneWrite
    BY <1>1, <1>5 DEF TakeJob, DropJob, requestVars
  <1>6. ASSUME Load(w) \/ CheckCancelled(w) \/ StartStatement(w) \/ StatementSucceeds(w)
               \/ StatementFails(w) \/ Close(w) \/ Throw(w) \/ Crash(w)
        PROVE  OneWrite
    BY <1>1, <1>6 DEF Load, CheckCancelled, StartStatement, StatementSucceeds, StatementFails,
                      Close, Throw, Crash, requestVars
  <1>7. ASSUME ReturnBlocked(w)
        PROVE  OneWrite
    BY <1>1, <1>3, <1>7 DEF ReturnBlocked
  <1>8. ASSUME Claim(w)
        PROVE  OneWrite
    BY <1>1, <1>2, <1>3, <1>8 DEF Claim
  <1>9. ASSUME RecordFailure(w)
        PROVE  OneWrite
    <2>1. worker[w].phase \in Claimed /\ worker[w].phase # "idle"
      BY <1>9 DEF RecordFailure, Claimed
    <2> QED
      BY <1>0, <1>1, <1>2, <1>9, <2>1 DEF RecordFailure
  <1>10. ASSUME RecordCompletion(w)
         PROVE  OneWrite
    <2>1. worker[w].phase \in Claimed /\ worker[w].phase # "idle"
      BY <1>10 DEF RecordCompletion, Claimed
    <2> QED
      BY <1>0, <1>1, <1>2, <1>10, <2>1 DEF RecordCompletion
  <1>11. ASSUME FailedHook(w) \/ Timeout(w)
         PROVE  OneWrite
    BY <1>4, <1>11 DEF FailedHook, Timeout, Holding
  <1>12. CASE WorkerStep(w)
    BY <1>5, <1>6, <1>7, <1>8, <1>9, <1>10, <1>11, <1>12 DEF WorkerStep
  <1>13. CASE FaultStep(w)
    BY <1>6, <1>11, <1>13 DEF FaultStep
  <1> QED
    BY <1>12, <1>13

\* Every step.
LEMMA Writes ==
    ASSUME TypeInv, ExecInv, DraftInv, [Next]_vars
    PROVE  OneWrite
  <1>1. CASE UNCHANGED vars
    BY <1>1 DEF OneWrite, vars
  <1>2. CASE ChangePolicy
    BY <1>2 DEF OneWrite, ChangePolicy, requestVars
  <1>3. CASE Next /\ ~ChangePolicy
    BY <1>3, RequestWrites, WorkerWrites DEF Next
  <1> QED
    BY <1>1, <1>2, <1>3

-----------------------------------------------------------------------------
(* The refinement                                                          *)

\* No transition of a row makes a dispatched draft.
LEMMA DraftsStayIdle ==
    ASSUME NEW p, NEW q, Allowed(p, q), q.status = "draft",
           p.status \in {"absent", "draft"} => p.dispatched = FALSE
    PROVE  ~q.dispatched
  <1>1. Shown(q).status = "draft" /\ Shown(q).dispatched = q.dispatched
    BY DEF Shown
  <1>2. Shown(p).status = p.status /\ Shown(p).dispatched = p.dispatched
    BY DEF Shown
  <1>3. CASE Shown(q) = Shown(p)
    BY <1>1, <1>2, <1>3
  <1>4. CASE Table!Created(Shown(p), Shown(q))
    BY <1>1, <1>2, <1>4 DEF Table!Created, Shown
  <1>5. CASE Table!Edited(Shown(p), Shown(q)) \/ Table!Withdrawn(Shown(p), Shown(q))
    BY <1>1, <1>2, <1>5 DEF Table!Edited, Table!Withdrawn, Shown
  <1>6. CASE Table!Resolved(Shown(p), Shown(q))
    BY <1>1, <1>2, <1>6 DEF Table!Resolved, Shown
  <1>7. CASE \/ Table!Decided(Shown(p), Shown(q)) \/ Table!Dispatched(Shown(p), Shown(q))
             \/ Table!GivenBack(Shown(p), Shown(q)) \/ Table!SentBackToReview(Shown(p), Shown(q))
             \/ Table!Started(Shown(p), Shown(q)) \/ Table!Ended(Shown(p), Shown(q))
             \/ Table!Cancelled(Shown(p), Shown(q))
    BY <1>1, <1>7 DEF Table!Decided, Table!Dispatched, Table!GivenBack, Table!SentBackToReview,
                      Table!Started, Table!Ended, Table!Cancelled, Shown
  <1> QED
    BY <1>3, <1>4, <1>5, <1>6, <1>7 DEF Allowed, Table!RowStep

LEMMA DraftInvStep ==
    ASSUME TypeInv, DraftInv, OneWrite
    PROVE  DraftInv'
  <1>1. CASE UNCHANGED req
    BY <1>1 DEF DraftInv
  <1>2. ASSUME NEW r \in Requests, NEW q, req' = [req EXCEPT ![r] = q], Allowed(req[r], q)
        PROVE  DraftInv'
    <2>1. req[r].status \in {"absent", "draft"} => req[r].dispatched = FALSE
      <3>1. req[r] \in Request /\ (req[r].status = "absent" => req[r] = AbsentRequest)
        BY DEF TypeInv, TypeOK, QueueInv
      <3> QED
        BY <3>1 DEF DraftInv, AbsentRequest, Request
    <2>2. q.status = "draft" => ~q.dispatched
      BY <1>2, <2>1, DraftsStayIdle
    <2>3. req \in [Requests -> Request]
      BY DEF TypeInv, TypeOK
    <2> QED
      BY <1>2, <2>2, <2>3 DEF DraftInv
  <1> QED
    BY <1>1, <1>2 DEF OneWrite

\* DeploymentBatch implements RequestLifecycle: whatever people, workers, the scheduler
\* and faults do, in any order, each query_requests row only ever takes the transitions
\* of the handlers (FollowsLifecycle).
THEOREM BatchesFollowLifecycle == Spec => FollowsLifecycle
  <1>1. Init => Table!LifecycleInit
    <2> SUFFICES ASSUME Init, NEW i \in Requests
                 PROVE  [r \in Requests |-> RowOf(r)][i] = Table!AbsentRow("single_execution")
      BY DEF Table!LifecycleInit, Table!Kinds
    <2> QED
      BY DEF Init, AbsentRequest, RowOf, Table!AbsentRow
  <1> DEFINE IInv == TypeInv /\ LockInv /\ ExecInv /\ DraftInv
  <1>2. Init => IInv
    BY TypeInvInit DEF Init, LockInv, ExecInv, DraftInv, IdleWorker, Holding, Claimed, AbsentRequest
  <1>3. IInv /\ [Next]_vars => OneWrite
    BY Writes
  <1>4. IInv /\ [Next]_vars => IInv'
    BY <1>3, TypeInvStep, LockInvStep, ExecInvStep, DraftInvStep
  <1>5. IInv /\ [Next]_vars => [Table!LifecycleNext]_[r \in Requests |-> RowOf(r)]
    BY <1>3, QuietIsStutter, WriteIsTableStep DEF OneWrite, TypeInv
  <1> QED
    BY <1>1, <1>2, <1>4, <1>5, PTL DEF Spec, FollowsLifecycle, Table!Lifecycle

====
