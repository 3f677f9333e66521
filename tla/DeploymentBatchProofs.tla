------------------------ MODULE DeploymentBatchProofs ------------------------
(***************************************************************************)
(* What holds of DeploymentBatch for every set of requests, people,        *)
(* workers, policies and faults, and for every bound.                      *)
(***************************************************************************)
EXTENDS DeploymentBatch, SequenceTheorems, TLAPS

-----------------------------------------------------------------------------
(* Lists of statements                                                     *)

\* A list of statements is a sequence of query types of bounded length.
LEMMA StatementsAreSequences ==
    ASSUME NEW s \in Statements \cup {<<>>}
    PROVE  /\ s \in Seq(QueryType)
           /\ Len(s) \in 0 .. MaxStatements
           /\ DOMAIN s = 1 .. Len(s)
  <1> USE BatchAssumption
  <1>1. CASE s = <<>>
    BY <1>1
  <1>2. CASE s \in Statements
    <2>1. PICK n \in Positions : s \in [1 .. n -> QueryType]
      BY <1>2 DEF Statements
    <2>2. n \in Nat /\ n <= MaxStatements
      BY DEF Positions
    <2>3. Len(s) = n /\ s \in Seq(QueryType)
      BY <2>1, <2>2
    <2> QED
      BY <2>1, <2>2, <2>3
  <1> QED
    BY <1>1, <1>2

\* Sequences of query types within the bound are lists of statements.
LEMMA SequencesAreStatements ==
    ASSUME NEW n \in 0 .. MaxStatements, NEW s \in [1 .. n -> QueryType]
    PROVE  s \in Statements \cup {<<>>}
  <1> USE BatchAssumption
  <1>1. CASE n = 0
    <2>1. s = <<>>
      BY <1>1
    <2> QED
      BY <2>1
  <1>2. CASE n # 0
    BY <1>2 DEF Statements, Positions
  <1> QED
    BY <1>1, <1>2

\* createDraft() and updateDraft() write lists of statements.
LEMMA DraftsAreStatements ==
    ASSUME NEW n \in Positions
    PROVE  [i \in 1 .. n |-> "write"] \in Statements
  BY DEF Statements, QueryType

\* What createRetryRequest() keeps of a list is a list of statements.
LEMMA RestIsStatements ==
    ASSUME NEW s \in Statements \cup {<<>>}, NEW from \in Positions
    PROVE  SubSeq(s, from, Len(s)) \in Statements \cup {<<>>}
  <1> USE BatchAssumption
  <1> DEFINE rest == SubSeq(s, from, Len(s))
             k == IF from <= Len(s) THEN Len(s) - from + 1 ELSE 0
  <1>1. s \in Seq(QueryType) /\ Len(s) \in 0 .. MaxStatements
    BY StatementsAreSequences
  <1>2. from \in Nat /\ from >= 1
    BY DEF Positions
  <1>3. k \in 0 .. MaxStatements
    BY <1>1, <1>2
  <1>4. rest \in Seq(QueryType) /\ Len(rest) = k
    BY <1>1, <1>2, SubSeqProperties
  <1>5. rest \in [1 .. k -> QueryType]
    <2> HIDE DEF rest, k
    <2> QED
      BY <1>4, LenProperties
  <1> QED
    BY <1>3, <1>5, SequencesAreStatements

-----------------------------------------------------------------------------
(* Type correctness                                                        *)

\* A worker that is not idle has a request that exists, and one inside its
\* loop has a statement left to run: what TypeOK needs to be inductive.
WorkerInv ==
    \A w \in Workers :
        /\ worker[w].phase # "idle" =>
              /\ worker[w].req \in Requests
              /\ req[worker[w].req].status # "absent"
        /\ worker[w].phase \in {"check", "start", "executing"} => worker[w].pos <= worker[w].last

\* A request that exists has a requester, and only such a request has jobs.
QueueInv ==
    \A r \in Requests :
        /\ req[r].status = "absent" => req[r] = AbsentRequest
        /\ req[r].status # "absent" => req[r].requester \in Users
        /\ queue[r] # <<>> \/ r \in stale => req[r].status # "absent"

\* The type invariant, with the parts that make it inductive.
TypeInv == TypeOK /\ WorkerInv /\ QueueInv

\* A row that goes back to its owner is a row.
LEMMA UndispatchedType ==
    ASSUME NEW q \in Request
    PROVE  Undispatched(q) \in Request
  BY Zenon DEF Undispatched, Request, Status

\* A row that goes back to review is a row.
LEMMA ReturnedType ==
    ASSUME NEW q \in Request, q.revision < MaxRevision
    PROVE  ReturnedToReview(q) \in Request
  <1>1. q.revision + 1 \in 0 .. MaxRevision
    BY BatchAssumption DEF Request
  <1> QED
    BY <1>1, Zenon DEF ReturnedToReview, Request, Status

\* So is one with another status.
LEMMA StatusType ==
    ASSUME NEW q \in Request, NEW st \in Status
    PROVE  [q EXCEPT !.status = st] \in Request
  BY Zenon DEF Request

\* So is the row of a new request.
LEMMA SubmittedType ==
    ASSUME NEW st \in Status, NEW u \in Users, NEW s \in Statements \cup {<<>>},
           NEW t \in QueryType, NEW sched \in Schedule, NEW a \in Users \cup {None}
    PROVE  [AbsentRequest EXCEPT !.status = st, !.requester = u, !.revision = 1, !.stamp = 1,
               !.stmts = s, !.queryType = t, !.sched = sched, !.approvedBy = a] \in Request
  <1>1. 1 \in 0 .. MaxRevision
    BY BatchAssumption
  <1> QED
    BY <1>1, Zenon DEF AbsentRequest, Request

\* So is an edited row.
LEMMA EditedType ==
    ASSUME NEW q \in Request, NEW st \in Status, NEW n \in 0 .. MaxRevision,
           NEW s \in Statements \cup {<<>>}, NEW t \in QueryType, NEW sched \in Schedule,
           NEW a \in Users \cup {None}
    PROVE  [q EXCEPT !.status = st, !.stmts = s, !.stamp = n, !.revision = n,
               !.queryType = t, !.sched = sched, !.approvedBy = a,
               !.dispatched = FALSE, !.dispatchedBy = None] \in Request
  BY Zenon DEF Request

\* So is a dispatched one.
LEMMA DispatchedType ==
    ASSUME NEW q \in Request, NEW by \in Users \cup {None}
    PROVE  [q EXCEPT !.status = "approved", !.dispatched = TRUE, !.dispatchedBy = by] \in Request
  BY Zenon DEF Request, Status

\* So is the row of a request that does not exist yet.
LEMMA AbsentType == AbsentRequest \in Request
  <1>1. 0 \in 0 .. MaxRevision
    BY BatchAssumption
  <1> QED
    BY <1>1, Zenon DEF AbsentRequest, Request, Status, QueryType, Schedule

\* A worker in another phase is a worker.
LEMMA PhaseType ==
    ASSUME NEW x \in Worker, NEW ph \in Phases
    PROVE  [x EXCEPT !.phase = ph] \in Worker
  BY Zenon DEF Worker

\* An idle worker is a worker.
LEMMA IdleType == IdleWorker \in Worker
  <1>1. 1 \in Positions /\ 1 \in 1 .. MaxStatements + 1 /\ 0 \in 0 .. MaxRevision
    BY BatchAssumption DEF Positions
  <1> QED
    BY <1>1, Zenon DEF IdleWorker, Worker, Phases

\* So is one that has taken a job.
LEMMA TakenType ==
    ASSUME NEW r \in Requests, NEW from \in Positions
    PROVE  [IdleWorker EXCEPT !.phase = "loaded", !.req = r, !.from = from] \in Worker
  BY IdleType, Zenon DEF Worker, Phases

\* So is one that goes on to another statement.
LEMMA SteppedType ==
    ASSUME NEW x \in Worker, NEW ph \in Phases, NEW pos \in 1 .. MaxStatements + 1
    PROVE  [x EXCEPT !.phase = ph, !.pos = pos] \in Worker
  BY Zenon DEF Worker

\* A change of phase leaves workers.
LEMMA GotoType ==
    ASSUME TypeOK, NEW w \in Workers, NEW ph \in Phases, Goto(w, ph)
    PROVE  worker' \in [Workers -> Worker]
  BY PhaseType DEF Goto, TypeOK

\* failed() leaves a row.
LEMMA FailedHookType ==
    ASSUME TypeOK, NEW r \in Requests
    PROVE  AfterFailedHook(r) \in [Requests -> Request]
  <1>1. "failed" \in Status
    BY DEF Status
  <1> QED
    BY <1>1, StatusType DEF TypeOK, AfterFailedHook

\* Pushing a job (dispatch) leaves every queue a sequence of pages.
LEMMA EnqueueType ==
    ASSUME TypeOK, NEW r \in Requests, NEW from \in Positions, Enqueue(r, from)
    PROVE  queue' \in [Requests -> Seq(Positions)]
  <1>1. Append(queue[r], from) \in Seq(Positions)
    BY AppendProperties DEF TypeOK
  <1> QED
    BY <1>1 DEF Enqueue, TypeOK

\* What people and the control plane do keeps the types.
LEMMA RequestStepType ==
    ASSUME TypeOK, QueueInv, NEW r \in Requests,
           UserStep(r) \/ ReviewStep(r) \/ SystemStep(r) \/ TimePasses(r)
    PROVE  TypeOK'
  <1> USE BatchAssumption
  <1>1. ASSUME NEW u \in Users, NEW s \in Statements, NEW sched \in Schedules,
               Create(r, u, s, sched)
        PROVE  TypeOK'
    <2> DEFINE st == IF RequiresApproval(u, s) THEN "pending_review" ELSE ReadyStatus(sched)
               a == IF RequiresApproval(u, s) THEN None ELSE u
    <2>1. st \in Status /\ a \in Users \cup {None} /\ BatchQueryType(s) \in QueryType
          /\ sched \in Schedule
      BY DEF ReadyStatus, Status, BatchQueryType, QueryType, Schedule
    <2>2. req' = [req EXCEPT ![r] = [AbsentRequest EXCEPT !.status = st, !.requester = u,
             !.revision = 1, !.stamp = 1, !.stmts = s, !.queryType = BatchQueryType(s),
             !.sched = sched, !.approvedBy = a]]
      BY <1>1, Zenon DEF Create
    <2>3. req' \in [Requests -> Request]
      <3> HIDE DEF st, a
      <3> QED
        BY <2>1, <2>2, SubmittedType DEF TypeOK
    <2>4. endorsed' \in [Requests -> SUBSET (Users \X (0 .. MaxRevision))]
      BY <1>1 DEF Create, TypeOK
    <2> QED
      BY <1>1, <2>3, <2>4 DEF Create, TypeOK, jobVars, runVars
  <1>2. ASSUME NEW u \in Users, NEW n \in Positions, NEW sched \in Schedules,
               CreateDraft(r, u, n, sched)
        PROVE  TypeOK'
    <2>1. [AbsentRequest EXCEPT !.status = "draft", !.requester = u, !.revision = 1,
              !.stamp = 1, !.stmts = [i \in 1 .. n |-> "write"], !.sched = sched] \in Request
      <3>1. 1 \in 0 .. MaxRevision /\ [i \in 1 .. n |-> "write"] \in Statements \cup {<<>>}
            /\ sched \in Schedule /\ "draft" \in Status
        BY DraftsAreStatements DEF Schedule, Status
      <3> QED
        BY <3>1, AbsentType, Zenon DEF Request
    <2> QED
      BY <1>2, <2>1 DEF CreateDraft, TypeOK, jobVars, runVars
  <1>3. ASSUME NEW u \in Users, NEW s \in Statements, NEW sched \in Schedules,
               BeginUpdate(r, u, s, sched)
        PROVE  TypeOK'
    <2>1. edit' \in [Requests -> Edit \cup {NoEdit}]
      BY <1>3 DEF BeginUpdate, TypeOK, Edit, RequiresApproval, Schedule
    <2> QED
      BY <1>3, <2>1 DEF BeginUpdate, TypeOK, jobVars, runVars
  <1>4. ASSUME NEW u \in Users, NEW n \in Positions, NEW sched \in Schedules,
               UpdateDraft(r, u, n, sched)
        PROVE  TypeOK'
    <2> DEFINE next == req[r].revision + 1
    <2>1. /\ next \in 0 .. MaxRevision /\ "write" \in QueryType
          /\ [i \in 1 .. n |-> "write"] \in Statements \cup {<<>>} /\ sched \in Schedule
          /\ req[r] \in Request
      BY <1>4, DraftsAreStatements DEF UpdateDraft, TypeOK, Request, QueryType, Schedule
    <2>2. [req[r] EXCEPT !.stmts = [i \in 1 .. n |-> "write"], !.stamp = next,
              !.revision = next, !.queryType = "write", !.sched = sched, !.approvedBy = None,
              !.dispatched = FALSE, !.dispatchedBy = None] \in Request
      <3> HIDE DEF next
      <3> QED
        BY <2>1, Zenon DEF Request
    <2>3. req' = [req EXCEPT ![r] = [req[r] EXCEPT !.stmts = [i \in 1 .. n |-> "write"],
              !.stamp = next, !.revision = next, !.queryType = "write", !.sched = sched,
              !.approvedBy = None, !.dispatched = FALSE, !.dispatchedBy = None]]
      BY <1>4, Zenon DEF UpdateDraft
    <2>4. req' \in [Requests -> Request]
      <3> HIDE DEF next
      <3> QED
        BY <2>2, <2>3 DEF TypeOK
    <2> QED
      BY <1>4, <2>4 DEF UpdateDraft, TypeOK, jobVars
  <1>5. ASSUME NEW u \in Users, Withdraw(r, u)
        PROVE  TypeOK'
    <2> DEFINE next == req[r].revision + 1
    <2>1. next \in 0 .. MaxRevision /\ req[r] \in Request
      BY <1>5 DEF Withdraw, TypeOK, Request
    <2>2. [req[r] EXCEPT !.status = "draft", !.approvedBy = None,
              !.dispatched = FALSE, !.dispatchedBy = None, !.revision = next] \in Request
      <3> HIDE DEF next
      <3> QED
        BY <2>1, Zenon DEF Request, Status
    <2>3. req' = [req EXCEPT ![r] = [req[r] EXCEPT !.status = "draft", !.approvedBy = None,
              !.dispatched = FALSE, !.dispatchedBy = None, !.revision = next]]
      BY <1>5, Zenon DEF Withdraw
    <2>4. req' \in [Requests -> Request]
      <3> HIDE DEF next
      <3> QED
        BY <2>2, <2>3 DEF TypeOK
    <2> QED
      BY <1>5, <2>4 DEF Withdraw, TypeOK, jobVars, runVars
  <1>6. ASSUME NEW by \in Users \cup {None}, DispatchTransaction(r, by)
        PROVE  TypeOK'
    <2>1. /\ req[r] \in Request
          /\ Undispatched(req[r]) \in Request
          /\ req[r].revision < MaxRevision => ReturnedToReview(req[r]) \in Request
          /\ [req[r] EXCEPT !.status = "approved", !.dispatched = TRUE,
                            !.dispatchedBy = by] \in Request
      BY UndispatchedType, ReturnedType, DispatchedType DEF TypeOK
    <2>2. req' \in [Requests -> Request]
      BY <1>6, <2>1 DEF DispatchTransaction, TypeOK
    <2>3. 1 \in Positions
      BY DEF Positions
    <2>4. queue' \in [Requests -> Seq(Positions)]
      BY <1>6, <2>3, EnqueueType DEF DispatchTransaction, TypeOK
    <2> QED
      BY <1>6, <2>2, <2>4 DEF DispatchTransaction, TypeOK, runVars
  <1>7. ASSUME NEW u \in Users, Cancel(r, u)
        PROVE  TypeOK'
    <2>1. "cancelled" \in Status
      BY DEF Status
    <2> QED
      BY <1>7, <2>1, StatusType DEF Cancel, TypeOK, jobVars, runVars
  <1>8. RetryFrom(r) \in Positions
    BY DEF RetryFrom, TypeOK, Positions
  <1>9. ASSUME NEW u \in Users, RetryInPlace(r, u)
        PROVE  TypeOK'
    <2>1. queue' \in [Requests -> Seq(Positions)]
      BY <1>8, <1>9, EnqueueType DEF RetryInPlace
    <2> QED
      BY <1>9, <2>1, DispatchedType DEF RetryInPlace, TypeOK, runVars
  <1>10. ASSUME NEW u \in Users, NEW new \in Requests, RetryLinked(r, u, new)
         PROVE  TypeOK'
    <2> DEFINE owner == req[r].requester
               rest == SubSeq(req[r].stmts, RetryFrom(r), Len(req[r].stmts))
               st == IF RequiresApproval(owner, rest) THEN "pending_review" ELSE "approved"
               a == IF RequiresApproval(owner, rest) THEN None ELSE owner
    <2>1. req[r] \in Request
      BY DEF TypeOK
    <2>2. owner \in Users
      BY <1>10 DEF RetryLinked, CanRetry, QueueInv
    <2>3. rest \in Statements \cup {<<>>}
      BY <1>8, <2>1, RestIsStatements DEF Request
    <2>4. st \in Status /\ a \in Users \cup {None} /\ req[r].queryType \in QueryType
      BY <2>1, <2>2 DEF Status, Request
    <2>5. req' = [req EXCEPT ![new] = [AbsentRequest EXCEPT !.status = st, !.requester = owner,
              !.revision = 1, !.stamp = 1, !.stmts = rest, !.queryType = req[r].queryType,
              !.approvedBy = a]]
      BY <1>10, Zenon DEF RetryLinked
    <2>6. req' \in [Requests -> Request]
      <3> HIDE DEF owner, rest, st, a
      <3>1. 1 \in 0 .. MaxRevision
        OBVIOUS
      <3>2. [AbsentRequest EXCEPT !.status = st, !.requester = owner, !.revision = 1, !.stamp = 1,
                !.stmts = rest, !.queryType = req[r].queryType, !.approvedBy = a] \in Request
        BY <2>2, <2>3, <2>4, <3>1, AbsentType, Zenon DEF Request
      <3> QED
        BY <2>5, <3>2 DEF TypeOK
    <2>7. endorsed' = [endorsed EXCEPT ![new] =
              IF RequiresApproval(owner, rest) THEN {} ELSE {<<owner, 1>>}]
      BY <1>10, Zenon DEF RetryLinked
    <2>8. endorsed' \in [Requests -> SUBSET (Users \X (0 .. MaxRevision))]
      <3> HIDE DEF owner, rest
      <3> QED
        BY <2>2, <2>7 DEF TypeOK
    <2> QED
      BY <1>10, <2>6, <2>8 DEF RetryLinked, TypeOK, jobVars, runVars
  <1>11. ASSUME NEW u \in Users, ResolveFailure(r, u)
         PROVE  TypeOK'
    <2>1. [req[r] EXCEPT !.resolved = TRUE] \in Request
      <3>1. req[r] \in Request
        BY DEF TypeOK
      <3> QED
        BY <3>1, Zenon DEF Request
    <2> QED
      BY <1>11, <2>1 DEF ResolveFailure, TypeOK, jobVars, runVars
  <1>12. ASSUME NEW u \in Reviewers, OpenForReview(u, r)
         PROVE  TypeOK'
    <2>1. [revision |-> req[r].revision, stamp |-> req[r].stamp] \in Page
      BY DEF TypeOK, Request, Page
    <2>2. page' \in [Reviewers -> [Requests -> Page]]
      BY <1>12, <2>1 DEF OpenForReview, TypeOK
    <2> QED
      BY <1>12, <2>2 DEF OpenForReview, TypeOK, jobVars, runVars
  <1>13. ASSUME NEW u \in Reviewers, Approve(u, r)
         PROVE  TypeOK'
    <2> DEFINE st == ReadyStatus(req[r].sched)
    <2>1. st \in Status /\ u \in Users /\ req[r] \in Request
      BY DEF ReadyStatus, Status, TypeOK
    <2>2. [req[r] EXCEPT !.status = st, !.approvedBy = u] \in Request
      <3> HIDE DEF st
      <3> QED
        BY <2>1, Zenon DEF Request
    <2>3. req' \in [Requests -> Request]
      BY <1>13, <2>2 DEF Approve, TypeOK
    <2>4. endorsed' \in [Requests -> SUBSET (Users \X (0 .. MaxRevision))]
      <3>1. page[u][r].stamp \in 0 .. MaxRevision
        BY DEF TypeOK, Page
      <3> QED
        BY <1>13, <2>1, <3>1 DEF Approve, TypeOK
    <2> QED
      BY <1>13, <2>3, <2>4 DEF Approve, TypeOK, jobVars, runVars
  <1>14. ASSUME NEW u \in Reviewers, Reject(u, r)
         PROVE  TypeOK'
    <2>1. "rejected" \in Status
      BY DEF Status
    <2> QED
      BY <1>14, <2>1, StatusType DEF Reject, TypeOK, jobVars, runVars
  <1>15. ASSUME CommitUpdate(r)
         PROVE  TypeOK'
    <2> DEFINE e == edit[r]
               next == req[r].revision + 1
               st == IF e.requires THEN "pending_review" ELSE ReadyStatus(e.sched)
               a == IF e.requires THEN None ELSE e.by
    <2>1. e \in Edit
      BY <1>15 DEF CommitUpdate, TypeOK
    <2>2. /\ e.by \in Users /\ e.stmts \in Statements \cup {<<>>} /\ e.sched \in Schedule
          /\ next \in 0 .. MaxRevision /\ st \in Status /\ a \in Users \cup {None}
          /\ BatchQueryType(e.stmts) \in QueryType /\ req[r] \in Request
      <3>1. /\ e.by \in Users /\ e.stmts \in Statements \cup {<<>>} /\ e.sched \in Schedule
            /\ e.requires \in BOOLEAN
        BY <2>1 DEF Edit
      <3>2. next \in 0 .. MaxRevision /\ req[r] \in Request
        BY <1>15 DEF CommitUpdate, TypeOK, Request
      <3> QED
        BY <3>1, <3>2 DEF Status, ReadyStatus, BatchQueryType, QueryType
    <2>3. req' = [req EXCEPT ![r] = [req[r] EXCEPT !.status = st, !.stmts = e.stmts,
              !.stamp = next, !.revision = next, !.queryType = BatchQueryType(e.stmts),
              !.sched = e.sched, !.approvedBy = a, !.dispatched = FALSE, !.dispatchedBy = None]]
      BY <1>15, Zenon DEF CommitUpdate
    <2>4. req' \in [Requests -> Request]
      <3> HIDE DEF e, next, st, a
      <3> QED
        BY <2>2, <2>3, EditedType DEF TypeOK
    <2>5. endorsed' \in [Requests -> SUBSET (Users \X (0 .. MaxRevision))]
      <3>1. endorsed' = [endorsed EXCEPT ![r] =
                IF e.requires THEN @ ELSE @ \cup {<<e.by, next>>}]
        BY <1>15, Zenon DEF CommitUpdate
      <3> HIDE DEF e, next
      <3> QED
        BY <2>2, <3>1 DEF TypeOK
    <2> QED
      BY <1>15, <2>4, <2>5 DEF CommitUpdate, TypeOK, jobVars
  <1>16. ASSUME AbortUpdate(r)
         PROVE  TypeOK'
    BY <1>16 DEF AbortUpdate, TypeOK, jobVars, runVars
  <1>17. ASSUME ExpireLock(r)
         PROVE  TypeOK'
    BY <1>17 DEF ExpireLock, TypeOK, requestVars, runVars
  <1>18. ASSUME Redeliver(r)
         PROVE  TypeOK'
    BY <1>18, FailedHookType DEF Redeliver, TypeOK, runVars
  <1>19. ASSUME TimePasses(r)
         PROVE  TypeOK'
    <2>1. [req[r] EXCEPT !.sched = "past"] \in Request
      <3>1. req[r] \in Request
        BY DEF TypeOK
      <3> QED
        BY <3>1, Zenon DEF Request, Schedule
    <2>2. edit[r].sched = "future" => [edit[r] EXCEPT !.sched = "past"] \in Edit
      <3>1. SUFFICES ASSUME edit[r].sched = "future" PROVE [edit[r] EXCEPT !.sched = "past"] \in Edit
        OBVIOUS
      <3>2. edit[r] \in Edit
        BY <3>1 DEF TypeOK, NoEdit
      <3> QED
        BY <3>2, Zenon DEF Edit, Schedule
    <2>3. req' \in [Requests -> Request]
      BY <1>19, <2>1 DEF TimePasses, TypeOK
    <2>4. edit' \in [Requests -> Edit \cup {NoEdit}]
      BY <1>19, <2>2 DEF TimePasses, TypeOK
    <2> QED
      BY <1>19, <2>3, <2>4 DEF TimePasses, TypeOK, jobVars, runVars
  <1>20. CASE UserStep(r)
    <2>1. ASSUME NEW u \in Users, Dispatch(r, u)
          PROVE  TypeOK'
      BY <1>6, <2>1 DEF Dispatch
    <2> QED
      BY <1>1, <1>2, <1>3, <1>4, <1>5, <1>7, <1>9, <1>10, <1>11, <1>20, <2>1 DEF UserStep
  <1>21. CASE ReviewStep(r)
    BY <1>12, <1>13, <1>14, <1>21 DEF ReviewStep
  <1>22. CASE SystemStep(r)
    BY <1>6, <1>15, <1>16, <1>17, <1>18, <1>22 DEF SystemStep, DispatchDue
  <1> QED
    BY <1>19, <1>20, <1>21, <1>22

\* Executing a claimed batch keeps the types.
LEMMA ClaimType ==
    ASSUME TypeOK, NEW w \in Workers, worker[w].req \in Requests
    PROVE  ClaimedRun(w) \in Worker
  <1> USE BatchAssumption
  <1> DEFINE r == worker[w].req
             n == Len(req[r].stmts)
             legacy == worker[w].from > n
             from == IF legacy THEN 1 ELSE worker[w].from
             last == IF legacy THEN 1 ELSE n
             needed == RequiresApproval(req[r].requester, req[r].stmts)
  <1>1. worker[w] \in Worker /\ req[r] \in Request
    BY DEF TypeOK
  <1>2. n \in 0 .. MaxStatements /\ worker[w].from \in Positions /\ req[r].stamp \in 0 .. MaxRevision
    BY <1>1, StatementsAreSequences DEF Request, Worker
  <1>3. /\ from \in 1 .. MaxStatements + 1 /\ last \in Positions /\ legacy \in BOOLEAN
        /\ needed \in BOOLEAN
    BY <1>2 DEF Positions, RequiresApproval
  <1>4. ClaimedRun(w) = [worker[w] EXCEPT !.phase = "check", !.pos = from, !.last = last,
            !.legacy = legacy, !.stamp = req[r].stamp, !.needed = needed]
    BY Zenon DEF ClaimedRun
  <1> HIDE DEF r, n, legacy, from, last, needed
  <1>5. [worker[w] EXCEPT !.phase = "check", !.pos = from, !.last = last, !.legacy = legacy,
            !.stamp = req[r].stamp, !.needed = needed] \in Worker
    BY <1>1, <1>2, <1>3, Zenon DEF Worker, Phases
  <1> QED
    BY <1>4, <1>5, Zenon

\* What workers do, and what happens to them, keeps the types.
LEMMA WorkerStepType ==
    ASSUME TypeOK, WorkerInv, NEW w \in Workers, WorkerStep(w) \/ FaultStep(w)
    PROVE  TypeOK'
  <1> USE BatchAssumption
  <1>1. ASSUME NEW r \in Requests, TakeJob(w, r)
        PROVE  TypeOK'
    <2>1. Head(queue[r]) \in Positions /\ Tail(queue[r]) \in Seq(Positions)
      BY <1>1, HeadTailProperties DEF TakeJob, TypeOK
    <2>2. worker' \in [Workers -> Worker]
      BY <1>1, <2>1, TakenType DEF TakeJob, TypeOK
    <2> QED
      BY <1>1, <2>1, <2>2 DEF TakeJob, TypeOK, requestVars, runVars
  <1>2. ASSUME NEW r \in Requests, DropJob(w, r)
        PROVE  TypeOK'
    <2>1. Tail(queue[r]) \in Seq(Positions)
      BY <1>2, HeadTailProperties DEF DropJob, TypeOK
    <2> QED
      BY <1>2, <2>1 DEF DropJob, TypeOK, requestVars, runVars
  <1> DEFINE r == worker[w].req
  <1>3. worker[w].phase # "idle" => r \in Requests
    BY DEF WorkerInv
  <1>4. r \in Requests => req[r] \in Request
    BY DEF TypeOK
  <1>5. \A st \in {"failed", "completed", "running"} : r \in Requests =>
            [req[r] EXCEPT !.status = st] \in Request
    BY <1>4, StatusType DEF Status
  <1>6. \A ph \in Phases : [worker[w] EXCEPT !.phase = ph] \in Worker
    BY PhaseType DEF TypeOK
  <1>7. CASE Load(w)
    <2>1. worker' \in [Workers -> Worker]
      BY <1>6, <1>7 DEF Load, Goto, TypeOK, Phases
    <2> QED
      BY <1>7, <2>1 DEF Load, TypeOK, requestVars, runVars
  <1>8. CASE ReturnBlocked(w)
    <2>1. worker' \in [Workers -> Worker]
      BY <1>6, <1>8 DEF ReturnBlocked, Goto, TypeOK, Phases
    <2>2. Undispatched(req[r]) \in Request
      BY <1>3, <1>4, <1>8, UndispatchedType DEF ReturnBlocked
    <2>3. req' \in [Requests -> Request]
      BY <1>8, <2>2 DEF ReturnBlocked, TypeOK
    <2> QED
      BY <1>8, <2>1, <2>3 DEF ReturnBlocked, TypeOK, runVars
  <1>9. CASE Claim(w)
    <2>1. r \in Requests
      BY <1>3, <1>9 DEF Claim
    <2>2. worker' \in [Workers -> Worker]
      <3>1. ClaimedRun(w) \in Worker /\ [worker[w] EXCEPT !.phase = "closing"] \in Worker
        BY <1>6, <2>1, ClaimType DEF Phases
      <3>2. \/ worker' = [worker EXCEPT ![w].phase = "closing"]
            \/ worker' = [worker EXCEPT ![w] = ClaimedRun(w)]
        BY <1>9, Zenon DEF Claim, Goto
      <3> QED
        BY <3>1, <3>2 DEF TypeOK
    <2>3. /\ Undispatched(req[r]) \in Request
          /\ req[r].revision < MaxRevision => ReturnedToReview(req[r]) \in Request
          /\ [req[r] EXCEPT !.status = "running"] \in Request
      BY <1>4, <1>5, <2>1, UndispatchedType, ReturnedType
    <2>4. req' \in [Requests -> Request]
      BY <1>9, <2>3 DEF Claim, TypeOK
    <2> QED
      BY <1>9, <2>2, <2>4 DEF Claim, TypeOK, runVars
  <1>10. CASE CheckCancelled(w)
    <2>1. worker' \in [Workers -> Worker]
      BY <1>6, <1>10 DEF CheckCancelled, Goto, TypeOK, Phases
    <2> QED
      BY <1>10, <2>1 DEF CheckCancelled, TypeOK, requestVars, runVars
  <1>11. worker[w].phase \in {"start", "executing"} => worker[w].pos \in Positions
    BY DEF WorkerInv, TypeOK, Worker, Positions
  <1>12. CASE StartStatement(w)
    <2>1. worker' \in [Workers -> Worker]
      BY <1>6, <1>12 DEF StartStatement, Goto, TypeOK, Phases
    <2>2. started' \in [Requests -> SUBSET Positions] /\ late' \in [Requests -> Nat]
      <3>1. worker[w].pos \in Positions
        BY <1>11, <1>12 DEF StartStatement
      <3>2. late' \in [Requests -> Nat]
        <4>1. \A x \in Requests : late[x] \in Nat /\ late[x] + 1 \in Nat
          BY DEF TypeOK
        <4> QED
          BY <1>3, <1>12, <4>1 DEF StartStatement, TypeOK
      <3> QED
        BY <1>12, <3>1, <3>2 DEF StartStatement, TypeOK
    <2> QED
      BY <1>12, <2>1, <2>2 DEF StartStatement, TypeOK, requestVars
  <1>13. CASE StatementSucceeds(w)
    <2> DEFINE ph == IF worker[w].pos = worker[w].last THEN "finish" ELSE "check"
               next == worker[w].pos + 1
    <2>1. ph \in Phases /\ next \in 1 .. MaxStatements + 1 /\ worker[w] \in Worker
      BY <1>11, <1>13 DEF StatementSucceeds, Phases, Positions, TypeOK
    <2>2. worker' = [worker EXCEPT ![w] = [worker[w] EXCEPT !.phase = ph, !.pos = next]]
      BY <1>13, Zenon DEF StatementSucceeds
    <2>3. worker' \in [Workers -> Worker]
      <3> HIDE DEF ph, next
      <3> QED
        BY <2>1, <2>2, SteppedType DEF TypeOK
    <2>4. succeeded' \in [Requests -> SUBSET Positions]
      BY <1>11, <1>13 DEF StatementSucceeds, TypeOK
    <2> QED
      BY <1>13, <2>3, <2>4 DEF StatementSucceeds, TypeOK, requestVars
  <1>14. CASE StatementFails(w)
    <2>1. worker' \in [Workers -> Worker]
      BY <1>6, <1>14 DEF StatementFails, Goto, TypeOK, Phases
    <2>2. failedAt' \in [Requests -> 0 .. MaxStatements]
      <3>1. worker[w].pos \in 0 .. MaxStatements /\ 0 \in 0 .. MaxStatements
        BY <1>11, <1>14 DEF StatementFails, Positions
      <3> QED
        BY <1>14, <3>1 DEF StatementFails, TypeOK
    <2> QED
      BY <1>14, <2>1, <2>2 DEF StatementFails, TypeOK, requestVars
  <1>15. CASE RecordFailure(w)
    <2>1. worker' \in [Workers -> Worker]
      BY <1>6, <1>15 DEF RecordFailure, Goto, TypeOK, Phases
    <2>2. req' \in [Requests -> Request]
      BY <1>3, <1>5, <1>15 DEF RecordFailure, TypeOK
    <2> QED
      BY <1>15, <2>1, <2>2 DEF RecordFailure, TypeOK, runVars
  <1>16. CASE RecordCompletion(w)
    <2>1. worker' \in [Workers -> Worker]
      BY <1>6, <1>16 DEF RecordCompletion, Goto, TypeOK, Phases
    <2>2. req' \in [Requests -> Request]
      BY <1>3, <1>5, <1>16 DEF RecordCompletion, TypeOK
    <2> QED
      BY <1>16, <2>1, <2>2 DEF RecordCompletion, TypeOK, runVars
  <1>17. CASE Close(w)
    BY <1>17, IdleType DEF Close, TypeOK, requestVars, runVars
  <1>18. CASE Throw(w)
    <2>1. worker' \in [Workers -> Worker]
      BY <1>6, <1>18 DEF Throw, Goto, TypeOK, Phases
    <2> QED
      BY <1>18, <2>1 DEF Throw, TypeOK, requestVars, runVars
  <1>19. CASE FailedHook(w)
    <2>1. req' \in [Requests -> Request]
      BY <1>3, <1>19, FailedHookType DEF FailedHook
    <2> QED
      BY <1>19, <2>1, IdleType DEF FailedHook, TypeOK, runVars
  <1>20. CASE Timeout(w)
    <2>1. req' \in [Requests -> Request]
      BY <1>3, <1>20, FailedHookType DEF Timeout, Holding
    <2> QED
      BY <1>20, <2>1, IdleType DEF Timeout, TypeOK, runVars
  <1>21. CASE Crash(w)
    BY <1>3, <1>21, IdleType DEF Crash, TypeOK, requestVars, runVars
  <1> QED
    BY <1>1, <1>2, <1>7, <1>8, <1>9, <1>10, <1>12, <1>13, <1>14, <1>15, <1>16, <1>17, <1>18,
       <1>19, <1>20, <1>21 DEF WorkerStep, FaultStep

-----------------------------------------------------------------------------
(* What a step can do to a request                                         *)

\* Work that is, or may still be, in the hands of a worker: nobody can edit it.
Busy(x) ==
    \/ req[x].status \in {"running", "failed", "cancelled"}
    \/ req[x].status = "approved" /\ req[x].dispatched

\* The row of a request evolves: it is never deleted and never changes hands; a
\* new list of statements comes with a new revision, and only while the request
\* can be edited; a cancellation stays; the scheduler only runs what was ready
\* before its time.
RowStep(x) ==
    /\ req[x].status # "absent" =>
          req'[x].status # "absent" /\ req'[x].requester = req[x].requester
    /\ req'[x].status # "absent" => req'[x].requester \in Users
    /\ req'[x].status = "absent" => req'[x] = AbsentRequest
    /\ req[x].revision <= req'[x].revision
    /\ req'[x].stamp # req[x].stamp =>
          req[x].revision < req'[x].revision /\ ~Busy(x)
    /\ req[x].status = "cancelled" => req'[x].status = "cancelled"

\* It does for what people and the control plane do.
LEMMA RequestRows ==
    ASSUME TypeInv, NEW r \in Requests,
           UserStep(r) \/ ReviewStep(r) \/ SystemStep(r) \/ TimePasses(r)
    PROVE  \A x \in Requests : RowStep(x)
  <1> USE BatchAssumption DEF RowStep, Busy, TypeInv, TypeOK, Request, QueueInv
  <1>1. CASE UNCHANGED req
    BY <1>1
  <1>0. ASSUME NEW by, req[r].status \in {"approved", "scheduled"}, DispatchTransaction(r, by)
        PROVE  \A x \in Requests : RowStep(x)
    <2>1. CASE req' = [req EXCEPT ![r] = Undispatched(@)]
      BY <1>0, <2>1 DEF Undispatched, DispatchTransaction
    <2>2. CASE req' = [req EXCEPT ![r] = ReturnedToReview(@)]
      BY <1>0, <2>2 DEF ReturnedToReview, DispatchTransaction
    <2>3. CASE req' = [req EXCEPT ![r] = [@ EXCEPT !.status = "approved",
                                   !.dispatched = TRUE, !.dispatchedBy = by]]
      BY <1>0, <2>3 DEF DispatchTransaction
    <2> QED
      BY <1>0, <2>1, <2>2, <2>3, Zenon DEF DispatchTransaction
  <1>2. CASE UserStep(r)
    <2>1. ASSUME NEW u \in Users, NEW s \in Statements, NEW sched \in Schedules,
                 Create(r, u, s, sched)
          PROVE  \A x \in Requests : RowStep(x)
      BY <2>1 DEF Create, AbsentRequest, ReadyStatus
    <2>2. ASSUME NEW u \in Users, NEW n \in Positions, NEW sched \in Schedules,
                 CreateDraft(r, u, n, sched)
          PROVE  \A x \in Requests : RowStep(x)
      BY <2>2 DEF CreateDraft, AbsentRequest
    <2>3. ASSUME NEW u \in Users, NEW n \in Positions, NEW sched \in Schedules,
                 UpdateDraft(r, u, n, sched)
          PROVE  \A x \in Requests : RowStep(x)
      BY <2>3 DEF UpdateDraft
    <2>4. ASSUME NEW u \in Users, Withdraw(r, u)
          PROVE  \A x \in Requests : RowStep(x)
      BY <2>4 DEF Withdraw
    <2>5. ASSUME NEW u \in Users, Dispatch(r, u)
          PROVE  \A x \in Requests : RowStep(x)
      <3>1. req[r].status \in {"approved", "scheduled"} /\ DispatchTransaction(r, u)
        BY <2>5 DEF Dispatch
      <3> QED
        BY <1>0, <3>1
    <2>6. ASSUME NEW u \in Users, Cancel(r, u)
          PROVE  \A x \in Requests : RowStep(x)
      BY <2>6 DEF Cancel
    <2>7. ASSUME NEW u \in Users, RetryInPlace(r, u)
          PROVE  \A x \in Requests : RowStep(x)
      BY <2>7 DEF RetryInPlace, CanRetry
    <2>8. ASSUME NEW u \in Users, NEW new \in Requests, RetryLinked(r, u, new)
          PROVE  \A x \in Requests : RowStep(x)
      <3> DEFINE owner == req[r].requester
                 rest == SubSeq(req[r].stmts, RetryFrom(r), Len(req[r].stmts))
                 st == IF RequiresApproval(owner, rest) THEN "pending_review" ELSE "approved"
                 a == IF RequiresApproval(owner, rest) THEN None ELSE owner
                 row == [AbsentRequest EXCEPT !.status = st, !.requester = owner,
                            !.revision = 1, !.stamp = 1, !.stmts = rest,
                            !.queryType = req[r].queryType, !.approvedBy = a]
      <3>1. req' = [req EXCEPT ![new] = row] /\ req[new].status = "absent"
        BY <2>8, Zenon DEF RetryLinked
      <3>2. owner \in Users
        BY <2>8 DEF RetryLinked, CanRetry
      <3>3. row.status # "absent" /\ row.requester = owner /\ row.revision = 1 /\ row.stamp = 1
        <4> HIDE DEF owner, rest, a
        <4> QED
          BY DEF AbsentRequest
      <3>4. req'[new] = row /\ \A x \in Requests \ {new} : req'[x] = req[x]
        <4> HIDE DEF row
        <4> QED
          BY <3>1
      <3>5. RowStep(new)
        <4> HIDE DEF row, owner
        <4> QED
          BY <3>1, <3>2, <3>3, <3>4 DEF AbsentRequest
      <3>6. \A x \in Requests \ {new} : RowStep(x)
        <4> HIDE DEF row, owner, rest, st, a
        <4> QED
          BY <3>4
      <3> QED
        BY <3>5, <3>6
    <2>9. ASSUME NEW u \in Users, ResolveFailure(r, u)
          PROVE  \A x \in Requests : RowStep(x)
      BY <2>9 DEF ResolveFailure
    <2>10. ASSUME NEW u \in Users, NEW s \in Statements, NEW sched \in Schedules,
                  BeginUpdate(r, u, s, sched)
           PROVE  \A x \in Requests : RowStep(x)
      BY <1>1, <2>10 DEF BeginUpdate
    <2> QED
      BY <1>2, <2>1, <2>2, <2>3, <2>4, <2>5, <2>6, <2>7, <2>8, <2>9, <2>10 DEF UserStep
  <1>3. CASE ReviewStep(r)
    <2>1. ASSUME NEW u \in Reviewers, Approve(u, r)
          PROVE  \A x \in Requests : RowStep(x)
      BY <2>1 DEF Approve, CanDecide, ReadyStatus
    <2>2. ASSUME NEW u \in Reviewers, Reject(u, r)
          PROVE  \A x \in Requests : RowStep(x)
      BY <2>2 DEF Reject, CanDecide
    <2>3. ASSUME NEW u \in Reviewers, OpenForReview(u, r)
          PROVE  \A x \in Requests : RowStep(x)
      BY <1>1, <2>3 DEF OpenForReview
    <2> QED
      BY <1>3, <2>1, <2>2, <2>3 DEF ReviewStep
  <1>4. CASE SystemStep(r)
    <2>1. CASE CommitUpdate(r)
      BY <2>1 DEF CommitUpdate, IsEditable, ReadyStatus
    <2>2. CASE AbortUpdate(r)
      BY <1>1, <2>2 DEF AbortUpdate
    <2>3. CASE DispatchDue(r)
      <3>1. req[r].status \in {"approved", "scheduled"} /\ DispatchTransaction(r, None)
        BY <2>3 DEF DispatchDue
      <3> QED
        BY <1>0, <3>1
    <2>4. CASE ExpireLock(r)
      BY <1>1, <2>4 DEF ExpireLock, requestVars
    <2>5. CASE Redeliver(r)
      BY <2>5 DEF Redeliver, AfterFailedHook, IsTerminal, Terminal
    <2> QED
      BY <1>4, <2>1, <2>2, <2>3, <2>4, <2>5 DEF SystemStep
  <1>5. CASE TimePasses(r)
    <2>1. CASE UNCHANGED req
      BY <1>1, <2>1
    <2>2. CASE req[r].sched = "future" /\ req' = [req EXCEPT ![r].sched = "past"]
      <3>1. req[r].status # "absent"
        BY <2>2 DEF AbsentRequest
      <3> QED
        BY <2>2, <3>1
    <2>3. \/ UNCHANGED req
          \/ req[r].sched = "future" /\ req' = [req EXCEPT ![r].sched = "past"]
      BY <1>5, Zenon DEF TimePasses
    <2> HIDE DEF RowStep, Busy, TypeInv, TypeOK, Request, QueueInv
    <2> QED
      BY <2>1, <2>2, <2>3, Zenon
  <1> QED
    BY <1>2, <1>3, <1>4, <1>5

\* It does for what workers do.
LEMMA WorkerRows ==
    ASSUME TypeInv, NEW w \in Workers, WorkerStep(w) \/ FaultStep(w)
    PROVE  \A x \in Requests : RowStep(x)
  <1> USE BatchAssumption DEF RowStep, Busy, TypeInv, TypeOK, Request, QueueInv
  <1> DEFINE r == worker[w].req
  <1>1. CASE UNCHANGED req
    BY <1>1
  <1>2. worker[w].phase # "idle" => r \in Requests /\ req[r].status # "absent"
    BY DEF WorkerInv
  <1>3. ASSUME req' = [req EXCEPT ![r] = Undispatched(@)], r \in Requests,
               req[r].status \in {"approved", "running"}
        PROVE  \A x \in Requests : RowStep(x)
    BY <1>3 DEF Undispatched
  <1>4. ASSUME NEW st \in {"running", "failed", "completed"}, r \in Requests,
               req' = [req EXCEPT ![r].status = st],
               req[r].status \notin {"absent", "cancelled"}
        PROVE  \A x \in Requests : RowStep(x)
    BY <1>4
  <1>5. CASE ReturnBlocked(w)
    BY <1>1, <1>2, <1>3, <1>5 DEF ReturnBlocked
  <1>6. CASE Claim(w)
    <2>1. r \in Requests
      BY <1>2, <1>6 DEF Claim
    <2>2. \/ UNCHANGED req
          \/ /\ req' = [req EXCEPT ![r] = Undispatched(@)]
             /\ req[r].status \in {"approved", "running"}
          \/ /\ req' = [req EXCEPT ![r] = ReturnedToReview(@)]
             /\ req[r].status \in {"approved", "running"} /\ req[r].revision < MaxRevision
          \/ /\ req' = [req EXCEPT ![r].status = "running"]
             /\ req[r].status \in {"approved", "running"}
      BY <1>6, Zenon DEF Claim
    <2>3. CASE /\ req' = [req EXCEPT ![r] = ReturnedToReview(@)]
               /\ req[r].status \in {"approved", "running"} /\ req[r].revision < MaxRevision
      BY <2>1, <2>3 DEF ReturnedToReview
    <2>4. CASE /\ req' = [req EXCEPT ![r].status = "running"]
               /\ req[r].status \in {"approved", "running"}
      BY <1>4, <2>1, <2>4
    <2>5. CASE /\ req' = [req EXCEPT ![r] = Undispatched(@)]
               /\ req[r].status \in {"approved", "running"}
      BY <1>3, <2>1, <2>5
    <2> HIDE DEF RowStep, Busy, TypeInv, TypeOK, Request, QueueInv
    <2> QED
      BY <1>1, <2>2, <2>3, <2>4, <2>5, Zenon
  <1>7. CASE RecordFailure(w)
    BY <1>1, <1>2, <1>4, <1>7 DEF RecordFailure
  <1>8. CASE RecordCompletion(w)
    BY <1>1, <1>2, <1>4, <1>8 DEF RecordCompletion
  <1>9. ASSUME req' = AfterFailedHook(r), worker[w].phase # "idle"
        PROVE  \A x \in Requests : RowStep(x)
    BY <1>1, <1>2, <1>4, <1>9 DEF AfterFailedHook, IsTerminal, Terminal
  <1>10. CASE FailedHook(w) \/ Timeout(w)
    <2>1. req' = AfterFailedHook(r) /\ worker[w].phase # "idle"
      BY <1>10 DEF FailedHook, Timeout, Holding
    <2> QED
      BY <1>9, <2>1
  <1>11. CASE UNCHANGED requestVars
    BY <1>1, <1>11 DEF requestVars
  <1>12. \/ ReturnBlocked(w) \/ Claim(w) \/ RecordFailure(w) \/ RecordCompletion(w)
         \/ FailedHook(w) \/ Timeout(w) \/ UNCHANGED requestVars
    BY Zenon DEF WorkerStep, FaultStep, TakeJob, DropJob, Load, CheckCancelled, StartStatement,
        StatementSucceeds, StatementFails, Close, Throw, Crash
  <1> HIDE DEF RowStep, Busy, TypeInv, TypeOK, Request, QueueInv
  <1> QED
    BY <1>5, <1>6, <1>7, <1>8, <1>10, <1>11, <1>12, Zenon

\* It does for every step.
LEMMA Rows ==
    ASSUME TypeInv, [Next]_vars
    PROVE  \A x \in Requests : RowStep(x)
  <1>1. CASE UNCHANGED req
    BY <1>1, BatchAssumption DEF RowStep, Busy, TypeInv, TypeOK, Request, QueueInv
  <1>2. CASE ChangePolicy \/ UNCHANGED vars
    BY <1>1, <1>2 DEF ChangePolicy, requestVars, vars
  <1> QED
    BY <1>2, RequestRows, WorkerRows DEF Next

\* People and the control plane do not move workers.
LEMMA RequestFrame ==
    ASSUME NEW r, UserStep(r) \/ ReviewStep(r) \/ SystemStep(r) \/ TimePasses(r)
    PROVE  UNCHANGED worker
  <1>1. CASE UserStep(r)
    <2>1. ASSUME NEW u, NEW s, NEW n, NEW sched,
                 \/ Create(r, u, s, sched) \/ BeginUpdate(r, u, s, sched)
                 \/ CreateDraft(r, u, n, sched) \/ UpdateDraft(r, u, n, sched)
          PROVE  UNCHANGED worker
      BY <2>1, Zenon DEF Create, CreateDraft, BeginUpdate, UpdateDraft, jobVars
    <2>2. ASSUME NEW u, NEW new, RetryLinked(r, u, new)
          PROVE  UNCHANGED worker
      BY <2>2, Zenon DEF RetryLinked, jobVars
    <2>3. ASSUME NEW u, \/ Withdraw(r, u) \/ Dispatch(r, u) \/ Cancel(r, u)
                        \/ RetryInPlace(r, u) \/ ResolveFailure(r, u)
          PROVE  UNCHANGED worker
      BY <2>3, Zenon DEF Withdraw, DispatchTransaction, Dispatch, Cancel, RetryInPlace,
         ResolveFailure, jobVars
    <2> QED
      BY <1>1, <2>1, <2>2, <2>3, Zenon DEF UserStep
  <1>2. CASE ReviewStep(r)
    BY <1>2, Zenon DEF ReviewStep, OpenForReview, Approve, Reject, jobVars
  <1>3. CASE SystemStep(r)
    BY <1>3, Zenon DEF SystemStep, CommitUpdate, AbortUpdate, DispatchTransaction, DispatchDue,
       ExpireLock, Redeliver, jobVars
  <1>4. CASE TimePasses(r)
    BY <1>4, Zenon DEF TimePasses, jobVars
  <1> QED
    BY <1>1, <1>2, <1>3, <1>4

\* The steps of one worker do not move another.
LEMMA WorkerFrame ==
    ASSUME TypeInv, NEW w \in Workers, WorkerStep(w) \/ FaultStep(w)
    PROVE  \A v \in Workers \ {w} : worker'[v] = worker[v]
  <1>1. \/ UNCHANGED worker
        \/ \E x : worker' = [worker EXCEPT ![w] = x]
        \/ \E ph : worker' = [worker EXCEPT ![w].phase = ph]
    BY Zenon DEF WorkerStep, FaultStep, TakeJob, DropJob, Load, ReturnBlocked, Claim,
       CheckCancelled, StartStatement, StatementSucceeds, StatementFails, RecordFailure,
       RecordCompletion, Close, Throw, FailedHook, Timeout, Crash, Goto
  <1> QED
    BY <1>1 DEF TypeInv, TypeOK

\* Jobs come from steps on requests that exist.
LEMMA JobFrame ==
    ASSUME TypeInv, [Next]_vars, NEW x \in Requests
    PROVE  queue'[x] # <<>> \/ x \in stale' =>
               queue[x] # <<>> \/ x \in stale \/ req[x].status # "absent"
  <1> USE DEF TypeInv, TypeOK
  <1>1. CASE UNCHANGED <<queue, stale>>
    BY <1>1
  <1>2. ASSUME NEW r \in Requests, NEW from, Enqueue(r, from), UNCHANGED stale,
               req[r].status # "absent"
        PROVE  queue'[x] # <<>> \/ x \in stale' =>
                   queue[x] # <<>> \/ x \in stale \/ req[x].status # "absent"
    BY <1>2 DEF Enqueue
  <1>3. ASSUME NEW r \in Requests, UserStep(r)
        PROVE  \/ UNCHANGED <<queue, stale>>
               \/ UNCHANGED stale /\ req[r].status # "absent" /\ \E from : Enqueue(r, from)
    <2>1. ASSUME NEW u, NEW s, NEW n, NEW sched,
                 \/ Create(r, u, s, sched) \/ BeginUpdate(r, u, s, sched)
                 \/ CreateDraft(r, u, n, sched) \/ UpdateDraft(r, u, n, sched)
          PROVE  UNCHANGED <<queue, stale>>
      BY <2>1, Zenon DEF Create, CreateDraft, BeginUpdate, UpdateDraft, jobVars
    <2>2. ASSUME NEW u, NEW new, RetryLinked(r, u, new)
          PROVE  UNCHANGED <<queue, stale>>
      BY <2>2, Zenon DEF RetryLinked, jobVars
    <2>3. ASSUME NEW u, Withdraw(r, u) \/ Cancel(r, u) \/ ResolveFailure(r, u)
          PROVE  UNCHANGED <<queue, stale>>
      BY <2>3, Zenon DEF Withdraw, Cancel, ResolveFailure, jobVars
    <2>4. ASSUME NEW u, Dispatch(r, u)
          PROVE  \/ UNCHANGED <<queue, stale>>
                 \/ UNCHANGED stale /\ req[r].status # "absent" /\ \E from : Enqueue(r, from)
      BY <2>4, Zenon DEF Dispatch, DispatchTransaction
    <2>5. ASSUME NEW u, RetryInPlace(r, u)
          PROVE  UNCHANGED stale /\ req[r].status # "absent" /\ \E from : Enqueue(r, from)
      BY <2>5, Zenon DEF RetryInPlace, CanRetry
    <2> QED
      BY <1>3, <2>1, <2>2, <2>3, <2>4, <2>5, Zenon DEF UserStep
  <1>4. ASSUME NEW r \in Requests, SystemStep(r)
        PROVE  \/ UNCHANGED <<queue, stale>>
               \/ UNCHANGED stale /\ req[r].status # "absent" /\ \E from : Enqueue(r, from)
               \/ UNCHANGED queue /\ stale' = stale \ {r}
    BY <1>4, Zenon DEF SystemStep, CommitUpdate, AbortUpdate, DispatchTransaction, DispatchDue,
       ExpireLock, Redeliver, requestVars, jobVars
  <1>5. ASSUME NEW r \in Requests, ReviewStep(r) \/ TimePasses(r)
        PROVE  UNCHANGED <<queue, stale>>
    BY <1>5 DEF ReviewStep, OpenForReview, Approve, Reject, TimePasses, jobVars
  <1>6. ASSUME NEW w \in Workers, WorkerStep(w) \/ FaultStep(w)
        PROVE  \/ UNCHANGED <<queue, stale>>
               \/ UNCHANGED stale /\ \E r \in Requests :
                      queue[r] # <<>> /\ queue' = [queue EXCEPT ![r] = Tail(@)]
               \/ /\ UNCHANGED queue /\ stale' = stale \cup {worker[w].req}
                  /\ worker[w].phase # "idle"
    BY <1>6, Zenon DEF WorkerStep, FaultStep, TakeJob, DropJob, Load, ReturnBlocked, Claim,
       CheckCancelled, StartStatement, StatementSucceeds, StatementFails, RecordFailure,
       RecordCompletion, Close, Throw, FailedHook, Timeout, Crash
  <1>7. ASSUME NEW w \in Workers, WorkerStep(w) \/ FaultStep(w)
        PROVE  queue'[x] # <<>> \/ x \in stale' =>
                   queue[x] # <<>> \/ x \in stale \/ req[x].status # "absent"
    BY <1>1, <1>6, <1>7 DEF WorkerInv
  <1>8. CASE ChangePolicy \/ UNCHANGED vars
    BY <1>1, <1>8 DEF ChangePolicy, jobVars, vars
  <1>9. ASSUME NEW r \in Requests, UserStep(r) \/ ReviewStep(r) \/ SystemStep(r) \/ TimePasses(r)
        PROVE  queue'[x] # <<>> \/ x \in stale' =>
                   queue[x] # <<>> \/ x \in stale \/ req[x].status # "absent"
    BY <1>1, <1>2, <1>3, <1>4, <1>5, <1>9
  <1> QED
    BY <1>7, <1>8, <1>9 DEF Next

\* Type correctness, with what it needs, is inductive.
LEMMA TypeInvInit ==
    ASSUME Init
    PROVE  TypeInv
  <1> USE BatchAssumption
  <1>1. req \in [Requests -> Request] /\ worker \in [Workers -> Worker]
    BY AbsentType, IdleType DEF Init
  <1>2. page \in [Reviewers -> [Requests -> Page]]
    <2>1. [revision |-> 0, stamp |-> 0] \in Page
      BY DEF Page
    <2> QED
      BY <2>1 DEF Init
  <1>3. queue \in [Requests -> Seq(Positions)]
    BY DEF Init
  <1>4. TypeOK
    BY <1>1, <1>2, <1>3 DEF Init, TypeOK
  <1>5. WorkerInv /\ QueueInv
    BY DEF Init, WorkerInv, QueueInv, IdleWorker, AbsentRequest
  <1> QED
    BY <1>4, <1>5 DEF TypeInv

\* Every step of the web application, the workers and the scheduler keeps the
\* type invariant.
LEMMA TypeInvStep ==
    ASSUME TypeInv, [Next]_vars
    PROVE  TypeInv'
  <1> USE BatchAssumption
  <1>1. TypeOK'
    <2>1. CASE ChangePolicy
      BY <2>1 DEF ChangePolicy, TypeInv, TypeOK, requestVars, jobVars, runVars
    <2>2. CASE UNCHANGED vars
      BY <2>2 DEF vars, TypeInv, TypeOK
    <2> QED
      BY <2>1, <2>2, RequestStepType, WorkerStepType DEF Next, TypeInv
  <1>2. \A x \in Requests : RowStep(x)
    BY Rows
  <1>3. QueueInv'
    <2>1. \A r \in Requests :
              /\ req'[r].status = "absent" => req'[r] = AbsentRequest
              /\ req'[r].status # "absent" => req'[r].requester \in Users
      BY <1>2 DEF RowStep
    <2>2. \A r \in Requests : (queue[r] # <<>> \/ r \in stale) => req'[r].status # "absent"
      BY <1>2 DEF RowStep, TypeInv, QueueInv
    <2>3. \A r \in Requests :
              queue'[r] # <<>> \/ r \in stale' =>
                  queue[r] # <<>> \/ r \in stale \/ req[r].status # "absent"
      BY JobFrame
    <2> QED
      BY <1>2, <2>1, <2>2, <2>3 DEF QueueInv, RowStep
  <1>4. ASSUME NEW v \in Workers, worker'[v] = worker[v]
        PROVE  /\ worker'[v].phase # "idle" =>
                     worker'[v].req \in Requests /\ req'[worker'[v].req].status # "absent"
               /\ worker'[v].phase \in {"check", "start", "executing"} =>
                     worker'[v].pos <= worker'[v].last
    BY <1>2, <1>4 DEF TypeInv, WorkerInv, RowStep
  <1>5. ASSUME UNCHANGED worker
        PROVE  WorkerInv'
    BY <1>4, <1>5 DEF WorkerInv
  <1>6. ASSUME NEW w \in Workers, WorkerStep(w) \/ FaultStep(w)
        PROVE  WorkerInv'
    <2> DEFINE Inv(v) ==
                  /\ worker'[v].phase # "idle" =>
                        worker'[v].req \in Requests /\ req'[worker'[v].req].status # "absent"
                  /\ worker'[v].phase \in {"check", "start", "executing"} =>
                        worker'[v].pos <= worker'[v].last
    <2>1. \A v \in Workers \ {w} : Inv(v)
      BY <1>4, <1>6, WorkerFrame
    <2> DEFINE r == worker[w].req
    <2>2. worker[w].phase # "idle" => r \in Requests /\ req'[r].status # "absent"
      BY <1>2 DEF TypeInv, WorkerInv, RowStep
    <2>3. ASSUME worker' = [worker EXCEPT ![w] = IdleWorker]
          PROVE  Inv(w)
      BY <2>3 DEF IdleWorker, TypeInv, TypeOK
    <2>4. ASSUME NEW ph, worker' = [worker EXCEPT ![w].phase = ph], worker[w].phase # "idle",
                 ph \in {"check", "start", "executing"} =>
                     worker[w].phase \in {"check", "start", "executing"}
          PROVE  Inv(w)
      BY <2>2, <2>4 DEF TypeInv, TypeOK, Worker, WorkerInv
    <2>5. ASSUME NEW x \in Requests, TakeJob(w, x)
          PROVE  Inv(w)
      <3>1. req'[x].status # "absent"
        BY <1>2, <2>5 DEF TakeJob, TypeInv, QueueInv, RowStep
      <3>2. worker'[w].phase = "loaded" /\ worker'[w].req = x
        BY <2>5 DEF TakeJob, TypeInv, TypeOK, IdleWorker
      <3> QED
        BY <3>1, <3>2
    <2>6. ASSUME NEW x \in Requests, DropJob(w, x)
          PROVE  Inv(w)
      BY <1>4, <2>6 DEF DropJob
    <2>7. ASSUME Claim(w)
          PROVE  Inv(w)
      <3>1. CASE worker' = [worker EXCEPT ![w] = ClaimedRun(w)]
        <4>1. Len(req[r].stmts) \in Nat /\ worker[w].from \in Nat
          BY <2>2, <2>7, StatementsAreSequences DEF Claim, TypeInv, TypeOK, Request, Worker, Positions
        <4>2. worker'[w] = ClaimedRun(w) /\ worker[w] \in Worker
          BY <3>1 DEF TypeInv, TypeOK
        <4>3. worker'[w].req = r /\ worker'[w].pos <= worker'[w].last
          BY <4>1, <4>2 DEF ClaimedRun, Worker
        <4> QED
          BY <2>2, <2>7, <4>3 DEF Claim
      <3>2. CASE Goto(w, "closing")
        BY <2>4, <2>7, <3>2 DEF Claim, Goto
      <3> QED
        BY <2>7, <3>1, <3>2, Zenon DEF Claim
    <2>8. ASSUME StatementSucceeds(w)
          PROVE  Inv(w)
      <3>1. worker[w] \in Worker /\ worker[w].pos <= worker[w].last
        BY <2>8 DEF StatementSucceeds, TypeInv, TypeOK, WorkerInv
      <3>2. worker'[w] = [worker[w] EXCEPT
                !.phase = IF worker[w].pos = worker[w].last THEN "finish" ELSE "check",
                !.pos = worker[w].pos + 1]
        BY <2>8 DEF StatementSucceeds, TypeInv, TypeOK
      <3>3. worker'[w].req = r /\ worker'[w].last = worker[w].last
            /\ worker'[w].pos = worker[w].pos + 1
            /\ worker'[w].phase = IF worker[w].pos = worker[w].last THEN "finish" ELSE "check"
        BY <3>1, <3>2 DEF Worker
      <3>4. worker[w].pos \in Nat /\ worker[w].last \in Nat
        BY <3>1 DEF Worker, Positions
      <3> QED
        BY <2>2, <2>8, <3>1, <3>3, <3>4 DEF StatementSucceeds
    <2>9. ASSUME Load(w) \/ CheckCancelled(w)
          PROVE  Inv(w)
      BY <2>4, <2>9 DEF Load, CheckCancelled, Goto
    <2>10. ASSUME ReturnBlocked(w) \/ StartStatement(w) \/ StatementFails(w) \/ RecordCompletion(w)
          PROVE  Inv(w)
      BY <2>4, <2>10 DEF ReturnBlocked, StartStatement, StatementFails, RecordCompletion, Goto
    <2>11. ASSUME RecordFailure(w) \/ Throw(w)
          PROVE  Inv(w)
      BY <2>4, <2>11 DEF RecordFailure, Throw, Goto, Holding
    <2>12. ASSUME Close(w) \/ FailedHook(w) \/ Timeout(w) \/ Crash(w)
          PROVE  Inv(w)
      BY <2>3, <2>12 DEF Close, FailedHook, Timeout, Crash
    <2>13. Inv(w)
      <3> HIDE DEF Inv
      <3> QED
        BY <1>6, <2>5, <2>6, <2>7, <2>8, <2>9, <2>10, <2>11, <2>12 DEF WorkerStep, FaultStep
    <2> QED
      BY <2>1, <2>13 DEF WorkerInv
  <1>7. WorkerInv'
    BY <1>5, <1>6, RequestFrame DEF Next, ChangePolicy, jobVars, vars
  <1> QED
    BY <1>1, <1>3, <1>7 DEF TypeInv

\* The row of every request, job, lock and worker keeps its type, whatever users,
\* schedules, policies and faults do: in particular a resume position is always a
\* position of the statement list, and a worker inside its loop has a statement.
THEOREM TypeCorrect == Spec => []TypeOK
  <1>1. Init => TypeInv
    BY TypeInvInit
  <1>2. TypeInv /\ [Next]_vars => TypeInv'
    BY TypeInvStep
  <1>3. TypeInv => TypeOK
    BY DEF TypeInv
  <1> QED
    BY <1>1, <1>2, <1>3, PTL DEF Spec

\* No step of any handler, worker or fault takes a cancelled request out of the
\* Cancelled status.
THEOREM CancellationIsFinal == Spec => CancelledIsFinal
  <1>1. Init => TypeInv
    BY TypeInvInit
  <1>2. TypeInv /\ [Next]_vars => TypeInv'
    BY TypeInvStep
  <1>3. TypeInv /\ [Next]_vars =>
            [\A r \in Requests : req[r].status = "cancelled" => req'[r].status = "cancelled"]_vars
    BY Rows DEF RowStep
  <1> QED
    BY <1>1, <1>2, <1>3, PTL DEF Spec, CancelledIsFinal
=============================================================================
