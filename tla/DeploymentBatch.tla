--------------------------- MODULE DeploymentBatch ---------------------------
(***************************************************************************)
(* The life of a Deployment Batch in Crucible DB: a governed list of SQL   *)
(* statements that is drafted, edited, reviewed, scheduled, dispatched to  *)
(* the "queries" queue and executed by a worker against target databases.  *)
(*                                                                         *)
(* Source: app/Services/QueryRequestWorkflow.php (the request handlers,    *)
(* each one database transaction on the locked request row),               *)
(* app/Jobs/ExecuteQueryRequest.php (the queued worker, which is NOT one   *)
(* transaction: it reads, decides, claims, executes statement by statement *)
(* and records the outcome, and users act between any two of its steps),   *)
(* app/Services/EffectiveQueryRequestPolicy.php, DeploymentPreflight.php,  *)
(* app/Policies/QueryRequestPolicy.php and DispatchDueQueryRequests.php.   *)
(*                                                                         *)
(* Abstractions.  A statement is its query type.  The list of statements   *)
(* as it was written at one moment is identified by a stamp, the revision  *)
(* that wrote it, so that "what was read", "what was approved" and "what   *)
(* ran" can be compared.  Time is whether the schedule still lies in the   *)
(* future.  Notifications, audit rows and the stored preflight report are  *)
(* left out: no handler decides on them.                                   *)
(***************************************************************************)
EXTENDS Naturals, Sequences, FiniteSets

CONSTANTS
    Requests,       \* request ids, including the ones retries will use
    Users,          \* the people of the workspace
    Requesters,     \* the people who create requests
    Admins,         \* isAdmin()
    Reviewers,      \* canReviewDatabase() on every target of the batch
    None,           \* a null column, a free lock
    Workers,        \* worker processes of the "queries" queue
    DeadWorker,     \* the overlap lock is held by a killed worker
    Policies,       \* the policy situations an administrator can create
    Schedules,      \* the schedules people ask for: "none", "future"
    Faults,         \* the failures that can happen, out of FaultKinds
    MaxRevision,    \* bound on the revision of a request
    MaxStatements,  \* bound on the statements of a batch
    MaxJobs         \* bound on the queued jobs of one request

QueryType == {"read", "write"}

FaultKinds == {"exception", "timeout", "crash", "lost_push"}

\* What EffectiveQueryRequestPolicy and DeploymentPreflight look at: the query
\* types for which a non-admin needs approval, whether the role grants access
\* to the targets, whether the targets are active and the SQL is supported,
\* and the disabled accounts.
Policy == [approvalTypes : SUBSET QueryType, access : BOOLEAN,
           active : BOOLEAN, disabled : SUBSET Users]

ASSUME BatchAssumption ==
    /\ Requesters \subseteq Users
    /\ Admins \subseteq Users
    /\ Reviewers \subseteq Users
    /\ None \notin Users \cup Workers \cup Requests
    /\ DeadWorker \notin Workers \cup {None}
    /\ Policies \subseteq Policy
    /\ Policies # {}
    /\ Schedules \subseteq {"none", "future"}
    /\ Faults \subseteq FaultKinds
    /\ MaxRevision \in Nat \ {0}
    /\ MaxStatements \in Nat \ {0}
    /\ MaxJobs \in Nat \ {0}

VARIABLES
    req,        \* the query_requests row (and its statements) of each request
    env,        \* the policy situation in force
    edit,       \* the update() of each request that has read its policy
    page,       \* the revision each reviewer has open in the browser
    queue,      \* the queued ExecuteQueryRequest jobs: their resume positions
    stale,      \* requests whose job is still reserved by a crashed worker
    lock,       \* the WithoutOverlapping lock of each request
    worker,     \* the state of each worker
    failedAt,   \* position of the latest Failed execution, 0 if there is none
    succeeded,  \* positions with a Succeeded execution
    started,    \* positions with an execution, whatever became of it
    endorsed,   \* history: who stood for which list of statements
    early,      \* history: the batch became ready before its schedule
    late        \* history: statements started after the cancellation

vars == <<req, env, edit, page, queue, stale, lock, worker,
          failedAt, succeeded, started, endorsed, early, late>>

requestVars == <<req, edit, page, endorsed, early>>
jobVars     == <<queue, stale, lock, worker>>
runVars     == <<failedAt, succeeded, started, late>>

-----------------------------------------------------------------------------
(* Types                                                                   *)

Status == {"absent", "draft", "pending_review", "approved", "rejected",
           "scheduled", "running", "completed", "failed", "cancelled"}

Terminal == {"completed", "failed", "rejected", "cancelled"}

Schedule == {"none", "future", "past"}

Positions == 1 .. MaxStatements

Revisions == 1 .. MaxRevision

\* A non-empty list of statements, each given by its query type.
Statements == UNION {[1 .. n -> QueryType] : n \in Positions}

Request == [status : Status, requester : Users \cup {None},
            revision : 0 .. MaxRevision, stamp : 0 .. MaxRevision,
            stmts : Statements \cup {<<>>}, queryType : QueryType,
            approvedBy : Users \cup {None}, sched : Schedule,
            dispatched : BOOLEAN, dispatchedBy : Users \cup {None},
            resolved : BOOLEAN]

AbsentRequest == [status |-> "absent", requester |-> None, revision |-> 0,
                  stamp |-> 0, stmts |-> <<>>, queryType |-> "write",
                  approvedBy |-> None, sched |-> "none",
                  dispatched |-> FALSE, dispatchedBy |-> None,
                  resolved |-> FALSE]

\* An update() between its reads and its transaction.
Edit == [by : Users, stmts : Statements, sched : Schedule, requires : BOOLEAN]

NoEdit == [by |-> None, stmts |-> <<>>, sched |-> "none", requires |-> FALSE]

Page == [revision : 0 .. MaxRevision, stamp : 0 .. MaxRevision]

Phases == {"idle", "loaded", "blocked", "claiming", "check", "start",
           "executing", "failure", "finish", "closing", "throwing", "failing"}

\* The phases in which the worker is inside handle() and owns the lock.
Holding == Phases \ {"idle", "failing"}

\* The phases in which the worker is executing a list of statements it claimed.
Claimed == {"check", "start", "executing", "failure", "finish"}

Worker ==
    [phase : Phases, req : Requests \cup {None}, from : Positions, pos : 1 .. MaxStatements + 1,
     last : Positions, legacy : BOOLEAN, stamp : 0 .. MaxRevision, needed : BOOLEAN]

IdleWorker == [phase |-> "idle", req |-> None, from |-> 1, pos |-> 1, last |-> 1,
               legacy |-> FALSE, stamp |-> 0, needed |-> FALSE]

TypeOK ==
    /\ req \in [Requests -> Request]
    /\ env \in Policies
    /\ edit \in [Requests -> Edit \cup {NoEdit}]
    /\ page \in [Reviewers -> [Requests -> Page]]
    /\ queue \in [Requests -> Seq(Positions)]
    /\ stale \in SUBSET Requests
    /\ lock \in [Requests -> Workers \cup {None, DeadWorker}]
    /\ worker \in [Workers -> Worker]
    /\ failedAt \in [Requests -> 0 .. MaxStatements]
    /\ succeeded \in [Requests -> SUBSET Positions]
    /\ started \in [Requests -> SUBSET Positions]
    /\ endorsed \in [Requests -> SUBSET (Users \X (0 .. MaxRevision))]
    /\ early \in [Requests -> BOOLEAN]
    /\ late \in [Requests -> Nat]

-----------------------------------------------------------------------------
(* Policy                                                                  *)

\* batchQueryType: one write makes the batch a write.
BatchQueryType(s) ==
    IF \E i \in DOMAIN s : s[i] = "write" THEN "write" ELSE "read"

\* EffectiveQueryRequestPolicy::requiresApproval for a deployment batch.
RequiresApproval(u, s) ==
    /\ u \notin Admins
    /\ \E i \in DOMAIN s : s[i] \in env.approvalTypes

\* EffectiveQueryRequestPolicy::requestRequiresFreshApproval: approval is
\* required now and the recorded approval is missing or the requester's own.
RequiresFreshApproval(r) ==
    /\ RequiresApproval(req[r].requester, req[r].stmts)
    /\ req[r].approvedBy \in {None, req[r].requester}

\* EffectiveQueryRequestPolicy::ensureCanRunStatements.
CanRunStatements(u) ==
    /\ u \notin env.disabled
    /\ u \in Admins \/ env.access

\* DeploymentPreflight::evaluate reports a blocker for the requester.
PreflightBlocked(r) ==
    \/ ~env.active
    \/ ~CanRunStatements(req[r].requester)

\* EnsureUserIsEnabled: a disabled account performs no request.
Enabled(u) == u \notin env.disabled

\* Variant: only the statuses in which work has ended refuse an edit.
IsEditableUntilTerminal(r) ==
    req[r].status \notin Terminal \cup {"absent"}

\* QueryRequest::isEditable.
IsEditable(r) ==
    /\ ~req[r].dispatched
    /\ req[r].status \in {"draft", "pending_review", "approved", "rejected", "scheduled"}

\* QueryRequest::isTerminal.
IsTerminal(r) == req[r].status \in Terminal

\* Variant: a schedule that has passed counts as a schedule.
ReadyStatusIgnoringTime(sched) == IF sched # "none" THEN "scheduled" ELSE "approved"

\* The status of work that needs no (further) review.
ReadyStatus(sched) == IF sched = "future" THEN "scheduled" ELSE "approved"

Owner(u, r) == u \in Admins \/ u = req[r].requester

-----------------------------------------------------------------------------
(* Request handlers                                                        *)

\* create(): the strict submission of a new batch.
Create(r, u, s, sched) ==
    /\ req[r].status = "absent"
    /\ u \in Requesters /\ Enabled(u) /\ CanRunStatements(u)
    /\ LET requires == RequiresApproval(u, s)
       IN  /\ req' = [req EXCEPT ![r] =
                 [AbsentRequest EXCEPT
                     !.status = IF requires THEN "pending_review" ELSE ReadyStatus(sched),
                     !.requester = u, !.revision = 1, !.stamp = 1, !.stmts = s,
                     !.queryType = BatchQueryType(s), !.sched = sched,
                     !.approvedBy = IF requires THEN None ELSE u]]
           /\ endorsed' = [endorsed EXCEPT ![r] = IF requires THEN {} ELSE {<<u, 1>>}]
           /\ early' = [early EXCEPT ![r] = sched = "future"]
    /\ UNCHANGED <<env, edit, page, jobVars, runVars>>

\* createDraft(): nothing is validated; every statement counts as a write.
CreateDraft(r, u, n, sched) ==
    /\ req[r].status = "absent"
    /\ u \in Requesters /\ Enabled(u)
    /\ req' = [req EXCEPT ![r] =
           [AbsentRequest EXCEPT !.status = "draft", !.requester = u, !.revision = 1,
                !.stamp = 1, !.stmts = [i \in 1 .. n |-> "write"], !.sched = sched]]
    /\ UNCHANGED <<env, edit, page, endorsed, early, jobVars, runVars>>

\* update(), first half: the gate, the validation and the approval requirement
\* of the ACTOR are evaluated before the transaction locks the row.
BeginUpdate(r, u, s, sched) ==
    /\ edit[r] = NoEdit
    /\ req[r].revision < MaxRevision
    /\ IsEditable(r) /\ Enabled(u) /\ Owner(u, r)
    /\ CanRunStatements(u)
    /\ edit' = [edit EXCEPT ![r] =
           [by |-> u, stmts |-> s, sched |-> sched, requires |-> RequiresApproval(u, s)]]
    /\ UNCHANGED <<req, env, page, endorsed, early, jobVars, runVars>>

\* update(), second half: the transaction replaces the statements, resets the
\* approval and opens a new revision.  Submitting a draft that preflight blocks
\* rolls everything back.
CommitUpdate(r) ==
    /\ edit[r] # NoEdit
    /\ IsEditable(r)
    /\ req[r].revision < MaxRevision
    /\ LET e == edit[r]
           next == req[r].revision + 1
       IN  /\ req[r].status = "draft" => ~PreflightBlocked(r)
           /\ req' = [req EXCEPT ![r] = [@ EXCEPT
                 !.status = IF e.requires THEN "pending_review" ELSE ReadyStatus(e.sched),
                 !.stmts = e.stmts, !.stamp = next, !.revision = next,
                 !.queryType = BatchQueryType(e.stmts), !.sched = e.sched,
                 !.approvedBy = IF e.requires THEN None ELSE e.by,
                 !.dispatched = FALSE, !.dispatchedBy = None]]
           /\ endorsed' = [endorsed EXCEPT ![r] =
                 IF e.requires THEN @ ELSE @ \cup {<<e.by, next>>}]
           /\ early' = [early EXCEPT ![r] = e.sched = "future"]
           /\ edit' = [edit EXCEPT ![r] = NoEdit]
    /\ failedAt' = [failedAt EXCEPT ![r] = 0]
    /\ succeeded' = [succeeded EXCEPT ![r] = {}]
    /\ started' = [started EXCEPT ![r] = {}]
    /\ UNCHANGED <<env, page, jobVars, late>>

\* update(), second half, when the transaction throws.
AbortUpdate(r) ==
    /\ edit[r] # NoEdit
    /\ ~IsEditable(r) \/ (req[r].status = "draft" /\ PreflightBlocked(r))
    /\ edit' = [edit EXCEPT ![r] = NoEdit]
    /\ UNCHANGED <<req, env, page, endorsed, early, jobVars, runVars>>

\* updateDraft(): saves a draft again.
UpdateDraft(r, u, n, sched) ==
    /\ req[r].status = "draft"
    /\ Enabled(u) /\ Owner(u, r)
    /\ req[r].revision < MaxRevision
    /\ req' = [req EXCEPT ![r] = [@ EXCEPT
           !.stmts = [i \in 1 .. n |-> "write"], !.stamp = req[r].revision + 1,
           !.revision = req[r].revision + 1, !.queryType = "write", !.sched = sched,
           !.approvedBy = None, !.dispatched = FALSE, !.dispatchedBy = None]]
    /\ failedAt' = [failedAt EXCEPT ![r] = 0]
    /\ succeeded' = [succeeded EXCEPT ![r] = {}]
    /\ started' = [started EXCEPT ![r] = {}]
    /\ UNCHANGED <<env, edit, page, endorsed, early, jobVars, late>>

\* A reviewer opens the detail page of a pending request: the revision it
\* carries comes back with the decision as expectedRevision.
OpenForReview(u, r) ==
    /\ req[r].status = "pending_review"
    /\ Enabled(u)
    /\ page' = [page EXCEPT ![u][r] = [revision |-> req[r].revision, stamp |-> req[r].stamp]]
    /\ UNCHANGED <<req, env, edit, endorsed, early, jobVars, runVars>>

\* Variant: no optimistic revision check.
CanDecideOnAnyRevision(u, r) ==
    /\ Enabled(u)
    /\ u # req[r].requester
    /\ req[r].status = "pending_review"
    /\ page[u][r].revision > 0

\* The gate, the status check and the optimistic revision check of review().
CanDecide(u, r) ==
    /\ Enabled(u)
    /\ u # req[r].requester
    /\ req[r].status = "pending_review"
    /\ page[u][r].revision = req[r].revision

\* review() with decision "approved".
Approve(u, r) ==
    /\ CanDecide(u, r)
    /\ ~PreflightBlocked(r)
    /\ req' = [req EXCEPT ![r] = [@ EXCEPT !.status = ReadyStatus(req[r].sched),
                                          !.approvedBy = u]]
    /\ endorsed' = [endorsed EXCEPT ![r] = @ \cup {<<u, page[u][r].stamp>>}]
    /\ early' = [early EXCEPT ![r] = req[r].sched = "future"]
    /\ UNCHANGED <<env, edit, page, jobVars, runVars>>

\* review() with decision "rejected".
Reject(u, r) ==
    /\ CanDecide(u, r)
    /\ req' = [req EXCEPT ![r].status = "rejected"]
    /\ UNCHANGED <<env, edit, page, endorsed, early, jobVars, runVars>>

\* withdrawFromReview(): back to a draft, with a new revision.
Withdraw(r, u) ==
    /\ req[r].status = "pending_review" /\ ~req[r].dispatched
    /\ Enabled(u) /\ Owner(u, r)
    /\ req[r].revision < MaxRevision
    /\ req' = [req EXCEPT ![r] = [@ EXCEPT !.status = "draft", !.approvedBy = None,
           !.dispatched = FALSE, !.dispatchedBy = None,
           !.revision = req[r].revision + 1]]
    /\ UNCHANGED <<env, edit, page, endorsed, early, jobVars, runVars>>

\* Variant: the status is left alone.
UndispatchedKeepingStatus(q) ==
    [q EXCEPT !.dispatched = FALSE, !.dispatchedBy = None]

\* The row as it goes back to its owner when execution is not possible now ...
Undispatched(q) ==
    [q EXCEPT !.status = "approved", !.dispatched = FALSE, !.dispatchedBy = None]

\* ... and as it goes back to review when policy now requires an approval.
ReturnedToReview(q) ==
    [q EXCEPT !.status = "pending_review", !.approvedBy = None, !.dispatched = FALSE,
              !.dispatchedBy = None, !.revision = q.revision + 1]

\* A job reaches the queue after the commit, or is lost in between.
Enqueue(r, from) ==
    \/ /\ Len(queue[r]) < MaxJobs
       /\ queue' = [queue EXCEPT ![r] = Append(@, from)]
    \/ /\ "lost_push" \in Faults
       /\ UNCHANGED queue

\* The transaction of dispatch(), for a person or for the scheduler (None).
DispatchTransaction(r, by) ==
    /\ ~req[r].dispatched
    /\ \/ /\ PreflightBlocked(r)
          /\ req' = [req EXCEPT ![r] = Undispatched(@)]
          /\ UNCHANGED queue
       \/ /\ ~PreflightBlocked(r) /\ RequiresFreshApproval(r)
          /\ req[r].revision < MaxRevision
          /\ req' = [req EXCEPT ![r] = ReturnedToReview(@)]
          /\ UNCHANGED queue
       \/ /\ ~PreflightBlocked(r) /\ ~RequiresFreshApproval(r)
          /\ req' = [req EXCEPT ![r] = [@ EXCEPT !.status = "approved",
                                   !.dispatched = TRUE, !.dispatchedBy = by]]
          /\ Enqueue(r, 1)
    /\ UNCHANGED <<env, edit, page, stale, lock, worker, endorsed, early, runVars>>

\* dispatch() by an administrator, the requester or a reviewer.
Dispatch(r, u) ==
    /\ req[r].status = "approved"
    /\ Enabled(u) /\ (Owner(u, r) \/ u \in Reviewers)
    /\ DispatchTransaction(r, u)

\* The scheduled command crucible:dispatch-due-query-requests.
DispatchDue(r) ==
    /\ req[r].status = "scheduled" /\ req[r].sched = "past"
    /\ DispatchTransaction(r, None)

\* cancel(): allowed in every non-terminal status, also while running.
Cancel(r, u) ==
    /\ req[r].status \in {"draft", "pending_review", "approved", "scheduled", "running"}
    /\ Enabled(u)
    /\ Owner(u, r) \/ (req[r].status = "running" /\ u = req[r].dispatchedBy)
    /\ req' = [req EXCEPT ![r].status = "cancelled"]
    /\ UNCHANGED <<env, edit, page, endorsed, early, jobVars, runVars>>

\* retryFromPosition(): the latest Failed execution, or the beginning.
RetryFrom(r) == IF failedAt[r] = 0 THEN 1 ELSE failedAt[r]

CanRetry(r, u) ==
    /\ req[r].status = "failed"
    /\ Enabled(u) /\ (Owner(u, r) \/ u = req[r].dispatchedBy)

\* retry() of a read-only batch: the same request is dispatched again.
RetryInPlace(r, u) ==
    /\ CanRetry(r, u)
    /\ req[r].queryType = "read" /\ ~RequiresFreshApproval(r)
    /\ req' = [req EXCEPT ![r] = [@ EXCEPT !.status = "approved", !.dispatched = TRUE,
                                          !.dispatchedBy = u]]
    /\ Enqueue(r, RetryFrom(r))
    /\ UNCHANGED <<env, edit, page, stale, lock, worker, endorsed, early, runVars>>

\* Variant: the linked request inherits the approval of its source.
RetryLinkedReusingApproval(r, u, new) ==
    /\ CanRetry(r, u)
    /\ req[r].queryType = "write" \/ RequiresFreshApproval(r)
    /\ req[new].status = "absent"
    /\ CanRunStatements(req[r].requester)
    /\ req' = [req EXCEPT ![new] = [AbsentRequest EXCEPT
           !.status = "approved", !.requester = req[r].requester, !.revision = 1, !.stamp = 1,
           !.stmts = SubSeq(req[r].stmts, RetryFrom(r), Len(req[r].stmts)),
           !.queryType = req[r].queryType, !.approvedBy = req[r].approvedBy]]
    /\ UNCHANGED <<env, edit, page, endorsed, early, jobVars, runVars>>

\* createRetryRequest(): a linked request with the remaining statements, under
\* the policy of the original requester.
RetryLinked(r, u, new) ==
    /\ CanRetry(r, u)
    /\ req[r].queryType = "write" \/ RequiresFreshApproval(r)
    /\ req[new].status = "absent"
    /\ CanRunStatements(req[r].requester)
    /\ LET rest == SubSeq(req[r].stmts, RetryFrom(r), Len(req[r].stmts))
           owner == req[r].requester
           requires == RequiresApproval(owner, rest)
       IN  /\ req' = [req EXCEPT ![new] = [AbsentRequest EXCEPT
                 !.status = IF requires THEN "pending_review" ELSE "approved",
                 !.requester = owner, !.revision = 1, !.stamp = 1, !.stmts = rest,
                 !.queryType = req[r].queryType,
                 !.approvedBy = IF requires THEN None ELSE owner]]
           /\ endorsed' = [endorsed EXCEPT ![new] = IF requires THEN {} ELSE {<<owner, 1>>}]
    /\ UNCHANGED <<env, edit, page, early, jobVars, runVars>>

\* resolveFailure(): records how a failure was handled.
ResolveFailure(r, u) ==
    /\ req[r].status = "failed" /\ ~req[r].resolved
    /\ Enabled(u) /\ (Owner(u, r) \/ u = req[r].dispatchedBy)
    /\ req' = [req EXCEPT ![r].resolved = TRUE]
    /\ UNCHANGED <<env, edit, page, endorsed, early, jobVars, runVars>>

\* The scheduled time of the request, or of a pending edit of it, arrives.
TimePasses(r) ==
    /\ \/ /\ req[r].sched = "future"
          /\ req' = [req EXCEPT ![r].sched = "past"]
          /\ UNCHANGED edit
       \/ /\ edit[r].sched = "future"
          /\ edit' = [edit EXCEPT ![r].sched = "past"]
          /\ UNCHANGED req
    /\ UNCHANGED <<env, page, endorsed, early, jobVars, runVars>>

\* An administrator changes roles, accounts or targets.
ChangePolicy ==
    /\ env' \in Policies \ {env}
    /\ UNCHANGED <<requestVars, jobVars, runVars>>

-----------------------------------------------------------------------------
(* The queued worker: ExecuteQueryRequest                                  *)

\* Variant: no WithoutOverlapping.
TakeJobOverlapping(w, r) ==
    /\ worker[w].phase = "idle"
    /\ queue[r] # <<>>
    /\ queue' = [queue EXCEPT ![r] = Tail(@)]
    /\ lock' = [lock EXCEPT ![r] = w]
    /\ worker' = [worker EXCEPT ![w] = [IdleWorker EXCEPT !.phase = "loaded", !.req = r,
                                                         !.from = Head(queue[r])]]
    /\ UNCHANGED <<requestVars, env, stale, runVars>>

\* WithoutOverlapping lets the worker in and takes the lock of the request.
TakeJob(w, r) ==
    /\ worker[w].phase = "idle"
    /\ queue[r] # <<>> /\ lock[r] = None
    /\ queue' = [queue EXCEPT ![r] = Tail(@)]
    /\ lock' = [lock EXCEPT ![r] = w]
    /\ worker' = [worker EXCEPT ![w] = [IdleWorker EXCEPT !.phase = "loaded", !.req = r,
                                                         !.from = Head(queue[r])]]
    /\ UNCHANGED <<requestVars, env, stale, runVars>>

\* dontRelease(): a job that finds the lock taken is deleted.
DropJob(w, r) ==
    /\ worker[w].phase = "idle"
    /\ queue[r] # <<>> /\ lock[r] # None
    /\ queue' = [queue EXCEPT ![r] = Tail(@)]
    /\ UNCHANGED <<requestVars, env, stale, lock, worker, runVars>>

Goto(w, phase) == worker' = [worker EXCEPT ![w].phase = phase]

\* handle(), before the claim: the status test and the unlocked preflight.
Load(w) ==
    /\ worker[w].phase = "loaded"
    /\ LET r == worker[w].req
       IN  Goto(w, IF req[r].status \notin {"approved", "running"} THEN "closing"
                   ELSE IF PreflightBlocked(r) THEN "blocked" ELSE "claiming")
    /\ UNCHANGED <<requestVars, env, queue, stale, lock, runVars>>

\* The transaction that gives a blocked batch back to its owner.
ReturnBlocked(w) ==
    /\ worker[w].phase = "blocked"
    /\ LET r == worker[w].req
       IN  req' = IF req[r].status \in {"approved", "running"}
                  THEN [req EXCEPT ![r] = Undispatched(@)] ELSE req
    /\ Goto(w, "closing")
    /\ UNCHANGED <<env, edit, page, endorsed, early, queue, stale, lock, runVars>>

\* Variant: the last statement is found as with positions from zero.
ClaimedRunZeroBased(w) ==
    LET r == worker[w].req
    IN  [worker[w] EXCEPT !.phase = "check", !.pos = worker[w].from,
            !.last = Len(req[r].stmts) - 1, !.stamp = req[r].stamp,
            !.needed = RequiresApproval(req[r].requester, req[r].stmts)]

\* The statements a claim will run: from the resume position to the end, or the
\* legacy sql column as one unlinked statement when that selects nothing.
ClaimedRun(w) ==
    LET r == worker[w].req
        n == Len(req[r].stmts)
        legacy == worker[w].from > n
    IN  [worker[w] EXCEPT !.phase = "check",
            !.pos = IF legacy THEN 1 ELSE worker[w].from,
            !.last = IF legacy THEN 1 ELSE n,
            !.legacy = legacy, !.stamp = req[r].stamp,
            !.needed = RequiresApproval(req[r].requester, req[r].stmts)]

\* The claim transaction.
Claim(w) ==
    /\ worker[w].phase = "claiming"
    /\ LET r == worker[w].req
       IN  \/ /\ req[r].status \notin {"approved", "running"}
              /\ UNCHANGED req /\ Goto(w, "closing")
           \/ /\ req[r].status \in {"approved", "running"}
              /\ req[r].requester \in env.disabled
              /\ req' = [req EXCEPT ![r] = Undispatched(@)] /\ Goto(w, "closing")
           \/ /\ req[r].status \in {"approved", "running"}
              /\ req[r].requester \notin env.disabled /\ RequiresFreshApproval(r)
              /\ req[r].revision < MaxRevision
              /\ req' = [req EXCEPT ![r] = ReturnedToReview(@)] /\ Goto(w, "closing")
           \/ /\ req[r].status \in {"approved", "running"}
              /\ req[r].requester \notin env.disabled /\ ~RequiresFreshApproval(r)
              /\ req' = [req EXCEPT ![r].status = "running"]
              /\ worker' = [worker EXCEPT ![w] = ClaimedRun(w)]
    /\ UNCHANGED <<env, edit, page, endorsed, early, queue, stale, lock, runVars>>

\* Variant: the cancellation is only looked at when the batch ends.
CheckNothing(w) ==
    /\ worker[w].phase = "check"
    /\ Goto(w, "start")
    /\ UNCHANGED <<requestVars, env, queue, stale, lock, runVars>>

\* hasBeenCancelled() before the next statement.
CheckCancelled(w) ==
    /\ worker[w].phase = "check"
    /\ Goto(w, IF req[worker[w].req].status = "cancelled" THEN "closing" ELSE "start")
    /\ UNCHANGED <<requestVars, env, queue, stale, lock, runVars>>

\* The Running execution row is created and the statement sent to its target.
StartStatement(w) ==
    /\ worker[w].phase = "start"
    /\ Goto(w, "executing")
    /\ late' = [late EXCEPT ![worker[w].req] =
                   IF req[worker[w].req].status = "cancelled" THEN @ + 1 ELSE @]
    /\ started' = [started EXCEPT ![worker[w].req] = @ \cup {worker[w].pos}]
    /\ UNCHANGED <<requestVars, env, queue, stale, lock, failedAt, succeeded>>

\* The target answers and the execution becomes Succeeded.
StatementSucceeds(w) ==
    /\ worker[w].phase = "executing"
    /\ worker' = [worker EXCEPT ![w] = [@ EXCEPT
           !.phase = IF worker[w].pos = worker[w].last THEN "finish" ELSE "check",
           !.pos = worker[w].pos + 1]]
    /\ succeeded' = [succeeded EXCEPT ![worker[w].req] =
                        IF worker[w].legacy THEN @ ELSE @ \cup {worker[w].pos}]
    /\ UNCHANGED <<requestVars, env, queue, stale, lock, failedAt, started, late>>

\* The target refuses and the execution becomes Failed.
StatementFails(w) ==
    /\ worker[w].phase = "executing"
    /\ Goto(w, "failure")
    /\ failedAt' = [failedAt EXCEPT ![worker[w].req] =
                       IF worker[w].legacy THEN 0 ELSE worker[w].pos]
    /\ UNCHANGED <<requestVars, env, queue, stale, lock, succeeded, started, late>>

\* The failure transaction: a cancellation wins, otherwise the batch is Failed
\* and the exception is thrown on.
RecordFailure(w) ==
    /\ worker[w].phase = "failure"
    /\ LET r == worker[w].req
       IN  \/ /\ req[r].status = "cancelled"
              /\ UNCHANGED req /\ Goto(w, "closing")
           \/ /\ req[r].status # "cancelled"
              /\ req' = [req EXCEPT ![r].status = "failed"] /\ Goto(w, "throwing")
    /\ UNCHANGED <<env, edit, page, endorsed, early, queue, stale, lock, runVars>>

\* Variant: the completion is written whatever happened meanwhile.
RecordCompletionUnchecked(w) ==
    /\ worker[w].phase = "finish"
    /\ req' = [req EXCEPT ![worker[w].req].status = "completed"]
    /\ Goto(w, "closing")
    /\ UNCHANGED <<env, edit, page, endorsed, early, queue, stale, lock, runVars>>

\* The completion transaction: a cancellation wins.
RecordCompletion(w) ==
    /\ worker[w].phase = "finish"
    /\ LET r == worker[w].req
       IN  req' = IF req[r].status = "cancelled" THEN req
                  ELSE [req EXCEPT ![r].status = "completed"]
    /\ Goto(w, "closing")
    /\ UNCHANGED <<env, edit, page, endorsed, early, queue, stale, lock, runVars>>

\* handle() returns: the middleware frees the lock and the job is deleted.
Close(w) ==
    /\ worker[w].phase = "closing"
    /\ lock' = [lock EXCEPT ![worker[w].req] = None]
    /\ worker' = [worker EXCEPT ![w] = IdleWorker]
    /\ UNCHANGED <<requestVars, env, queue, stale, runVars>>

\* handle() throws: the middleware frees the lock before failed() is called.
\* A statement failure always comes here; an error of the control database or
\* of a notification can come here from anywhere else in handle().
Throw(w) ==
    /\ \/ worker[w].phase = "throwing"
       \/ "exception" \in Faults /\ worker[w].phase \in Holding \ {"executing", "throwing"}
    /\ lock' = [lock EXCEPT ![worker[w].req] = None]
    /\ Goto(w, "failing")
    /\ UNCHANGED <<requestVars, env, queue, stale, runVars>>

\* The row after failed(): any status that is not terminal becomes Failed.
AfterFailedHook(r) ==
    IF IsTerminal(r) THEN req ELSE [req EXCEPT ![r].status = "failed"]

FailedHook(w) ==
    /\ worker[w].phase = "failing"
    /\ req' = AfterFailedHook(worker[w].req)
    /\ worker' = [worker EXCEPT ![w] = IdleWorker]
    /\ UNCHANGED <<env, edit, page, endorsed, early, queue, stale, lock, runVars>>

\* The job timeout: failed() runs in the signal handler and the process is
\* killed, which leaves the lock to its expiry.
Timeout(w) ==
    /\ "timeout" \in Faults
    /\ worker[w].phase \in Holding
    /\ req' = AfterFailedHook(worker[w].req)
    /\ lock' = [lock EXCEPT ![worker[w].req] = DeadWorker]
    /\ worker' = [worker EXCEPT ![w] = IdleWorker]
    /\ UNCHANGED <<env, edit, page, endorsed, early, queue, stale, runVars>>

\* The process dies without a trace; its job stays reserved in the queue.
Crash(w) ==
    /\ "crash" \in Faults
    /\ worker[w].phase # "idle"
    /\ stale' = stale \cup {worker[w].req}
    /\ lock' = IF worker[w].phase \in Holding
               THEN [lock EXCEPT ![worker[w].req] = DeadWorker] ELSE lock
    /\ worker' = [worker EXCEPT ![w] = IdleWorker]
    /\ UNCHANGED <<requestVars, env, queue, runVars>>

\* expireAfter(timeout + 30): a dead worker's lock is freed ...
ExpireLock(r) ==
    /\ lock[r] = DeadWorker
    /\ lock' = [lock EXCEPT ![r] = None]
    /\ UNCHANGED <<requestVars, env, queue, stale, worker, runVars>>

\* Variant: $tries is 2 and the job is run again.
RedeliverAndRun(r) ==
    /\ r \in stale /\ lock[r] # DeadWorker
    /\ Len(queue[r]) < MaxJobs
    /\ queue' = [queue EXCEPT ![r] = Append(@, 1)]
    /\ stale' = stale \ {r}
    /\ UNCHANGED <<requestVars, env, lock, worker, runVars>>

\* Variant: the job has no failed().
RedeliverSilently(r) ==
    /\ r \in stale /\ lock[r] # DeadWorker
    /\ stale' = stale \ {r}
    /\ UNCHANGED <<requestVars, env, queue, lock, worker, runVars>>

\* ... before retry_after hands its job out again: $tries is 1, so the second
\* attempt only calls failed().
Redeliver(r) ==
    /\ r \in stale /\ lock[r] # DeadWorker
    /\ req' = AfterFailedHook(r)
    /\ stale' = stale \ {r}
    /\ UNCHANGED <<env, edit, page, endorsed, early, queue, lock, worker, runVars>>

-----------------------------------------------------------------------------
(* The specification                                                       *)

Init ==
    /\ req = [r \in Requests |-> AbsentRequest]
    /\ env \in Policies
    /\ edit = [r \in Requests |-> NoEdit]
    /\ page = [u \in Reviewers |-> [r \in Requests |-> [revision |-> 0, stamp |-> 0]]]
    /\ queue = [r \in Requests |-> <<>>]
    /\ stale = {}
    /\ lock = [r \in Requests |-> None]
    /\ worker = [w \in Workers |-> IdleWorker]
    /\ failedAt = [r \in Requests |-> 0]
    /\ succeeded = [r \in Requests |-> {}]
    /\ started = [r \in Requests |-> {}]
    /\ endorsed = [r \in Requests |-> {}]
    /\ early = [r \in Requests |-> FALSE]
    /\ late = [r \in Requests |-> 0]

\* What people do with a request.
UserStep(r) ==
    \E u \in Users :
        \/ \E sched \in Schedules :
              \/ \E s \in Statements : Create(r, u, s, sched) \/ BeginUpdate(r, u, s, sched)
              \/ \E n \in Positions : CreateDraft(r, u, n, sched) \/ UpdateDraft(r, u, n, sched)
        \/ Withdraw(r, u)
        \/ Dispatch(r, u)
        \/ Cancel(r, u)
        \/ RetryInPlace(r, u)
        \/ \E new \in Requests : RetryLinked(r, u, new)
        \/ ResolveFailure(r, u)

ReviewStep(r) ==
    \E u \in Reviewers : OpenForReview(u, r) \/ Approve(u, r) \/ Reject(u, r)

\* What the control plane does on its own, worker processes aside.
SystemStep(r) ==
    CommitUpdate(r) \/ AbortUpdate(r) \/ DispatchDue(r) \/ ExpireLock(r) \/ Redeliver(r)

\* The steps of a worker that owes them to the scheduler of its process.
WorkerStep(w) ==
    \/ \E r \in Requests : TakeJob(w, r) \/ DropJob(w, r)
    \/ Load(w) \/ ReturnBlocked(w) \/ Claim(w) \/ CheckCancelled(w) \/ StartStatement(w)
    \/ StatementSucceeds(w) \/ StatementFails(w) \/ RecordFailure(w) \/ RecordCompletion(w)
    \/ Close(w) \/ Throw(w) \/ FailedHook(w)

FaultStep(w) == Timeout(w) \/ Crash(w)

Next ==
    \/ \E r \in Requests : UserStep(r) \/ ReviewStep(r) \/ SystemStep(r) \/ TimePasses(r)
    \/ \E w \in Workers : WorkerStep(w) \/ FaultStep(w)
    \/ ChangePolicy

Spec == Init /\ [][Next]_vars

\* Workers take steps while they have work, and the control plane runs its
\* scheduled command every minute and its timers; people owe nothing.
Fairness ==
    /\ \A w \in Workers : WF_vars(WorkerStep(w))
    /\ \A r \in Requests : WF_vars(DispatchDue(r)) /\ WF_vars(ExpireLock(r))
                           /\ WF_vars(Redeliver(r))

FairSpec == Spec /\ Fairness

-----------------------------------------------------------------------------
(* Properties                                                              *)

\* Whenever current policy required an approval at the moment a worker claimed a
\* batch, somebody other than the requester stood for exactly the statements it
\* is executing: a reviewer who had read that very list, or an administrator who
\* wrote it.  Edits, withdrawals, stale reviewer pages, policy changes between
\* update()'s reads and its transaction, and re-dispatches do not get around it
\* (review()'s expectedRevision check, requestRequiresFreshApproval()).
OnlyEndorsedWorkRuns ==
    \A w \in Workers :
        worker[w].phase \in Claimed /\ worker[w].needed =>
            \E u \in Users \ {req[worker[w].req].requester} :
                <<u, worker[w].stamp>> \in endorsed[worker[w].req]

\* The statements of a batch do not change under a worker that executes them,
\* whatever is edited, retried or dispatched meanwhile (isEditable()).
FrozenWhileExecuting ==
    \A w \in Workers :
        worker[w].phase \in Claimed => req[worker[w].req].stamp = worker[w].stamp

\* Two workers never execute the same batch at the same time (WithoutOverlapping,
\* with the lock of a killed worker expiring on its own).
OneExecutorPerBatch ==
    \A v, w \in Workers :
        v # w /\ worker[v].phase \in Claimed /\ worker[w].phase \in Claimed =>
            worker[v].req # worker[w].req

\* A batch that writes, as it was submitted, never starts one of its statements
\* twice: after a failure, a timeout or a crash it is only taken up again as a
\* linked retry request (retry(), $tries = 1).  An edited batch has no such
\* promise: jobs of the read-only batch it was can still be on their way.
WritesStartOnce ==
    [][\A w \in Workers :
          /\ worker[w].phase = "start" /\ worker'[w].phase = "executing"
          /\ req[worker[w].req].queryType = "write" /\ req[worker[w].req].revision = 1
          => worker[w].pos \notin started[worker[w].req]]_vars

\* After a cancellation at most one more statement of the batch starts: the one
\* whose hasBeenCancelled() test had already passed.
CancellationStopsBatch == \A r \in Requests : late[r] <= 1

\* The scheduler only dispatches batches that became ready before their time: one
\* approved late waits for an explicit dispatch.
NoLateUnattendedRun ==
    \A r \in Requests :
        req[r].dispatched /\ req[r].dispatchedBy = None => early[r]

\* Nothing overwrites a cancellation: not the claim, the completion or failure of
\* a running worker, failed(), a retry or an edit.
CancelledIsFinal ==
    [][\A r \in Requests : req[r].status = "cancelled" => req'[r].status = "cancelled"]_vars

\* Work is not abandoned: a batch that a worker has marked Running reaches another
\* status, also when the worker times out or dies.
RunningBatchesEnd ==
    \A r \in Requests : req[r].status = "running" ~> req[r].status # "running"

\* A scheduled batch whose time has come leaves the Scheduled status or is put off to
\* a later time (unless the bound on revisions keeps it from returning to review).
DueBatchesLeaveSchedule ==
    \A r \in Requests :
        req[r].status = "scheduled" /\ req[r].sched = "past" ~>
            \/ req[r].status # "scheduled" \/ req[r].sched # "past"
            \/ req[r].revision = MaxRevision

\* A retry of a failed batch starts after every statement that has succeeded.
RetrySkipsSucceeded ==
    \A r \in Requests :
        req[r].status = "failed" => \A p \in succeeded[r] : p < RetryFrom(r)

====
