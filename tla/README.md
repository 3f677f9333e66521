# A formal model of Crucible DB

Crucible DB is a control plane for governed access to databases. People write
*deployment batches* (lists of SQL statements) or ask for *query access*
(time-boxed sessions); policy decides whether somebody else has to approve;
workers, browser sessions or native clients behind a proxy then execute SQL on
target databases. The program promises that nothing runs that was not allowed in
the form in which it runs, that a cancellation wins, that work is neither lost nor
repeated, and that what a page shows and offers is what its user decides on. This
directory holds TLA+ models of the parts that make those promises, the TLC
configurations that check them on small instances, and TLAPS proofs of the most
important ones for every instance.

Paths below are relative to `src/`.

## 1. Inventory

| Component | Source | State | Operations | Hard because |
| --- | --- | --- | --- | --- |
| Deployment batch workflow | `app/Services/QueryRequestWorkflow.php`, `app/Models/QueryRequest.php`, `app/Policies/QueryRequestPolicy.php` | the `query_requests` row: status, revision, statements, approval, schedule, dispatch mark | create, draft, update, review, withdraw, dispatch, cancel, retry, resolve | many people act on one row; pages and policies go stale; `update()` reads before it locks |
| Deployment batch execution | `app/Jobs/ExecuteQueryRequest.php`, `config/queue.php`, `config/horizon.php` | queued jobs, the overlap lock, executions, the worker's local copy | take, preflight, claim, statement loop, record outcome, `failed()` | a long non-atomic sequence; timeouts, crashes, redelivery, locks that expire |
| Scheduled dispatch | `app/Console/Commands/DispatchDueQueryRequests.php` | the schedule | dispatch what is due | late approvals, blocked batches |
| Effective policy, preflight | `EffectiveQueryRequestPolicy.php`, `DeploymentPreflight.php` | roles, rules, connections, accounts | evaluate | changes under every other component |
| Query Access sessions, browser queries | `QuerySessionWorkflow.php`, `app/Jobs/ExecuteQuerySessionQuery.php`, `ExpireQuerySessions`, `ReconcileBrowserQueryExecutions` | sessions, queued queries, executions, snapshots | start, queue, execute, cancel, interrupt, expire, end | outcome, cancellation, timeout and reconciliation race on one row |
| Request page | `resources/js/pages/query-requests/show.tsx` | two generations of props, polls, visits, the awaiting flag | review, dispatch, retry, resolve, withdraw, cancel, poll | polls refresh some props only, and arrive in any order with visits |
| Session page, native set-up | `pages/query-sessions/show.tsx`, `components/native-proxy/session-panel.tsx`, `pages/native-proxy/device-authorization.tsx` | the session on display, result pages, credentials, connected clients | run, cancel, switch, page, end, issue, rotate, approve | late and lost answers |
| Request editor | `pages/query-requests/create.tsx`, `hooks/use-deployment-policy-preview.ts`, `lib/timezone.ts` | the form, the preview, the schedule | edit, preview, submit | fields restrict each other; debounced answers; clock changes |
| Application database migration | `pages/settings/admin/application-database.tsx`, `ApplicationDatabaseMigration*.php`, `ApplicationDatabaseCopyEngine.php` | plans, fence, selection, two databases, what each process runs on | plan, fence, drain, copy, verify, activate, restart, roll back, cancel | a crash between any two steps; writers that passed the fence |
| SQL policy | `pages/settings/admin/sql-policy.tsx`, `SqlPolicyManager.php`, `DeploymentStatementPolicy.php` | families, candidates, rules | observe, decide, dismiss, switch | precedence; pages out of date |
| Roles, access workflows | `pages/roles/form.tsx`, `RoleController.php`, `pages/settings/admin/access-workflows.tsx` | group policies, exceptions, which workflows are on | edit, save | two sets of caps; hidden fields |
| Database connections | `pages/connections/form.tsx`, `DatabaseConnectionController.php` | driver, TLS mode and material | edit, save | secrets that are kept, replaced or cleared unseen |
| People | `pages/users/index.tsx`, `UserRoleController.php`, `ProfileController.php` | accounts and their ordered roles | invite, accept, assign, disable, delete | administrators acting on each other |
| Sign-in | `pages/settings/admin/authentication.tsx`, `AuthProviderController.php`, `SsoController.php` | methods, providers, links | save, delete, sign in | the two are saved apart |
| Account security | `pages/settings/security.tsx`, `hooks/use-two-factor-auth.ts` | second factor, recovery codes, the page's copies | set up, confirm, regenerate, disable, challenge | answers for a factor that is gone |
| Native leases and admission; native proxy | `app/Services/NativeProxy/*`, `native/internal/*` | leases, tokens, connections | issue, admit, heartbeat, revoke | limits, expiry and revocation race with admission |
| SQL parsing and analysis | `QueryGuard.php`, `SqlPolicyStatementAnalyzer.php` | none | classify | text |
| Setup, notifications, audit log, lists and layout | `SetupController.php`, `NotificationDispatcher.php`, `AuditLogger.php`, the other pages | rows read by no handler | write, list | not control logic |

How they interact. The pages post to web controllers, which call the workflow
classes; each workflow handler is one database transaction on a row locked with
`lockForUpdate()`. `dispatch()` and `retry()` push a job after their commit; a worker
of the `queries` queue runs it under `WithoutOverlapping`. Every handler asks the
effective policy, and the worker asks it again when it claims the batch. Ending,
expiring or cancelling a query access request ends its browser queries and revokes
its native leases. A migration of the application database fences all of them. The
administration handlers take no lock; a page knows a row as it was when its props were
computed, and learns of changes by polls, if at all.

What makes each component correct. *Batches*: what runs is what was approved; one
executor; a cancellation is final and stops the batch; a failure is not repeated
work; every batch leaves Running. *Sessions*: a query has one outcome, a
cancelled or expired session runs nothing new, every queued query ends. *Pages*: what
is approved was read, what is offered fits what is shown, what is shown as going on
comes to an end. *Migration*: no write is lost between the copy and the activation,
and one database is in use. *Administration*: a denial holds, an administrator and a
way to sign in remain, a save stores what the form shows.

The hazards, each at its line, are listed in `PROJECT.json` with the properties
that cover them.

## 2. Plan

Done: `DeploymentBatch` and `QuerySession` with their proofs; the abstract
`RequestLifecycle`, and the proof that `DeploymentBatch` implements it; the pages a
request and a session are worked on with, the migration and the administration of the
workspace, each with the proofs of its safety properties. Every safety property that a
passing run checks is also a theorem.

Next, in this order:

1. The admission of native connections (reservations, heartbeats, revocation that may
   be lost) behind the lease of `NativePanel`.
2. Effective policy composed from `RoleForm` and `SqlPolicy` in place of the policy
   situations of `DeploymentBatch`.
3. A stronger version of the one theorem that rests on an assumption: what remains of
   `RolesAreSavedAsShown` for rows an upgrade has backfilled.

## 3. DeploymentBatch

`DeploymentBatch.tla` models the life of a batch: the request handlers, the
scheduler, the queued worker and its faults.

State and code:

| Variable | Code |
| --- | --- |
| `req` | the `query_requests` row and its statements: `status`, `revision`, `approvedBy` (`approved_by_id`), `sched` (`scheduled_at`), `dispatched`/`dispatchedBy` (`dispatched_at`, `dispatched_by_id`), `resolved` (`failure_resolved_at`), `stmts` |
| `req[r].stamp` | which revision wrote the current statements: two lists are the same text only if their stamps agree |
| `env` | what policy, accounts and connections say now; an administrator replaces it at any time |
| `edit` | an `update()` that has validated and evaluated policy, and has not opened its transaction |
| `page` | the revision (and statements) a reviewer's page shows; it returns as `expectedRevision` |
| `queue`, `stale` | jobs with their resume position; jobs reserved by a dead worker |
| `lock` | the `WithoutOverlapping` lock: free, a worker, or `DeadWorker` until it expires |
| `worker` | the local state of a worker in `handle()`: phase, request, resume position, current and last statement, and what it claimed (`stamp`, `needed`) |
| `failedAt`, `succeeded`, `started` | the `query_executions` of the current statements |
| `endorsed`, `early`, `late` | history variables, read by properties only |

Actions are the handlers, one each: a handler that is one transaction is one
action, with every early return a guard and every rolled-back path a step that
changes nothing. Two are split where the code is not atomic: `update()` into
`BeginUpdate` (reads and policy, lines 265-330) and `CommitUpdate`/`AbortUpdate`
(the transaction), and the job into the phases between its reads, transactions
and calls to targets. A Laravel transaction on a locked row is atomic with respect
to others on that row, so interleaving finer than this changes nothing.

Faults, from the constant `Faults`: `exception` (an error outside a statement, such
as the control database or a notification failing), `timeout` (the 240 s job
timeout: `failed()` runs, the process is killed, the lock stays), `crash` (the
process is gone; the job stays reserved), `lost_push` (the push after the commit
fails). The order of the timers is the shipped configuration's: the lock of a dead
worker expires after 270 s, its job is redelivered after 300 s, so `Redeliver`
waits until the lock is no longer the dead worker's. `$tries = 1` turns a
redelivery into a call of `failed()`.

Abstractions. A statement is its query type, since nothing else of it changes
control. Policy is a record of what the workflow asks: which types need approval,
whether the role has access, whether preflight finds the targets usable, who is
disabled. Time is the three cases the code distinguishes: no schedule, future,
past. Left out because no handler of a batch reads them: notifications, audit
rows, the preflight report, metadata edits (title, change context), deletion of the
workspace by a factory reset.

## 4. QuerySession

`QuerySession.tla` models one query access request, the session it becomes and the
queries its user runs in the browser. A request has one session, and sessions share
nothing but the policy, so one request is enough.

| Variable | Code |
| --- | --- |
| `request`, `reviewed` | `query_requests.status`; whether the approval is a reviewer's |
| `session`, `expired` | the `query_sessions` row: absent, open, with `ended_at`; `expires_at` has passed |
| `env` | roles and approval policy, replaced by an administrator at any time |
| `call` | the web request in `queue()`: validated, created, its push failed, done |
| `row` | the `query_session_queries` row: status, `cancel_requested_at`, `backend_process_id` |
| `execution` | the status of the linked `query_executions` row |
| `overdue` | the query is older than the reconciliation's limit for its status |
| `job` | the queued job and the worker's local state: its phase, what its copies of session and query say, the outcome it is about to save, whether it is in the catch block |
| `target` | the statement on the target database |
| `snapshot` | queries with a stored result |
| `killing` | a `cancel()` that has committed and not yet tried to kill |
| `closer` | a `markDispatchFailed()` or `markInterrupted()` under way, per caller |
| `ender` | an end of the session under way, by its user or by the expiry command |
| `stopped`, `shut` | history variables, read by properties only |

What is atomic. `start()`, the creation of a query (under the session's cache
lock), the claim and the first half of `cancel()` are transactions on locked rows
and one action each. Everything that records an outcome is not: the worker, its
`failed()` hook, the reconciliation and the web request whose push failed each read
the query, decide, call the target, save the columns they changed and then update
the linked execution. Each of those is an action, and so are the steps of ending a
session (save `ended_at`, delete the snapshots, list the active queries, cancel
them one by one, complete the request from the status loaded at the beginning).
The worker reads the session with its claim and never again; `Validate` uses that
copy.

Faults, from the constant `Faults`: `exception` (inside the `try` the catch block
takes over, inside it the job fails), `timeout` (`failed()` runs and the worker is
killed; its statement goes on), `crash` (worker, web request or closing process is
gone; Redis redelivers the job, and `$tries = 1` makes that a call of `failed()`),
`lost_push` (the push throws, whether or not the job reached Redis), `command` (an
end of the session stops half-way). A kill may always fail.

Abstractions. A query is its id: SQL text, classification and connection matter
only through `validatedExecution()`, which is the `access` of the policy situation.
Time is whether the session has expired and whether a query is overdue. `Enders`
and `Closers` say which callers an instance has: bounds for TLC, arbitrary in the
proofs. Left out: `execute()` and `end()`, which only tests call; the fence of a
migration; native leases, which are a component of their own.

## 5. The pages and the administration

### RequestRow, RequestLifecycle, BatchLifecycle

`RequestRow` states what a reader of one `query_requests` row may rely on: each handler
as a relation between the row before and after, without who acts, which policy holds
and what the queue does. `RequestLifecycle` is the abstract specification made of
these relations for a table of requests. `BatchLifecycle` maps the state of
`DeploymentBatch` to such a table (`RowOf`) and states that it implements the abstract
specification (`FollowsLifecycle`, an INSTANCE with a refinement mapping). So the page
can be checked against `RequestRow` alone: whatever `DeploymentBatch` does behind it is
one of those steps. The abstract row allows some that `DeploymentBatch` shows to be
reachable only through a late `failed()`: a Failed batch may become Completed.

### RequestPage

One viewer (requester, reviewer or administrator) with the page of a batch or of an
access request.

| Variable | Code |
| --- | --- |
| `row`, `changes` | the request in the database, and the bound on its changes |
| `shown`, `loaded` | the page is two snapshots of the row: `query_request`, `can_dispatch`, `can_cancel` and `can_retry` are refreshed by polls, every other prop by a full load only |
| `poll`, `visit` | the poll and the form visit in flight; they overlap and arrive in any order |
| `awaiting`, `stored` | `awaitingExecution` and its copy in `sessionStorage` |
| `resolution` | the dialog that records the resolution of a failure |
| `verdicts` | history: what was approved from here, with what was on display |

Each button is an action guarded by the prop it is shown under; `ServeVisit` runs the
handler against the row as it is by then; `OthersAct` is any step of `RequestRow`.

### NativePanel, SessionPage

`SessionPage` is the page of a session: `shown` is the session on display (for one
connection), replaced by visits and polls; `page` and `pageLoad` are the page of results
loaded last and the one asked for. The server is reduced to what can be seen: the
queries with their status, and whether the session is live. A session is for the browser
or for a native client; for the latter, `NativePanel` has the lease with its credential
version, the credential on display, the request for credentials in flight (whose answer
may be lost after it was served) and the device code in another tab. Its poll of the
connections is sent only from a tab that is on display; the server answers it with what
is so then (`AnswerClients`) and the answer arrives later (`ShowClients`) or never. The
server lists a device once the CLI has collected a token (`CollectToken`), and no longer
when the token has run out or the lease has ended, which revokes it.

### Console and its parts

`Console` composes the parts below. They share no variable, so a behaviour of all of
them is, for a property of one, a behaviour of that part with stuttering; to keep the
state space a sum and not a product, a behaviour of `Console` follows one part, chosen
at the start (`page`, `OnlyOn`).

- `DatabaseMigration`: plan files, the pointer to the current one, the fence, the
  selection for the next start, the database each process was started on, and the content
  of each table as the set of writes it holds. Every process (the Octane workers, the
  Horizon workers, the scheduler) restarts by itself at any time and then loads the
  selection: they are programs of their own that supervisord starts again, and Octane
  recycles its workers. An operation holds the lock and goes
  step by step (`op.step`, `op.done`); it may die between two steps, which frees the lock
  and keeps the files. Web requests, workers and the console command write as long as
  they were admitted before the fence. A request of the page is itself a write: its
  audit row.
- `SqlPolicy`: settings, rules by statement or shape and scope, candidates with their
  resolution, and what the page was loaded with. `MatchingRule` and `Assess` are pure.
- `RoleForm` with `AccessWorkflows` and `Catalog`: the drafts of group policies and
  exceptions, the caps the page applies, the fields that are sent although hidden, and
  what the server stores.
- `ConnectionForm`: connections that are created, updated and deleted, and what a form
  keeps, replaces or clears of their TLS material. A request is judged against the row it
  reads and writes the columns it changes from that reading.
- `People`: accounts with their ordered lists of roles (an added role goes to the end,
  a role is moved before its neighbour), requests admitted and not yet written.
- `SignIn`: core methods, providers and the people linked to each, the forms, a browser on
  its way to a provider and back, invitations, and the deletion of an account with its
  identities.
- `AccountSecurity`: the second factor, the session marks Fortify keeps, the page's
  copies of secrets and codes and the answers it still waits for. Its type invariant
  includes that a confirmed factor is in the person's hands.
- `RequestEditor`: workflow, connections, mode, statements, the debounced preview with
  answers in any order, and the conversion of the scheduled time (`ToInstant` and
  `ToLocal` for a zone whose offset changes once).

`Serving` says how administration requests overlap. `Workers` of them are served at once
(two in `compose.yaml` and in `.docker/production-supervisord.conf`). Their handlers read,
decide and write without a lock, so another may be served in between, and that can undo
what the check was for. `TargetTlsComplete`, `LastAdministratorStays` and
`LinkedProviderStays` are stated for this: each says that what it protects is lost to such
a stale check and to nothing else (besides, for the last, the deletion of the person's own
account). Section 6 says how each of these losses happens.

## 6. Runs

The batch runs use one requester, one reviewer and one administrator.
`CHECK_DEADLOCK` is off because a finished batch, a closed session or a page that is
left has nothing more to do, and bounded counters run out.

| Run | Instance | Shows |
| --- | --- | --- |
| `batch_governance` | one batch, one edit, schedules, changing approvals and accounts, fairness | `OnlyEndorsedWorkRuns`, `CancelledIsFinal`, `NoLateUnattendedRun`, `FrozenWhileExecuting`, `DueBatchesLeaveSchedule`, `TypeOK`, and the refinement `FollowsLifecycle` |
| `batch_linked_retry` | two requests, the second made by a retry | `OnlyEndorsedWorkRuns` across a retry |
| `batch_workers` | two workers, two statements, two jobs, all faults, fairness | `OneExecutorPerBatch`, `CancellationStopsBatch`, `WritesStartOnce`, `RunningBatchesEnd` |
| `batch_retry_repeats` | timeout | violated: `RetrySkipsSucceeded` |
| `session_overlap` | two queries, cancellations, the reconciliation, no faults | `OneActiveQuery`, `ClosedStaysClosed` |
| `session_end` | one query, changing policy, both ends of a session, all faults | `ClosedSessionNeverRuns`, `CancelledEarlyNeverRuns`, `ExecutionFollowsQuery`, `TypeOK` |
| `session_liveness` | one query, the reconciliation, both ends of a session, crashes, fairness of the scheduler only | `QueriesSettle`, `ExpiredAccessEnds` |
| `request_page` | requester or reviewer, both kinds of request, three changes of the row, fairness of the polls | `ApprovesWhatWasRead`, `RetryOfferIsCurrent`, `WatchedBatchSettles`, `TypeOK` |
| `session_page` | two connections, two queries, two credential versions, fairness of the polls | `RowsOfTheLatestQuery`, `NoSupersededPasswordShown`, `ProgressEnds`, `StepsAreShown`, `TypeOK` |
| `console` | every part of `Console` | `CutoverLosesNothing`, `OneDatabaseInUse`, `DenialStands`, `TargetTlsComplete`, `LastAdministratorStays`, `LinkedProviderStays`, `WriteOnlyWherePermitted`, `AnswerStaysOnDisplay`, `ScheduledTimeReadsBack`, `SavedAsShown`, `TypeOK` |
| `copy_resume` | one plan, no writers but the page | violated: `ResumedCopyVerifies` |
| `sign_in_path` | two providers | violated: `LoginPathRemains` |

Bounds. Two revisions let a batch be written, read by a reviewer, edited and reviewed
again while the page of the first is still open, and be returned to review. Two workers
and two jobs are the smallest instance in which a retry's job meets another worker on
the same batch; two statements the smallest in which there is something before and after
a failure. Two queries are the smallest instance in which submissions overlap;
everything else a session does to a query, it does to each alone, so the other session
runs have one and spend the states on the closers and the faults. Three changes of a row
are an edit, a decision and what follows it, behind one poll and one visit in flight. On
the session page two queries and two connections let a result page arrive for a query,
or a connection, that is no longer on display; two credential versions are one that a
rotation supersedes. Two plans between two databases are a migration and the way back,
or a second attempt; two web processes and one in the background, each restarting alone,
are one that finalizes and one of each kind that has not restarted; two tables are one
that was copied before an interruption and one after it, one of them the audit log. One
write suffices for a loss; `copy_resume` has two because resuming is the second request
of the page. One group with one connection has the three scopes a rule can have (a
connection may have any number of groups in the model and in the proof); two candidates
with a common shape are what a decision about another statement needs. Two `Workers`
serve the administration. Two people are the smallest workspace in which administrators
act on each other; one provider and one invited person are linked, parted and linked
again; one connection with three requests has two forms of different ages written after
a third created it. `sign_in_path` has two providers, one of which is disabled or
deleted. Two statements and three edits let answers overtake each other; the three times
lie before, in and after the hour that the clocks skip. Where a proof of section 7
covers a property, it removes the bound.

Fairness. `FairSpec` of `DeploymentBatch` assumes that a worker which can take a step
takes one (Horizon supervises the processes; a step includes a statement answering or
the job's own time limit of 240 s ending it, since `DatabaseQueryExecutor` sets no
timeout on the target), that the scheduled command runs
(every minute), and that the lock expiry and the redelivery happen. Users, reviewers,
administrators, faults and pending edits owe nothing. `DueBatchesLeaveSchedule`
excuses a batch at `MaxRevision`, where the bound keeps it from being returned to
review.

`SchedulerSpec` of `QuerySession` asks something of the scheduled commands only: they
run every minute, time passes, and (strong fairness) the reconciliation is not killed at
the same place every time. `session_liveness` uses it, so workers, targets and web
requests may hang for ever, which includes whatever a lost push, an exception or a time
limit leads to. `ExpiredAccessEnds` is stated without the fault `command`:
`ExpireQuerySessions` does not select a session again once `ended_at` is saved, so a
run that dies later leaves its request Running.

The pages assume of their polls that a timer that is armed fires (weak fairness), and
that of polls asked time and again not all fail (strong fairness of the answer and of
its arrival). Nothing is assumed of users, of the server's work or of visits.

The three violated runs state sentences of the documentation or the user interface
that the code does not keep; `PROJECT.json` quotes each:

- After a timeout there is no Failed execution to resume at, and a retry begins
  again with the first statement.
- A copy of the application database is interrupted after the audit log was copied. The
  request to resume it adds a row to the audit log, the copy skips that table, and the
  verification finds the difference.
- A provider is disabled or deleted while the core methods are off, and nobody can sign
  in. Only the form of the core methods checks.

The same models reach other states a reader of the documentation may not expect. They
have no run of their own:

- A resume position outlives an edit of the statements it counts: two jobs of a read-only
  batch, a blocked preflight and an edit, and the edited batch is Completed without its
  first statements (`docs/reference/statuses.md:12`: "All statements completed
  successfully.").
- `failed()` is not tied to the attempt it reports on, so the late redelivery of a
  dead worker's job marks a batch Failed that a newer job is executing.
- A retry whose job meets the lock of a timed-out worker is dropped, as is one whose push
  is lost, and the batch stays Approved and dispatched, which only `cancel()` accepts.
- A worker that read the session before its end, and reads the query before
  `cancelForSession()` reaches it, starts the statement after the end
  (`docs/guides/query-session-editor.md:54`: "Ended, cancelled, or expired access cannot
  run more SQL.").
- A process that dies between saving a query and updating its execution leaves the
  execution Running, and no later closer looks at it (`docs/releases/v0.4.0.md:12`:
  "history cannot remain indefinitely marked as running").
- A worker stores its snapshot after the end of the session has deleted them
  (`docs/guides/query-session-editor.md:48`).
- An outcome is saved on a copy read earlier, so the reconciliation can replace a
  committed Cancelled or Succeeded by another outcome.
- A query closed as never dispatched, while a worker claims it, leaves the session
  free for a second statement beside the first.
- The expiry command completes a request that was cancelled after it was loaded.
- A write admitted before the fence and made after its table was copied is not in the
  destination; `CutoverLosesNothing` speaks of all others.
- With two workers, two administrators who disable each other at once leave nobody to
  administer the workspace, two updates leave a connection that verifies its server
  without a CA certificate, and a provider is deleted under a person who is signing in
  with it. The deletion of one's own account is the only one of these handlers that takes
  a lock. The properties of the three parts exclude every other way to these states.
- With three databases, `crucible:application-database:rollback` may name any activated plan. The
  application then runs on the source of an earlier plan while the pointer stays at the
  later one, which was rolled back before; `OneDatabaseInUse` allows for it
  (`RolledBackFurther`).
- A web process that restarts before the others, by itself or because Octane recycles it,
  satisfies the check of the finalization, which looks at the database of the process that
  serves it alone, and lifts the fence while another still writes to the other database.
  The page says otherwise (`resources/js/pages/settings/admin/application-database.tsx:728`:
  "The maintenance fence stays active until every runtime process is restarted and
  activation is finalized."); the manual leaves it to the operator. The model notes it in
  `hasty`, and `OneDatabaseInUse` speaks of the behaviours without it.
- A role form saved with its section of exceptions closed sends none of them, and the
  server deletes those it had; `SavedAsShown` is about the rows that are sent.

Every property has a mutant in `PROJECT.json`: an operator named in a comment as a
*variant*, defined just before the definition it replaces (a dropped revision
check, a missing lock, an unchecked completion, ...), under which TLC finds the
property violated.

## 7. Proofs

### DeploymentBatch

Proved by TLAPS for every set of requests, people, workers and policies, every
subset of the faults and every bound, from `BatchAssumption` alone (the roles are
subsets of the users, `None` and `DeadWorker` are nobody, bounds are positive):

| Theorem | Statement |
| --- | --- |
| `TypeCorrect` | `Spec => []TypeOK` |
| `CancellationIsFinal` | `Spec => CancelledIsFinal` |
| `ExecutionIsExclusive` | `Spec => []OneExecutorPerBatch` |
| `ExecutionIsFrozen` | `Spec => []FrozenWhileExecuting` |
| `WorkIsEndorsed` | `Spec => []OnlyEndorsedWorkRuns` |
| `SchedulerIsPunctual` | `Spec => []NoLateUnattendedRun` |
| `CancellationStops` | `Spec => []CancellationStopsBatch` |
| `WritesAreNotRepeated` | `Spec => WritesStartOnce` |
| `BatchesFollowLifecycle` | `Spec => FollowsLifecycle` |

The argument.

- `TypeOK` is not inductive: a step of a worker has the type it should only if
  its request exists and it still has a statement to run. `TypeInv` adds that
  (`WorkerInv`) and that only existing requests have jobs and requesters
  (`QueueInv`).
- `RowStep` says what no step does to a row: delete it, change its owner, lower
  its revision, overwrite a cancellation, or replace its statements without a new
  revision or while it is `Busy` (running, failed, cancelled, or dispatched).
  `Rows` proves it of every step; `CancellationIsFinal` follows.
- `LockInv`: a worker inside `handle()` owns the lock of its request. Workers take
  free locks and give up their own; only locks of dead workers expire. Exclusive
  execution follows.
- `ExecInv`: a batch under execution is `Busy` and has the claimed statements. A
  busy batch becomes anything else only by a step of the worker that owns its lock
  (`WorkerBusy`), and busy batches keep their statements (`RowStep`).
- `PageInv` and `LedgerInv`: a page of the current revision shows the current
  statements, so an approval vouches for the text that was read; an approval that
  is not the requester's own is backed by an endorsement of the current statements;
  endorsements are never taken back. A claim checks the policy and the approval
  against the row it reads, so claimed work that needs an endorsement has one.
  `LedgerInv` also carries the schedule's part: what waits for the scheduler, or was
  dispatched by it, was ready in time.
- `LateInv`: after one late start no worker is about to start another statement of
  that batch, because only one worker is inside it and its next check sees the
  cancellation.

- `OnceInv`: an original write (of the first revision) that is not dispatched has no job
  and has started nothing, one whose job is queued has started nothing, and the worker inside it is ahead
  of all it started. A dispatch is taken back only before anything started, and with
  `LockInv` there is one worker, so no write of an original batch is started twice.
- `DraftInv`, for the refinement (`BatchRefinement`): a draft is never dispatched.
  `updateDraft()` does not look, and an edit of a dispatched batch would be no step of
  the abstract row. With it every action writes at most one row, and that in one of the
  ways `RequestRow` allows (`OneWrite`); the initial states map to the initial states.

Only model-checked: the liveness properties `RunningBatchesEnd` and
`DueBatchesLeaveSchedule`.

### QuerySession

Proved for every set of queries, situations, callers and faults, from
`SessionAssumption` (the constants are subsets of their kinds, and there is a policy
situation):

| Theorem | Statement |
| --- | --- |
| `TypeCorrect` | `Spec => []TypeOK` |
| `OneActive` | `Spec => []OneActiveQuery` |
| `ClosedIsClosed` | `Spec => ClosedStaysClosed` |
| `ExecutionFollows` | `Spec => []ExecutionFollowsQuery` |
| `ClosedSessionIsQuiet` | `Spec => []ClosedSessionNeverRuns` |
| `EarlyCancellationHolds` | `Spec => []CancelledEarlyNeverRuns` |

`TypeOK` is inductive here. The others rest on `QueryInv`, which speaks of one query
at a time; a step of a query leaves the others alone (`OtherQueries`), so it is
proved for the query that moves, action by action, and once for the session.

- `Fresh`: a query that `queue()` has not created has no row, no job and nobody who
  closes it, so the creation cannot meet an outcome or a second job.
- `Linked`: whoever has only the execution left to update has closed the query, and
  closed queries stay closed (`Moves`); `Followed` is the property itself, which
  needs `Linked` because that update would otherwise pass an active query.
- `Unsent`, `ShutOut`, `Stopped`: the target is idle until the worker sends the
  statement; a query not taken up when the session closed is refused by the second
  validation, by the `ended_at` its claim reads or by the clock; one cancelled early
  keeps `cancel_requested_at`, which no writer resets, and the worker's copy shows it
  before the statement starts.
- `Moves` says what a step may do to the status of a query: it stays closed, or it
  becomes active alone and only when no query is. One active query follows.

The proofs are in `QuerySessionSafety`. Only model-checked: `QueriesSettle` and
`ExpiredAccessEnds`, which are liveness.

### RequestPage

Proved in `RequestPageSafety` for every viewer, both kinds of request and every bound on
the changes of the row:

| Theorem | Statement |
| --- | --- |
| `PageTypes` | `Spec => []TypeOK` |
| `ApprovalsAreInformed` | `Spec => []ApprovesWhatWasRead` |
| `RetryOffersAreCurrent` | `Spec => []RetryOfferIsCurrent` |

`PageInv` adds two facts. `HeldInv`: whatever rows are held (the two on display, those in
a poll or a visit under way, the row itself) are earlier states of one request, and two of
the same revision have the same statements. It holds because every step of `RequestRow`
keeps the kind, never lowers the revision and never replaces statements within one
(`Follows`, proved of each transition). `FormInv`: the revision that a form carries is that
of the statements that were read, so a form of the current revision, the only kind the
server accepts, speaks of the current statements. Revision and statements
are both of the polled prop; `HeldInv` says that a late poll, which brings back an older
row, brings both back together.

### SessionPage

Proved in `SessionPageSafety` for any number of connections, queries and credential
versions:

| Theorem | Statement |
| --- | --- |
| `SessionPageTypes` | `Spec => []TypeOK` |
| `RowsBelongToTheirQuery` | `Spec => []RowsOfTheLatestQuery` |
| `PasswordsShownAreCurrent` | `Spec => []NoSupersededPasswordShown` |

`PanelInv`: nothing is on display while another credential may be issued, and an answer
under way carries the version issued last; so what is then shown is not superseded,
however many answers were lost before. `BrowserInv`: what is shown and what is under way
are snapshots of the session, and a result page is filed under the query whose rows it
has.

### Console

Proved in `ConsoleSafety` (the migration's argument is in `MigrationSafety`) for every
number of providers, drivers, people, roles, groups, connections, statements, scopes,
plans, databases, tables and writes, from the named assumptions of the parts. A step of
`Console` is a step of one part and leaves the variables of the others alone, so an
inductive invariant of a part is one of the whole.

| Theorem | Statement |
| --- | --- |
| `ConsoleTypes` | `Spec => []TypeOK` |
| `ProvidersStay` | `Spec => LinkedProviderStays` |
| `TlsIsComplete` | `Spec => TargetTlsComplete` |
| `AdministratorsRemain` | `Spec => LastAdministratorStays` |
| `DenialsStand` | `Spec => []DenialStands` |
| `WriteAccessIsPermitted` | `Spec => []WriteOnlyWherePermitted` |
| `LateAnswersAreIgnored` | `Spec => []AnswerStaysOnDisplay` |
| `SchedulesReadBack` | `Spec => []ScheduledTimeReadsBack` |
| `CutoversLoseNothing` | `Spec => []CutoverLosesNothing` |
| `DatabaseInUseIsOne` | `Spec => []OneDatabaseInUse` |
| `RolesAreSavedAsShown` | `StartCoherent` implies `Spec => SavedAsShown` |

- `SignInInv`: a deletion that was admitted and is not yet written found nobody linked; so
  whoever it parts from the provider was linked after its check. Every form keeps the links
  of the row it saves.
- `ConnectionInv`: a request that was validated and is not yet stored is still valid for the
  row it read. If that row has not changed, the columns it writes leave what was validated;
  the rest of the proof is which columns those are (`MaterialAfter`).
- `PeopleInv`: a request that demotes or disables is not about its sender, one that deletes
  an account is about nobody else, and one that deletes a role is not about that of the
  administrators (`WellSent`). So a request that would still be admitted when it is written
  leaves an administrator: its sender, or the other one that the deletion asks for.
- `SqlInv`: a candidate resolved as denied points to an enabled or disabled denial of that
  very statement. A decision about another statement, or about the shape, has another
  key, and a decision about the same statement replaces the resolution as well.
- `EditorInv`: a preview request that still counts is about the statements on display,
  because the cleanup of the effect disowns the earlier ones before new ones are asked. An
  answer that arrives late is therefore dropped or about what is shown. The schedule
  reads back because the second pass of `ToInstant` corrects the offset the first guessed
  wrong, except inside the hour that does not exist (`LocalTimeReadsBack`).
- `MigrationInv`: what each step of an operation may rely on after any interruption
  (`OperationInv`), that plans on display exist (`ViewInv`), and that a plan that is
  verified or waits for a restart holds the fence (`FenceInv`). Hence every write that
  reaches one of the two databases from then on is one made behind the fence.
- `UseInv`: as long as nothing was declared too early, every process is on the selected
  database unless a plan waits for a restart (`Settled`); then each is on one of the two
  databases of that plan, and on the new one only once it is selected (`Between`), through
  interrupted and repeated rollbacks. A process that restarts alone keeps both. What a
  finalization needs is that no process is on the old database any more, which is exactly
  what a step that does not set `hasty` provides.
- `RoleInv`: every row, on display or stored, is `Coherent`: no mode above the access mode,
  and no approval or limit for writes without write access. On such rows the page's caps
  and the server's agree, so storing changes nothing that was shown. It needs
  `StartCoherent` (the rows were saved with this form): rows made by the migration
  `database/migrations/2026_08_20_015723_*` or by column defaults need not be, and the
  server would lower what the form shows of them.
- `SecurityInv`, for the types: a confirmed second factor is the one the authenticator
  holds, because the page shows whether the factor is on and its set-up dialog is open only
  while it is not. The types of the people rest on their lists of roles being without
  repetition, which adding, removing (by the dialog or with the role) and moving a role
  keep (`OrdersAre` and the lemmas after it).

### What stays with TLC

Every liveness property, since the prover has no support for fairness: `RunningBatchesEnd`,
`DueBatchesLeaveSchedule`, `QueriesSettle`, `ExpiredAccessEnds`, `WatchedBatchSettles`,
`ProgressEnds`, `StepsAreShown`. The same goes for the three violated runs, which need one
counterexample each.

## 8. Not modelled

- The native proxy (Go) and, of the leases, auth attempts, reservations, heartbeats,
  statements and what a token admits to: a program of its own that mostly speaks the wire protocols
  of PostgreSQL and MySQL.
- SQL parsing and analysis: a function of text that rests on third-party parsers.
- Notifications and the audit log beyond the writes they are: read by no handler.
- First set-up and factory reset: before and after there is anything to govern.
- Lists, dashboards, navigation, one-field settings and interface components:
  presentation without state a property could be about.
- How a table is copied row by row, and the framework's own queue, cache, session and
  authentication beyond what the code relies on.
