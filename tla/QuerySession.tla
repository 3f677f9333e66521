----------------------------- MODULE QuerySession -----------------------------
(***************************************************************************)
(* One Query Access request, the time-boxed session it allows, and the SQL *)
(* a user runs in that session from the browser.                           *)
(*                                                                         *)
(* Source: app/Services/QuerySessionWorkflow.php (start, queue, execution, *)
(* cancellation and interruption of a browser query),                      *)
(* app/Jobs/ExecuteQuerySessionQuery.php (the queued job),                 *)
(* ReconcileBrowserQueryExecutions.php and ExpireQuerySessions.php (the    *)
(* scheduled commands), DatabaseQueryCanceller.php,                        *)
(* QueryResultSnapshotStore.php and QueryRequestWorkflow::cancel, which is *)
(* what "End session" calls.                                               *)
(*                                                                         *)
(* The claim, the cancellation and the creation of a query are             *)
(* transactions on locked rows.  The writers of an outcome are not: the    *)
(* worker, its failed() hook, the reconciliation and a failed push each    *)
(* read the row, decide, save the columns they changed and then update the *)
(* linked execution.  Every one of those steps is an action here.          *)
(*                                                                         *)
(* Abstractions.  A query is its id: the SQL text, its classification and  *)
(* its target connection only matter through validatedExecution().  Time   *)
(* is whether the session has expired and whether a query is overdue.  A   *)
(* job belongs to one query, so the worker that has it is not named.       *)
(***************************************************************************)
EXTENDS Naturals, FiniteSets

CONSTANTS
    Queries,     \* ids of the queries submitted in the session
    Situations,  \* the policy situations an administrator can create
    Enders,      \* who may end the session, out of EnderKinds
    Closers,     \* who may close a query, out of CloserKinds
    Faults       \* the failures that can happen, out of FaultKinds

\* The callers of markDispatchFailed() and markInterrupted(): the web request
\* whose push failed, the scheduled reconciliation, and the job's failed().
CloserKinds == {"web", "scheduler", "hook"}

\* A person through "End session", or the end of the access window.
EnderKinds == {"owner", "expiry"}

FaultKinds == {"exception", "timeout", "crash", "lost_push", "command"}

\* access: the user's roles still allow the query (validatedExecution());
\* approval: current policy asks for a fresh approval of the request.
Situation == [access : BOOLEAN, approval : BOOLEAN]

ASSUME SessionAssumption ==
    /\ Situations \subseteq Situation
    /\ Situations # {}
    /\ Enders \subseteq EnderKinds
    /\ Closers \subseteq CloserKinds
    /\ Faults \subseteq FaultKinds

VARIABLES
    request,    \* the status of the query_requests row
    reviewed,   \* its approval is a reviewer's, not the automatic one
    session,    \* the query_sessions row: none, open, or with an ended_at
    expired,    \* expires_at has passed
    env,        \* the policy situation in force
    call,       \* the web request that queues each query
    row,        \* the query_session_queries row of each query
    execution,  \* the status of the linked query_executions row
    overdue,    \* the query is older than the reconciliation allows
    job,        \* the queued job of each query and its worker's local state
    target,     \* the statement on the target database
    snapshot,   \* queries with a stored result snapshot
    killing,    \* queries whose cancel() has committed and not yet tried to kill
    closer,     \* the interruptions of each query under way
    ender,      \* the ends of the session under way: by a person, by expiry
    stopped,    \* history: cancelled before their connection was tracked
    shut        \* history: not yet taken up when the session closed

vars == <<request, reviewed, session, expired, env, call, row, execution, overdue, job,
          target, snapshot, killing, closer, ender, stopped, shut>>

-----------------------------------------------------------------------------
(* Types                                                                   *)

Active == {"queued", "running", "cancelling"}

Outcomes == {"succeeded", "failed", "cancelled", "timed_out"}

ExecutionStatus == Active \cup Outcomes \cup {"absent"}

RequestStatus == {"pending_review", "approved", "rejected", "running", "completed",
                  "cancelled"}

\* cancelled: cancel_requested_at is set; pid: backend_process_id is set.
Row == [status : ExecutionStatus, cancelled : BOOLEAN, pid : BOOLEAN]

AbsentRow == [status |-> "absent", cancelled |-> FALSE, pid |-> FALSE]

JobPhases == {"none", "waiting", "validate", "connect", "track", "start",
              "executing", "settle", "save", "store", "link", "reserved",
              "failing", "done"}

\* ended, cancelled: what the worker's copies of the session and of the query
\* say; outcome: what it is about to record; caught: it is in the catch block.
Job == [phase : JobPhases, ended : BOOLEAN, cancelled : BOOLEAN,
        outcome : Outcomes, caught : BOOLEAN]

NoJob == [phase |-> "none", ended |-> FALSE, cancelled |-> FALSE,
          outcome |-> "failed", caught |-> FALSE]

\* pid: the backend_process_id of the copy that was found.
Closer == [phase : {"idle", "kill", "save", "link"}, outcome : Outcomes, pid : BOOLEAN]

NoCloser == [phase |-> "idle", outcome |-> "failed", pid |-> FALSE]

\* todo: the queries cancelForSession() has still to cancel; seen: the status of
\* the request that was loaded with the session.
Ender == [phase : {"idle", "end", "forget", "list", "cancel", "complete"},
          todo : SUBSET Queries, seen : RequestStatus]

NoEnder == [phase |-> "idle", todo |-> {}, seen |-> "running"]

TypeOK ==
    /\ request \in RequestStatus
    /\ reviewed \in BOOLEAN
    /\ session \in {"none", "open", "ended"}
    /\ expired \in BOOLEAN
    /\ env \in Situation
    /\ call \in [Queries -> {"none", "validated", "created", "unsent", "done"}]
    /\ row \in [Queries -> Row]
    /\ execution \in [Queries -> ExecutionStatus]
    /\ overdue \in [Queries -> BOOLEAN]
    /\ job \in [Queries -> Job]
    /\ target \in [Queries -> {"idle", "running", "done", "stopped"}]
    /\ snapshot \in SUBSET Queries
    /\ killing \in SUBSET Queries
    /\ closer \in [Queries -> [CloserKinds -> Closer]]
    /\ ender \in [EnderKinds -> Ender]
    /\ stopped \in SUBSET Queries
    /\ shut \in SUBSET Queries

Init ==
    /\ env \in {s \in Situations : s.access}
    /\ request = IF env.approval THEN "pending_review" ELSE "approved"
    /\ reviewed = FALSE
    /\ session = "none"
    /\ expired = FALSE
    /\ call = [q \in Queries |-> "none"]
    /\ row = [q \in Queries |-> AbsentRow]
    /\ execution = [q \in Queries |-> "absent"]
    /\ overdue = [q \in Queries |-> FALSE]
    /\ job = [q \in Queries |-> NoJob]
    /\ target = [q \in Queries |-> "idle"]
    /\ snapshot = {}
    /\ killing = {}
    /\ closer = [q \in Queries |-> [c \in CloserKinds |-> NoCloser]]
    /\ ender = [e \in EnderKinds |-> NoEnder]
    /\ stopped = {}
    /\ shut = {}

-----------------------------------------------------------------------------
(* Groups of variables that an action leaves alone                          *)

accessVars == <<request, reviewed, session, expired, env, ender, shut>>
queryVars  == <<row, execution, overdue>>
workVars   == <<job, target, snapshot>>
stopVars   == <<killing, closer, stopped>>

-----------------------------------------------------------------------------
(* The request and the session                                             *)

\* QuerySession::isActive.
IsActive == session = "open" /\ ~expired

\* An administrator changes roles, rules or approval policy.
ChangeSituation ==
    /\ env' \in Situations \ {env}
    /\ UNCHANGED <<request, reviewed, session, expired, ender, shut, call>>
    /\ UNCHANGED <<queryVars, workVars, stopVars>>

\* review(): a reviewer decides.
Review ==
    /\ request = "pending_review"
    /\ \/ /\ env.access
          /\ request' = "approved"
          /\ reviewed' = TRUE
       \/ /\ request' = "rejected"
          /\ UNCHANGED reviewed
    /\ UNCHANGED <<session, expired, env, ender, shut, call>>
    /\ UNCHANGED <<queryVars, workVars, stopVars>>

\* start(): the approved, unused request becomes a session, or goes back to review
\* when policy has come to ask for an approval that no reviewer has given.
Start ==
    /\ request = "approved"
    /\ session = "none"
    /\ env.access
    /\ \/ /\ env.approval /\ ~reviewed
          /\ request' = "pending_review"
          /\ UNCHANGED session
       \/ /\ env.approval => reviewed
          /\ request' = "running"
          /\ session' = "open"
    /\ UNCHANGED <<reviewed, expired, env, ender, shut, call>>
    /\ UNCHANGED <<queryVars, workVars, stopVars>>

\* The queries no worker has taken up.
NotTakenUp == {q \in Queries : job[q].phase \in {"none", "waiting"}}

\* The access window elapses.
Elapse ==
    /\ "expiry" \in Enders
    /\ session = "open"
    /\ ~expired
    /\ expired' = TRUE
    /\ shut' = shut \cup NotTakenUp \cup {q \in Queries : job[q].phase = "validate"}
    /\ UNCHANGED <<request, reviewed, session, env, ender, call>>
    /\ UNCHANGED <<queryVars, workVars, stopVars>>

\* QueryRequestWorkflow::cancel, also behind "End session": the request is
\* Cancelled and its unexpired session ended in one transaction; snapshots and
\* queries follow after the commit.
CancelRequest ==
    /\ "owner" \in Enders
    /\ request \in {"pending_review", "approved", "running"}
    /\ request' = "cancelled"
    /\ session' = IF IsActive THEN "ended" ELSE session
    /\ shut' = IF IsActive THEN shut \cup NotTakenUp ELSE shut
    /\ ender' = [ender EXCEPT !["owner"] = [NoEnder EXCEPT !.phase = "forget"]]
    /\ UNCHANGED <<reviewed, expired, env, call>>
    /\ UNCHANGED <<queryVars, workVars, stopVars>>

\* Variant of LoadExpired: only sessions of requests that are still Running.
LoadExpiredOfRunning ==
    /\ ender["expiry"].phase = "idle"
    /\ session = "open" /\ request = "running"
    /\ expired
    /\ ender' = [ender EXCEPT !["expiry"] =
                    [phase |-> "end", todo |-> {}, seen |-> request]]
    /\ UNCHANGED <<request, reviewed, session, expired, env, shut, call>>
    /\ UNCHANGED <<queryVars, workVars, stopVars>>

\* ExpireQuerySessions loads the expired session together with its request.
LoadExpired ==
    /\ ender["expiry"].phase = "idle"
    /\ session = "open"
    /\ expired
    /\ ender' = [ender EXCEPT !["expiry"] =
                    [phase |-> "end", todo |-> {}, seen |-> request]]
    /\ UNCHANGED <<request, reviewed, session, expired, env, shut, call>>
    /\ UNCHANGED <<queryVars, workVars, stopVars>>

\* It saves ended_at.
EndExpired ==
    /\ ender["expiry"].phase = "end"
    /\ session' = "ended"
    /\ shut' = shut \cup NotTakenUp
    /\ ender' = [ender EXCEPT !["expiry"].phase = "forget"]
    /\ UNCHANGED <<request, reviewed, expired, env, call>>
    /\ UNCHANGED <<queryVars, workVars, stopVars>>

\* forgetForSession(), forgetForQueryRequest(): the snapshots are deleted.
ForgetSnapshots(e) ==
    /\ ender[e].phase = "forget"
    /\ snapshot' = {}
    /\ ender' = [ender EXCEPT ![e].phase = "list"]
    /\ UNCHANGED <<request, reviewed, session, expired, env, shut, call, job, target>>
    /\ UNCHANGED <<queryVars, stopVars>>

\* cancelForSession() reads the active queries of the session.
ListQueries(e) ==
    /\ ender[e].phase = "list"
    /\ ender' = [ender EXCEPT ![e].phase = "cancel",
                              ![e].todo = {q \in Queries : row[q].status \in Active}]
    /\ UNCHANGED <<request, reviewed, session, expired, env, shut, call>>
    /\ UNCHANGED <<queryVars, workVars, stopVars>>

\* All are cancelled; the request was cancelled before, or is completed next.
QueriesCancelled(e) ==
    /\ ender[e].phase = "cancel"
    /\ ender[e].todo = {}
    /\ ender' = [ender EXCEPT ![e].phase = IF e = "expiry" THEN "complete" ELSE "idle"]
    /\ UNCHANGED <<request, reviewed, session, expired, env, shut, call>>
    /\ UNCHANGED <<queryVars, workVars, stopVars>>

\* Variant of CompleteRequest: the session's state in the request's status.
CompleteRequestAsEnded ==
    /\ ender["expiry"].phase = "complete"
    /\ request' = IF ender["expiry"].seen = "running" THEN session ELSE request
    /\ ender' = [ender EXCEPT !["expiry"] = NoEnder]
    /\ UNCHANGED <<reviewed, session, expired, env, shut, call>>
    /\ UNCHANGED <<queryVars, workVars, stopVars>>

\* ExpireQuerySessions completes the request, if the status it loaded is Running.
CompleteRequest ==
    /\ ender["expiry"].phase = "complete"
    /\ request' = IF ender["expiry"].seen = "running" THEN "completed" ELSE request
    /\ ender' = [ender EXCEPT !["expiry"] = NoEnder]
    /\ UNCHANGED <<reviewed, session, expired, env, shut, call>>
    /\ UNCHANGED <<queryVars, workVars, stopVars>>

\* The command or the web request dies, or one of its steps throws.
EnderFails(e) ==
    /\ "command" \in Faults
    /\ ender[e].phase # "idle"
    /\ ender' = [ender EXCEPT ![e] = NoEnder]
    /\ UNCHANGED <<request, reviewed, session, expired, env, shut, call>>
    /\ UNCHANGED <<queryVars, workVars, stopVars>>

-----------------------------------------------------------------------------
(* Submitting a query: queue()                                             *)

\* validatedExecution(): an active session and roles that allow the query.
BeginQueue(q) ==
    /\ call[q] = "none"
    /\ IsActive
    /\ env.access
    /\ call' = [call EXCEPT ![q] = "validated"]
    /\ UNCHANGED <<accessVars, queryVars, workVars, stopVars>>

\* Variant of CreateQuery: a query that is being cancelled does not count.
CreateQueryBesideCancelling(q) ==
    /\ call[q] = "validated"
    /\ \A p \in Queries : row[p].status \notin {"queued", "running"}
    /\ call' = [call EXCEPT ![q] = "created"]
    /\ row' = [row EXCEPT ![q].status = "queued"]
    /\ execution' = [execution EXCEPT ![q] = "queued"]
    /\ UNCHANGED overdue
    /\ UNCHANGED <<accessVars, workVars, stopVars>>

\* Under the cache lock of the session and in one transaction: refuse if there is
\* an active query, or else create the query and its execution.  The session is
\* not looked at again.
CreateQuery(q) ==
    /\ call[q] = "validated"
    /\ \/ /\ \E p \in Queries : row[p].status \in Active
          /\ call' = [call EXCEPT ![q] = "none"]
          /\ UNCHANGED queryVars
       \/ /\ \A p \in Queries : row[p].status \notin Active
          /\ call' = [call EXCEPT ![q] = "created"]
          /\ row' = [row EXCEPT ![q].status = "queued"]
          /\ execution' = [execution EXCEPT ![q] = "queued"]
          /\ UNCHANGED overdue
    /\ UNCHANGED <<accessVars, workVars, stopVars>>

\* The job is pushed after the commit.
Push(q) ==
    /\ call[q] = "created"
    /\ call' = [call EXCEPT ![q] = "done"]
    /\ job' = [job EXCEPT ![q].phase = "waiting"]
    /\ UNCHANGED <<target, snapshot>>
    /\ UNCHANGED <<accessVars, queryVars, stopVars>>

\* The push throws; the job may have reached Redis all the same.
PushFails(q) ==
    /\ "lost_push" \in Faults
    /\ call[q] = "created"
    /\ call' = [call EXCEPT ![q] = "unsent"]
    /\ job' \in {job, [job EXCEPT ![q].phase = "waiting"]}
    /\ UNCHANGED <<target, snapshot>>
    /\ UNCHANGED <<accessVars, queryVars, stopVars>>

\* The web process dies between the commit and the push.
CallDies(q) ==
    /\ "crash" \in Faults
    /\ call[q] \in {"created", "unsent"}
    /\ call' = [call EXCEPT ![q] = "done"]
    /\ UNCHANGED <<accessVars, queryVars, workVars, stopVars>>

-----------------------------------------------------------------------------
(* Executing a query: executeQueued()                                      *)

\* No worker has the job any more, and nothing is left of its local state.
Leave(q, phase) == job' = [job EXCEPT ![q] = [NoJob EXCEPT !.phase = phase]]

\* Variant of Claim: whatever the status of the query.
ClaimUnchecked(q) ==
    /\ job[q].phase = "waiting"
    /\ row' = [row EXCEPT ![q].status = "running"]
    /\ execution' = [execution EXCEPT ![q] = "running"]
    /\ overdue' = [overdue EXCEPT ![q] = FALSE]
    /\ job' = [job EXCEPT ![q].phase = "validate", ![q].ended = session = "ended"]
    /\ UNCHANGED <<target, snapshot, call>>
    /\ UNCHANGED <<accessVars, stopVars>>

\* The claim: one transaction on the locked query, which also reads the session.
Claim(q) ==
    /\ job[q].phase = "waiting"
    /\ \/ /\ row[q].status # "queued"
          /\ Leave(q, "done")
          /\ UNCHANGED queryVars
       \/ /\ row[q].status = "queued"
          /\ row' = [row EXCEPT ![q].status = "running"]
          /\ execution' = [execution EXCEPT ![q] = "running"]
          /\ overdue' = [overdue EXCEPT ![q] = FALSE]
          /\ job' = [job EXCEPT ![q].phase = "validate", ![q].ended = session = "ended"]
    /\ UNCHANGED <<target, snapshot, call>>
    /\ UNCHANGED <<accessVars, stopVars>>

\* The worker is in the catch block with an error that means this outcome.
Caught(q, outcome) ==
    job' = [job EXCEPT ![q].phase = "settle", ![q].caught = TRUE, ![q].outcome = outcome]

\* Variant of Validate: the worker trusts the check that queue() has made.
ValidateAccessOnly(q) ==
    /\ job[q].phase = "validate"
    /\ \/ /\ env.access
          /\ job' = [job EXCEPT ![q].phase = "connect"]
       \/ /\ ~env.access
          /\ Caught(q, "failed")
    /\ UNCHANGED <<target, snapshot, call>>
    /\ UNCHANGED <<accessVars, queryVars, stopVars>>

\* validatedExecution() on the session that was read with the claim.
Validate(q) ==
    /\ job[q].phase = "validate"
    /\ \/ /\ ~job[q].ended /\ ~expired /\ env.access
          /\ job' = [job EXCEPT ![q].phase = "connect"]
       \/ /\ job[q].ended \/ expired \/ ~env.access
          /\ Caught(q, "failed")
    /\ UNCHANGED <<target, snapshot, call>>
    /\ UNCHANGED <<accessVars, queryVars, stopVars>>

\* executeTracked() connects, and onConnected() refreshes the query.
Connect(q) ==
    /\ job[q].phase = "connect"
    /\ \/ job' = [job EXCEPT ![q].phase = "track",
                             ![q].cancelled = \/ row[q].cancelled
                                              \/ row[q].status = "cancelling"]
       \/ Caught(q, "failed")
    /\ UNCHANGED <<target, snapshot, call>>
    /\ UNCHANGED <<accessVars, queryVars, stopVars>>

\* Variant of Track: the cancellation is not looked at.
TrackUnchecked(q) ==
    /\ job[q].phase = "track"
    /\ row' = [row EXCEPT ![q].pid = TRUE]
    /\ job' = [job EXCEPT ![q].phase = "start"]
    /\ UNCHANGED <<execution, overdue, target, snapshot, call>>
    /\ UNCHANGED <<accessVars, stopVars>>

\* onConnected() saves the backend's id and looks at its copy of the query.
Track(q) ==
    /\ job[q].phase = "track"
    /\ row' = [row EXCEPT ![q].pid = TRUE]
    /\ \/ /\ job[q].cancelled
          /\ Caught(q, "failed")
       \/ /\ ~job[q].cancelled
          /\ job' = [job EXCEPT ![q].phase = "start"]
    /\ UNCHANGED <<execution, overdue, target, snapshot, call>>
    /\ UNCHANGED <<accessVars, stopVars>>

\* The statement is sent to the target.
StartStatement(q) ==
    /\ job[q].phase = "start"
    /\ job' = [job EXCEPT ![q].phase = "executing"]
    /\ target' = [target EXCEPT ![q] = "running"]
    /\ UNCHANGED <<snapshot, call>>
    /\ UNCHANGED <<accessVars, queryVars, stopVars>>

\* The target completes the statement, or gives up (an error, its time limit).
StatementEnds(q) ==
    /\ target[q] = "running"
    /\ target' \in {[target EXCEPT ![q] = "done"], [target EXCEPT ![q] = "stopped"]}
    /\ UNCHANGED <<job, snapshot, call>>
    /\ UNCHANGED <<accessVars, queryVars, stopVars>>

\* The worker receives the result, or an exception.  A cancelled statement answers
\* like one that hit its time limit (PostgreSQL) or like an error (MySQL).
Answer(q) ==
    /\ job[q].phase = "executing"
    /\ \/ /\ target[q] = "done"
          /\ job' = [job EXCEPT ![q].phase = "settle", ![q].outcome = "succeeded"]
       \/ /\ target[q] = "stopped"
          /\ \E outcome \in {"failed", "timed_out"} : Caught(q, outcome)
    /\ UNCHANGED <<target, snapshot, call>>
    /\ UNCHANGED <<accessVars, queryVars, stopVars>>

\* The query is refreshed: somebody else has closed it, or a cancellation was
\* requested, or the worker's own outcome stands.
Settle(q) ==
    /\ job[q].phase = "settle"
    /\ \/ /\ row[q].status \in Outcomes
          /\ Leave(q, "done")
       \/ /\ row[q].status \notin Outcomes
          /\ row[q].cancelled \/ row[q].status = "cancelling"
          /\ job' = [job EXCEPT ![q].phase = "save", ![q].outcome = "cancelled"]
       \/ /\ row[q].status \notin Outcomes
          /\ ~row[q].cancelled /\ row[q].status # "cancelling"
          /\ job' = [job EXCEPT ![q].phase = "save"]
    /\ UNCHANGED <<target, snapshot, call>>
    /\ UNCHANGED <<accessVars, queryVars, stopVars>>

\* The outcome is saved, without a lock and whatever the row says by now.
SaveOutcome(q) ==
    /\ job[q].phase = "save"
    /\ row' = [row EXCEPT ![q].status = job[q].outcome]
    /\ job' = [job EXCEPT ![q].phase = IF job[q].outcome = "succeeded" THEN "store" ELSE "link"]
    /\ UNCHANGED <<execution, overdue, target, snapshot, call>>
    /\ UNCHANGED <<accessVars, stopVars>>

\* The rows a read returned are kept for the result panel.
StoreSnapshot(q) ==
    /\ job[q].phase = "store"
    /\ snapshot' \in {snapshot, snapshot \cup {q}}
    /\ job' = [job EXCEPT ![q].phase = "link"]
    /\ UNCHANGED <<target, call>>
    /\ UNCHANGED <<accessVars, queryVars, stopVars>>

\* updateLinkedExecution().
LinkOutcome(q) ==
    /\ job[q].phase = "link"
    /\ execution' = [execution EXCEPT ![q] = job[q].outcome]
    /\ Leave(q, "done")
    /\ UNCHANGED <<row, overdue, target, snapshot, call>>
    /\ UNCHANGED <<accessVars, stopVars>>

\* The phases in which a worker process has the job.
AtWork == {"validate", "connect", "track", "start", "executing", "settle", "save",
           "store", "link"}

\* Something throws: inside the try block the catch block takes over, inside the
\* catch block the job fails.
Throw(q) ==
    /\ "exception" \in Faults
    /\ job[q].phase \in AtWork
    /\ \/ /\ ~job[q].caught
          /\ Caught(q, "failed")
       \/ /\ job[q].caught
          /\ Leave(q, "failing")
    /\ UNCHANGED <<target, snapshot, call>>
    /\ UNCHANGED <<accessVars, queryVars, stopVars>>

\* The job's time limit: failed() runs (FailOnTimeout) and the worker is killed.
\* What it sent to the target goes on.
Timeout(q) ==
    /\ "timeout" \in Faults
    /\ job[q].phase \in AtWork
    /\ Leave(q, "failing")
    /\ UNCHANGED <<target, snapshot, call>>
    /\ UNCHANGED <<accessVars, queryVars, stopVars>>

\* The worker process dies; Redis keeps the job reserved.
Crash(q) ==
    /\ "crash" \in Faults
    /\ job[q].phase \in AtWork
    /\ Leave(q, "reserved")
    /\ UNCHANGED <<target, snapshot, call>>
    /\ UNCHANGED <<accessVars, queryVars, stopVars>>

\* The reserved job comes back, and $tries = 1 sends it to failed().
Redeliver(q) ==
    /\ job[q].phase = "reserved"
    /\ Leave(q, "failing")
    /\ UNCHANGED <<target, snapshot, call>>
    /\ UNCHANGED <<accessVars, queryVars, stopVars>>

-----------------------------------------------------------------------------
(* Cancelling a query: cancel()                                            *)

\* The transaction on the locked query.
CancelTransaction(q) ==
    /\ \/ /\ row[q].status = "queued"
          /\ row' = [row EXCEPT ![q].status = "cancelled", ![q].cancelled = TRUE]
          /\ execution' = [execution EXCEPT ![q] = "cancelled"]
          /\ UNCHANGED killing
       \/ /\ row[q].status \in {"running", "cancelling"}
          /\ row' = [row EXCEPT ![q].status = "cancelling", ![q].cancelled = TRUE]
          /\ execution' = [execution EXCEPT ![q] = "cancelling"]
          /\ killing' = killing \cup {q}
       \/ /\ row[q].status \notin Active
          /\ UNCHANGED <<row, execution, killing>>
    /\ stopped' = IF row[q].status \in Active
                     /\ job[q].phase \in {"none", "waiting", "validate", "connect"}
                  THEN stopped \cup {q}
                  ELSE stopped

\* The user cancels a query from the result panel or the history.
CancelQuery(q) ==
    /\ row[q].status \in Active
    /\ CancelTransaction(q)
    /\ UNCHANGED <<overdue, closer, call>>
    /\ UNCHANGED <<accessVars, workVars>>

\* cancelForSession() cancels the next of its queries.
CancelForSession(e, q) ==
    /\ ender[e].phase = "cancel"
    /\ q \in ender[e].todo
    /\ ender' = [ender EXCEPT ![e].todo = @ \ {q}]
    /\ CancelTransaction(q)
    /\ UNCHANGED <<request, reviewed, session, expired, env, shut>>
    /\ UNCHANGED <<overdue, closer, call, workVars>>

\* DatabaseQueryCanceller: given a recorded backend, a running statement is
\* killed, or the attempt fails; an idle backend does not notice.
Killed(q, pid) ==
    \/ UNCHANGED target
    \/ /\ pid /\ target[q] = "running"
       /\ target' = [target EXCEPT ![q] = "stopped"]

\* After its commit cancel() refreshes the query and tries to kill the statement.
Kill(q) ==
    /\ q \in killing
    /\ killing' = killing \ {q}
    /\ Killed(q, row[q].pid)
    /\ UNCHANGED <<job, snapshot, closer, stopped, call>>
    /\ UNCHANGED <<accessVars, queryVars>>

-----------------------------------------------------------------------------
(* Closing a query from outside: markDispatchFailed(), markInterrupted()   *)

\* Time passes: created_at is older than queue_stale_seconds, or started_at than
\* the timeout and its grace.
Age(q) ==
    /\ row[q].status \in Active
    /\ ~overdue[q]
    /\ overdue' = [overdue EXCEPT ![q] = TRUE]
    /\ UNCHANGED <<row, execution, call>>
    /\ UNCHANGED <<accessVars, workVars, stopVars>>

\* The scheduled reconciliation (withoutOverlapping) handles one query at a time.
Reconciling(q) ==
    /\ overdue[q]
    /\ \A p \in Queries : closer[p]["scheduler"].phase = "idle"

\* markDispatchFailed() has found the query.
MarkDispatchFailed(c, q) ==
    /\ closer' = IF row[q].status = "queued"
                 THEN [closer EXCEPT ![q][c] =
                          [phase |-> "save", outcome |-> "failed", pid |-> FALSE]]
                 ELSE closer
    /\ UNCHANGED <<killing, stopped>>
    /\ UNCHANGED <<accessVars, queryVars>>

\* queue() closes the query whose push failed.
DispatchFailed(q) ==
    /\ "web" \in Closers
    /\ call[q] = "unsent"
    /\ call' = [call EXCEPT ![q] = "done"]
    /\ MarkDispatchFailed("web", q)
    /\ UNCHANGED workVars

\* The reconciliation closes a query that is still Queued.
ReconcileQueued(q) ==
    /\ "scheduler" \in Closers
    /\ Reconciling(q)
    /\ row[q].status = "queued"
    /\ MarkDispatchFailed("scheduler", q)
    /\ UNCHANGED <<workVars, call>>

\* markInterrupted() has found the query and decides on the copy it found.
MarkInterrupted(c, q, outcome) ==
    /\ closer' = IF row[q].status \in Active
                 THEN [closer EXCEPT ![q][c] =
                          [phase |-> "kill", pid |-> row[q].pid,
                           outcome |-> IF row[q].cancelled THEN "cancelled" ELSE outcome]]
                 ELSE closer
    /\ UNCHANGED <<killing, stopped, call>>
    /\ UNCHANGED <<accessVars, queryVars>>

\* Variant of ReconcileActive: a query that is being cancelled is left alone.
ReconcileRunning(q) ==
    /\ "scheduler" \in Closers
    /\ Reconciling(q)
    /\ row[q].status = "running"
    /\ MarkInterrupted("scheduler", q, "timed_out")
    /\ UNCHANGED workVars

\* The reconciliation closes a query that should have ended long ago.
ReconcileActive(q) ==
    /\ "scheduler" \in Closers
    /\ Reconciling(q)
    /\ row[q].status \in {"running", "cancelling"}
    /\ MarkInterrupted("scheduler", q, "timed_out")
    /\ UNCHANGED workVars

\* ExecuteQuerySessionQuery::failed, after a time limit or another exception.
FailedHook(q) ==
    /\ "hook" \in Closers
    /\ job[q].phase = "failing"
    /\ Leave(q, "done")
    /\ \E outcome \in {"failed", "timed_out"} : MarkInterrupted("hook", q, outcome)
    /\ UNCHANGED <<target, snapshot>>

\* markInterrupted() tries to kill the statement of the copy it found.
CloserKills(c, q) ==
    /\ closer[q][c].phase = "kill"
    /\ closer' = [closer EXCEPT ![q][c].phase = "save"]
    /\ Killed(q, closer[q][c].pid)
    /\ UNCHANGED <<job, snapshot, killing, stopped, call>>
    /\ UNCHANGED <<accessVars, queryVars>>

\* Variant of CloserSaves: the linked execution first.
CloserSavesExecution(c, q) ==
    /\ closer[q][c].phase = "save"
    /\ execution' = [execution EXCEPT ![q] = closer[q][c].outcome]
    /\ closer' = [closer EXCEPT ![q][c].phase = "link"]
    /\ UNCHANGED <<row, overdue, killing, stopped, call>>
    /\ UNCHANGED <<accessVars, workVars>>

\* finishQueuedExecution() saves the query.
CloserSaves(c, q) ==
    /\ closer[q][c].phase = "save"
    /\ row' = [row EXCEPT ![q].status = closer[q][c].outcome]
    /\ closer' = [closer EXCEPT ![q][c].phase = "link"]
    /\ UNCHANGED <<execution, overdue, killing, stopped, call>>
    /\ UNCHANGED <<accessVars, workVars>>

\* finishQueuedExecution() updates the linked execution.
CloserLinks(c, q) ==
    /\ closer[q][c].phase = "link"
    /\ execution' = [execution EXCEPT ![q] = closer[q][c].outcome]
    /\ closer' = [closer EXCEPT ![q][c] = NoCloser]
    /\ UNCHANGED <<row, overdue, killing, stopped, call>>
    /\ UNCHANGED <<accessVars, workVars>>

\* The process that closes the query dies.
CloserDies(c, q) ==
    /\ "crash" \in Faults
    /\ closer[q][c].phase # "idle"
    /\ closer' = [closer EXCEPT ![q][c] = NoCloser]
    /\ UNCHANGED <<killing, stopped, call>>
    /\ UNCHANGED <<accessVars, queryVars, workVars>>

-----------------------------------------------------------------------------
(* The specification                                                       *)

EnderStep(e) ==
    \/ ForgetSnapshots(e) \/ ListQueries(e) \/ QueriesCancelled(e)
    \/ \E q \in Queries : CancelForSession(e, q)

AccessStep ==
    \/ ChangeSituation \/ Review \/ Start \/ Elapse \/ CancelRequest
    \/ LoadExpired \/ EndExpired \/ CompleteRequest
    \/ \E e \in EnderKinds : EnderStep(e) \/ EnderFails(e)

QueueStep(q) == CreateQuery(q) \/ Push(q)

WorkerStep(q) ==
    \/ Claim(q) \/ Validate(q) \/ Connect(q) \/ Track(q) \/ StartStatement(q)
    \/ Answer(q) \/ Settle(q) \/ SaveOutcome(q) \/ StoreSnapshot(q) \/ LinkOutcome(q)

CloserStep(c, q) == CloserKills(c, q) \/ CloserSaves(c, q) \/ CloserLinks(c, q)

ReconcileStep(q) == ReconcileQueued(q) \/ ReconcileActive(q)

FaultStep(q) == PushFails(q) \/ CallDies(q) \/ Throw(q) \/ Timeout(q) \/ Crash(q)

QueryStep(q) ==
    \/ BeginQueue(q) \/ QueueStep(q) \/ WorkerStep(q) \/ StatementEnds(q)
    \/ Redeliver(q) \/ FaultStep(q) \/ CancelQuery(q) \/ Kill(q) \/ Age(q)
    \/ DispatchFailed(q) \/ ReconcileStep(q) \/ FailedHook(q)
    \/ \E c \in CloserKinds : CloserStep(c, q) \/ CloserDies(c, q)

Next == AccessStep \/ \E q \in Queries : QueryStep(q)

Spec == Init /\ [][Next]_vars

\* The scheduled commands run every minute and are not killed every time, and time
\* passes.
SchedulerFairness ==
    /\ \A q \in Queries :
          /\ WF_vars(Age(q)) /\ SF_vars(ReconcileStep(q))
          /\ SF_vars(CloserKills("scheduler", q)) /\ SF_vars(CloserSaves("scheduler", q))
    /\ WF_vars(LoadExpired) /\ WF_vars(EndExpired) /\ WF_vars(CompleteRequest)
    /\ WF_vars(EnderStep("expiry"))

\* Workers, targets and the processes that close a query or end a session go on, too.
\* Users, administrators and faults owe nothing.
Fairness ==
    /\ SchedulerFairness
    /\ \A q \in Queries :
          /\ WF_vars(WorkerStep(q)) /\ WF_vars(StatementEnds(q))
          /\ WF_vars(QueueStep(q)) /\ WF_vars(Kill(q)) /\ WF_vars(FailedHook(q))
          /\ \A c \in Closers : WF_vars(CloserStep(c, q))
    /\ WF_vars(EnderStep("owner"))

\* Only the scheduler is sure to go on: a worker may hang for ever.
SchedulerSpec == Spec /\ SchedulerFairness

FairSpec == Spec /\ Fairness

-----------------------------------------------------------------------------
(* Properties                                                              *)

\* At most one browser query of a session is queued, running or being cancelled,
\* however submissions overlap and whoever closes a query (queue()'s check under
\* the session's lock; nothing reopens a closed query).
OneActiveQuery ==
    \A p, q \in Queries :
        row[p].status \in Active /\ row[q].status \in Active => p = q

\* A query that no worker had taken up when its session was ended or elapsed never
\* reaches the target, also when it was validated before and is created and pushed
\* after the end (executeQueued() validates the session again).
ClosedSessionNeverRuns == \A q \in shut : target[q] = "idle"

\* A query cancelled before its connection was tracked never reaches the target,
\* whatever else is written to its row in between (the claim's status check,
\* onConnected()'s look at cancel_requested_at).
CancelledEarlyNeverRuns == \A q \in stopped : target[q] = "idle"

\* A query that has an outcome never becomes active again, although its outcome is
\* saved by processes that do not lock the row.
ClosedStaysClosed ==
    [][\A q \in Queries : row[q].status \in Outcomes => row'[q].status \in Outcomes]_vars

\* While a query is active, the execution shown with the request has its status:
\* no writer of an outcome reaches the execution before the query is closed.
ExecutionFollowsQuery ==
    \A q \in Queries : row[q].status \in Active => execution[q] = row[q].status

\* A user is never locked out of a session by an abandoned query: every active
\* query is closed, although pushes are lost and workers throw, time out, die or hang.
QueriesSettle ==
    \A q \in Queries : row[q].status \in Active ~> row[q].status \in Outcomes

\* When the access window has elapsed, the session is ended and its request leaves
\* Running, also where the request was cancelled meanwhile (ExpireQuerySessions).  It is
\* stated without the fault "command": an expiry run that dies after it saved ended_at is
\* not made up for, since no later run selects that session again.
ExpiredAccessEnds ==
    session = "open" /\ expired ~> session = "ended" /\ request # "running"

====
