-------------------------- MODULE DatabaseMigration --------------------------
(***************************************************************************)
(* The migration of Crucible's own database to another one, and back: the  *)
(* manager that plans, copies, verifies, cuts over and rolls back, the     *)
(* maintenance fence, the processes that write, and the page from which an *)
(* administrator drives it.                                                *)
(*                                                                         *)
(* Source: resources/js/pages/settings/admin/application-database.tsx,     *)
(* ApplicationDatabaseMigrationController, and the services                *)
(* ApplicationDatabaseMigrationManager, ...Safety, ...Fence, ...Store and  *)
(* ApplicationDatabaseCopyEngine.                                          *)
(*                                                                         *)
(* A process knows the database it was started on and no other, so a new   *)
(* selection takes effect with a restart; every process restarts on its    *)
(* own, whenever its supervisor or its limit of requests makes it.  The    *)
(* process that runs an operation may die between two of its steps; the    *)
(* operation lock is a flock and goes with it, the plan, the fence and the *)
(* selection are files and stay.  The content of a table is the set of the *)
(* writes it holds.                                                        *)
(***************************************************************************)
EXTENDS Naturals, FiniteSets

CONSTANTS
    Databases,   \* the databases there are
    First,       \* the one in use at the start
    Tables,      \* the durable tables
    AuditTable,  \* audit_logs
    Web,         \* the Octane workers
    Background,  \* the Horizon workers and the scheduler
    Busy,        \* the processes among them with work of their own
    MaxPlans,    \* bound on the plans
    MaxWrites    \* bound on the writes

Runtimes == Web \cup Background

ASSUME MigrationAssumption ==
    /\ First \in Databases /\ AuditTable \in Tables
    /\ MaxPlans \in Nat /\ MaxWrites \in Nat
    /\ Busy \subseteq Runtimes

VARIABLES
    plans,      \* the plan files
    current,    \* the pointer to the current plan; 0 is none
    fence,      \* the plan that holds the maintenance fence; 0 is none
    paused,     \* whether the queues are paused
    selection,  \* the managed selection: the database the next start uses
    runtime,    \* the database each process was started on
    content,    \* what each table of each database holds
    prepared,   \* the databases that have the schema
    writes,     \* the number of writes so far
    late,       \* history: the writes made while the fence was up
    inflight,   \* the processes with work that was admitted and not yet written
    hasty,      \* history: a restart was declared complete before every process had restarted
    op,         \* the operation that holds the lock
    planView    \* what the page has loaded

migrationVars == <<plans, current, fence, paused, selection, runtime, content, prepared,
                   writes, late, inflight, hasty, op, planView>>

Plans == 1..MaxPlans

Terminal == {"active", "rolled_back", "cancelled"}

Pending == {"activation_pending_restart", "rollback_pending_restart"}

Statuses == {"planned", "copying", "copied", "verified", "failed"} \cup Pending \cup Terminal

Kinds == {"migrate", "verify", "activate", "finalize", "rollback", "finalize_rollback", "cancel"}

NoOp == [kind |-> "none", plan |-> 0, by |-> "none", db |-> First, step |-> "none", done |-> {}]

NoPlan == [status |-> "none", source |-> First, destination |-> First, tables |-> {}]

Empty == [t \in Tables |-> {}]

MigrationTypeOK ==
    /\ plans \in [Plans -> [status : Statuses \cup {"none"}, source : Databases,
                            destination : Databases, tables : SUBSET Tables]]
    /\ current \in 0..MaxPlans /\ fence \in 0..MaxPlans
    /\ paused \in BOOLEAN
    /\ selection \in Databases /\ runtime \in [Runtimes -> Databases]
    /\ content \in [Databases -> [Tables -> SUBSET (1..MaxWrites)]]
    /\ prepared \subseteq Databases
    /\ writes \in 0..MaxWrites /\ late \subseteq 1..MaxWrites
    /\ inflight \subseteq Runtimes /\ hasty \in BOOLEAN
    /\ op \in [kind : Kinds \cup {"none"}, plan : 0..MaxPlans, by : Web \cup {"console", "none"},
               db : Databases, done : SUBSET Tables,
               step : {"none", "checks", "engage", "drain", "mark", "reset", "copy", "release",
                       "select", "cancel", "clear"}]
    /\ planView \in [plan : 0..MaxPlans, status : Statuses \cup {"none"}, ready : BOOLEAN,
                     rollback : 0..MaxPlans]

-----------------------------------------------------------------------------
(* Writers                                                                 *)

\* One more write to a table, by a process on database d.
Written(d, t) ==
    /\ writes < MaxWrites
    /\ writes' = writes + 1
    /\ content' = [content EXCEPT ![d][t] = @ \cup {writes + 1}]
    /\ late' = IF fence # 0 THEN late \cup {writes + 1} ELSE late

\* A request passes the middleware; a job is queued or a scheduled command begins.
\* None of these does while the fence is up.
Admit(r) ==
    /\ fence = 0 /\ r \notin inflight
    /\ writes + Cardinality(inflight) < MaxWrites
    /\ inflight' = inflight \cup {r}
    /\ UNCHANGED <<plans, current, fence, paused, selection, runtime, content, prepared,
                   writes, late, hasty, op, planView>>

\* The admitted work writes, on the database its process was started on.
Write(r) ==
    /\ r \in inflight
    /\ inflight' = inflight \ {r}
    /\ \E t \in Tables : Written(runtime[r], t)
    /\ UNCHANGED <<plans, current, fence, paused, selection, runtime, prepared, hasty, op,
                   planView>>

\* A process restarts and loads the selection; what it was doing is lost.
Restart(r) ==
    /\ runtime' = [runtime EXCEPT ![r] = selection]
    /\ inflight' = inflight \ {r}
    /\ op' = IF op.by = r THEN NoOp ELSE op
    /\ UNCHANGED <<plans, current, fence, paused, selection, content, prepared, writes, late,
                   hasty, planView>>

-----------------------------------------------------------------------------
(* The page                                                                *)

\* The database a restart is waited for.
Expected(p) ==
    IF plans[p].status = "rollback_pending_restart" THEN plans[p].source ELSE plans[p].destination

\* The current plan is not terminal.
InProgress == current # 0 /\ plans[current].status \notin Terminal

\* The props of edit(), served by process w: the current plan while it is not terminal, and
\* the history, in which the current plan can be rolled back once it is active.
Loaded(w) ==
    IF InProgress
    THEN [plan |-> current, status |-> plans[current].status, rollback |-> 0,
          ready |-> plans[current].status \in Pending /\ runtime[w] = Expected(current)]
    ELSE [plan |-> 0, status |-> "none", ready |-> FALSE,
          rollback |-> IF current # 0 /\ plans[current].status = "active" THEN current ELSE 0]

\* MigrationActions: the form to copy, verify or cut over.
ActionOffered ==
    CASE planView.status \in {"planned", "copying", "failed"} -> {"migrate"}
      [] planView.status = "copied" -> {"verify"}
      [] planView.status = "verified" -> {"activate"}
      [] OTHER -> {}

\* CancelPlanAction.
CancelOffered == IF planView.status \in {"planned", "failed"} THEN {"cancel"} ELSE {}

\* RestartAction: disabled until the page has been served by a restarted process.
FinalizeOffered ==
    CASE planView.status = "activation_pending_restart" /\ planView.ready -> {"finalize"}
      [] planView.status = "rollback_pending_restart" /\ planView.ready -> {"finalize_rollback"}
      [] OTHER -> {}

\* MigrationHistory: the current plan can be rolled back.
RollbackOffered == {planView.rollback} \ {0}

\* What the page offers, and for which plan.
Offered ==
    {<<k, planView.plan>> : k \in ActionOffered \cup CancelOffered \cup FinalizeOffered}
    \cup {<<"rollback", p>> : p \in RollbackOffered}

\* The statuses that change without the page.
ShouldPollMigration == planView.status \in {"copying"} \cup Pending

\* The props are loaded by the poll of 3 s, by a visit, and by the redirect that answers
\* a form; when that answer is lost the page stays as it was.
PollMigration(w) ==
    /\ ShouldPollMigration
    /\ planView' = Loaded(w)
    /\ UNCHANGED <<plans, current, fence, paused, selection, runtime, content, prepared,
                   writes, late, inflight, hasty, op>>

VisitMigration(w) ==
    /\ planView' = Loaded(w)
    /\ UNCHANGED <<plans, current, fence, paused, selection, runtime, content, prepared,
                   writes, late, inflight, hasty, op>>

-----------------------------------------------------------------------------
(* Operations begin: under the lock, on the database of their process      *)

\* plan(), by a process on database s: the destination is another database and empty, no
\* plan is in progress.
Plan(s, d) ==
    /\ op = NoOp
    /\ ~InProgress
    /\ d # s /\ d \notin prepared
    /\ \E p \in Plans :
         /\ plans[p] = NoPlan /\ \A q \in 1..(p - 1) : plans[q] # NoPlan
         /\ plans' = [plans EXCEPT ![p] = [status |-> "planned", source |-> s,
                                           destination |-> d, tables |-> {}]]
         /\ current' = p
    /\ UNCHANGED <<fence, paused, selection, runtime, content, prepared, writes, late,
                   inflight, hasty, op, planView>>

\* From the page, served by process w, or with the command, in a process of its own.
PlanMigration(d) ==
    \/ planView.plan = 0 /\ \E w \in Web : Plan(runtime[w], d)
    \/ Plan(selection, d)

\* A form of the page is submitted, to process w.  The requests for a copy and for a
\* rollback are first written to the audit log, whatever the fence; the rows that are
\* written after an operation, the fence down again, are writes like any other.
Submit(w, k, p) ==
    /\ op = NoOp
    /\ op' = [NoOp EXCEPT !.kind = k, !.plan = p, !.by = w, !.db = runtime[w], !.step = "checks"]
    /\ IF k \in {"migrate", "rollback"} THEN Written(runtime[w], AuditTable)
                                        ELSE UNCHANGED <<content, writes, late>>
    /\ UNCHANGED <<plans, current, fence, paused, selection, runtime, prepared, inflight, hasty,
                   planView>>

ClickMigration(w) ==
    \E o \in Offered : Submit(w, o[1], o[2])

\* The artisan commands, each in a process of its own.
Command(k, p) ==
    /\ op = NoOp /\ plans[p] # NoPlan
    /\ op' = [NoOp EXCEPT !.kind = k, !.plan = p, !.by = "console", !.db = selection,
                          !.step = "checks"]
    /\ UNCHANGED <<plans, current, fence, paused, selection, runtime, content, prepared,
                   writes, late, inflight, hasty, planView>>

\* The operation ends where it is: the command is interrupted, the process is killed, or
\* what would tidy up fails too (a queue that cannot be resumed keeps the fence up).
OperationDies ==
    /\ op # NoOp
    /\ op' = NoOp
    /\ UNCHANGED <<plans, current, fence, paused, selection, runtime, content, prepared,
                   writes, late, inflight, hasty, planView>>

-----------------------------------------------------------------------------
(* The steps of an operation                                               *)

Subject == plans[op.plan]

SetStatus(s) == plans' = [plans EXCEPT ![op.plan].status = s]

\* The fence is up for the plan.
HoldsFence == fence = op.plan

At(step) == op.kind # "none" /\ op.step = step

\* Variant: the database of the process is not asked for.
FencedUntilDestination == HoldsFence /\ Subject.status = "activation_pending_restart"

\* The activation was prepared, and the process that finalizes it runs on the destination.
RestartedOnDestination ==
    HoldsFence /\ Subject.status = "activation_pending_restart" /\ op.db = Subject.destination

\* The conditions under which an operation goes on, and the step it goes to.
Accepted(k, step) ==
    CASE k = "migrate" ->
           /\ step = "engage"
           /\ Subject.status \in {"planned", "copying", "copied", "failed"}
           /\ op.db = Subject.source
      [] k = "activate" ->
           /\ step = "select"
           /\ HoldsFence /\ Subject.status \in {"verified", "activation_pending_restart"}
           /\ op.db = Subject.source
      [] k = "finalize" ->
           /\ step = "release"
           /\ \/ Subject.status = "active"
              \/ RestartedOnDestination
      [] k = "rollback" ->
           /\ op.db = Subject.destination
           /\ \/ step = "engage" /\ Subject.status = "active"
              \/ step = "select" /\ HoldsFence /\ Subject.status = "rollback_pending_restart"
      [] k = "finalize_rollback" ->
           /\ step = "release"
           /\ \/ Subject.status = "rolled_back"
              \/ Subject.status = "rollback_pending_restart" /\ op.db = Subject.source
      [] k = "cancel" ->
           /\ step = "cancel"
           /\ Subject.status \in {"planned", "failed"}
           /\ op.db = Subject.source /\ fence \in {0, op.plan}
      [] OTHER -> FALSE

\* A restart is declared complete while a process still runs on another database.
DeclaresHastily ==
    /\ op.kind \in {"finalize", "finalize_rollback"} /\ Subject.status \in Pending
    /\ \E r \in Runtimes : runtime[r] # op.db

\* What the decision writes before that step.
Proceed ==
    /\ At("checks")
    /\ \E step \in {"engage", "select", "release", "cancel"} :
         /\ Accepted(op.kind, step)
         /\ op' = [op EXCEPT !.step = step]
    /\ CASE op.kind = "activate" -> SetStatus("activation_pending_restart")
         [] op.kind = "finalize" -> SetStatus("active")
         [] op.kind = "finalize_rollback" -> SetStatus("rolled_back")
         [] OTHER -> UNCHANGED plans
    /\ fence' = IF op.kind = "cancel" THEN 0 ELSE fence
    /\ paused' = IF op.kind = "cancel" THEN FALSE ELSE paused
    /\ hasty' = (hasty \/ DeclaresHastily)
    /\ UNCHANGED <<current, selection, runtime, content, prepared, writes, late, inflight, planView>>

\* The operation is refused, or there is nothing left for it to do.
Refuse ==
    /\ At("checks")
    /\ op.kind # "verify"
    /\ \A step \in {"engage", "select", "release", "cancel"} : ~Accepted(op.kind, step)
    /\ op' = NoOp
    /\ UNCHANGED <<plans, current, fence, paused, selection, runtime, content, prepared,
                   writes, late, inflight, hasty, planView>>

\* The fence goes up, or another plan holds it.
Engage ==
    /\ At("engage")
    /\ IF fence \in {0, op.plan}
       THEN fence' = op.plan /\ op' = [op EXCEPT !.step = "drain"]
       ELSE op' = NoOp /\ UNCHANGED fence
    /\ UNCHANGED <<plans, current, paused, selection, runtime, content, prepared, writes, late,
                   inflight, hasty, planView>>

\* Scheduled work is waited for, the queues drain and are paused.  Requests to the
\* Octane workers that were admitted before are not waited for.
Drain ==
    /\ At("drain") /\ inflight \cap Background = {}
    /\ paused' = TRUE
    /\ op' = [op EXCEPT !.step = "mark"]
    /\ UNCHANGED <<plans, current, fence, selection, runtime, content, prepared, writes, late,
                   inflight, hasty, planView>>

\* The time is up, a session is active, or Redis does not answer.
DrainFails ==
    /\ At("drain")
    /\ paused' = FALSE /\ fence' = 0
    /\ op' = NoOp
    /\ UNCHANGED <<plans, current, selection, runtime, content, prepared, writes, late,
                   inflight, hasty, planView>>

\* The copy is marked as begun.  One that had failed or was complete starts again from
\* nothing, an interrupted one from the tables the plan has on record; a rollback
\* always starts again, and its plan stays active meanwhile.
MarkCopying ==
    /\ At("mark")
    /\ IF op.kind = "migrate"
       THEN /\ SetStatus("copying")
            /\ op' = IF Subject.status \in {"copied", "failed"}
                     THEN [op EXCEPT !.step = "reset"]
                     ELSE [op EXCEPT !.step = "copy", !.done = Subject.tables]
            /\ prepared' = prepared \cup {Subject.destination}
       ELSE /\ op' = [op EXCEPT !.step = "reset"]
            /\ UNCHANGED <<plans, prepared>>
    /\ UNCHANGED <<current, fence, paused, selection, runtime, content, writes, late, inflight, hasty, planView>>

CopyFrom == IF op.kind = "migrate" THEN Subject.source ELSE Subject.destination

CopyTo == IF op.kind = "migrate" THEN Subject.destination ELSE Subject.source

ResetDestination ==
    /\ At("reset")
    /\ content' = [content EXCEPT ![CopyTo] = Empty]
    /\ op' = [op EXCEPT !.step = "copy"]
    /\ UNCHANGED <<plans, current, fence, paused, selection, runtime, prepared, writes, late,
                   inflight, hasty, planView>>

\* copyTable, and the progress recorded in the plan.
CopyTable(t) ==
    /\ At("copy") /\ t \notin op.done
    /\ content' = [content EXCEPT ![CopyTo][t] = content[CopyFrom][t]]
    /\ op' = [op EXCEPT !.done = @ \cup {t}]
    /\ plans' = IF op.kind = "migrate" THEN [plans EXCEPT ![op.plan].tables = @ \cup {t}] ELSE plans
    /\ UNCHANGED <<current, fence, paused, selection, runtime, prepared, writes, late, inflight, hasty, planView>>

\* verify() of the copy engine.  It also refuses when both sides have changed alike since the
\* copy, which is left out.
TablesMatch(p) == \A t \in Tables : content[plans[p].source][t] = content[plans[p].destination][t]

\* All tables are copied.  The copy of a rollback is verified at once.
FinishCopy ==
    /\ At("copy") /\ op.done = Tables
    /\ IF op.kind = "migrate"
       THEN SetStatus("copied") /\ op' = NoOp
       ELSE /\ TablesMatch(op.plan)
            /\ SetStatus("rollback_pending_restart")
            /\ op' = [op EXCEPT !.step = "select"]
    /\ UNCHANGED <<current, fence, paused, selection, runtime, content, prepared, writes, late,
                   inflight, hasty, planView>>

\* The copy fails.
CopyFails ==
    /\ op.step \in {"reset", "copy"}
    /\ IF op.kind = "migrate" THEN SetStatus("failed") ELSE UNCHANGED plans
    /\ op' = [op EXCEPT !.step = "release"]
    /\ UNCHANGED <<current, fence, paused, selection, runtime, content, prepared, writes, late,
                   inflight, hasty, planView>>

\* Variant: verification trusts the tables the plan has on record.
VerifyRecorded ==
    /\ At("checks") /\ op.kind = "verify"
    /\ op' = NoOp
    /\ IF Subject.status \in {"copied", "verified"} /\ HoldsFence /\ Subject.tables = Tables
       THEN SetStatus("verified") ELSE UNCHANGED plans
    /\ UNCHANGED <<current, fence, paused, selection, runtime, content, prepared, writes, late,
                   inflight, hasty, planView>>

\* verify(): the tables of a complete copy are compared, behind the fence.
Verify ==
    /\ At("checks") /\ op.kind = "verify"
    /\ op' = NoOp
    /\ IF Subject.status \in {"copied", "verified"} /\ HoldsFence /\ TablesMatch(op.plan)
       THEN SetStatus("verified") ELSE UNCHANGED plans
    /\ UNCHANGED <<current, fence, paused, selection, runtime, content, prepared, writes, late,
                   inflight, hasty, planView>>

\* writeActiveConfiguration.
Select ==
    /\ At("select")
    /\ selection' = IF op.kind = "activate" THEN Subject.destination ELSE Subject.source
    /\ op' = NoOp
    /\ UNCHANGED <<plans, current, fence, paused, runtime, content, prepared, writes, late,
                   inflight, hasty, planView>>

\* safety->release: the queues run again, the fence comes down; not that of another plan.
Release ==
    /\ At("release")
    /\ IF fence \in {0, op.plan} THEN fence' = 0 /\ paused' = FALSE ELSE UNCHANGED <<fence, paused>>
    /\ op' = NoOp
    /\ UNCHANGED <<plans, current, selection, runtime, content, prepared, writes, late,
                   inflight, hasty, planView>>

\* The rest of cancel(): the status, then the pointer.
CancelPlan ==
    /\ \/ /\ At("cancel")
          /\ SetStatus("cancelled")
          /\ op' = [op EXCEPT !.step = "clear"]
          /\ UNCHANGED current
       \/ /\ At("clear")
          /\ current' = IF current = op.plan THEN 0 ELSE current
          /\ op' = NoOp
          /\ UNCHANGED plans
    /\ UNCHANGED <<fence, paused, selection, runtime, content, prepared, writes, late, inflight, hasty, planView>>

-----------------------------------------------------------------------------
MigrationInit ==
    /\ plans = [p \in Plans |-> NoPlan] /\ current = 0
    /\ fence = 0 /\ paused = FALSE
    /\ selection = First /\ runtime = [r \in Runtimes |-> First] /\ hasty = FALSE
    /\ content = [d \in Databases |-> Empty] /\ prepared = {First}
    /\ writes = 0 /\ late = {} /\ inflight = {}
    /\ op = NoOp
    /\ planView = [plan |-> 0, status |-> "none", ready |-> FALSE, rollback |-> 0]

OperationNext ==
    \/ Proceed \/ Refuse \/ Engage \/ Drain \/ DrainFails
    \/ MarkCopying \/ ResetDestination \/ FinishCopy \/ CopyFails
    \/ \E t \in Tables : CopyTable(t)
    \/ Verify \/ Select \/ Release \/ CancelPlan

MigrationNext ==
    \/ \E r \in Busy : Admit(r) \/ Write(r)
    \/ \E r \in Runtimes : Restart(r)
    \/ \E w \in Web : PollMigration(w) \/ VisitMigration(w) \/ ClickMigration(w)
    \/ \E d \in Databases : PlanMigration(d)
    \/ \E k \in Kinds \ {"cancel"}, p \in Plans : Command(k, p)
    \/ OperationDies
    \/ OperationNext

-----------------------------------------------------------------------------
(* Properties                                                              *)

\* From verification to the restart, the database about to be used holds what the one
\* in use holds, whatever was interrupted, resumed or retried before: the only writes
\* that can differ are those made while the fence was up.
CutoverLosesNothing ==
    \A p \in Plans :
        plans[p].status \in {"verified"} \cup Pending =>
            \A t \in Tables : content[plans[p].source][t] \ late
                              = content[plans[p].destination][t] \ late

\* A plan that leads to database d, other than p, was rolled back too: an operator names any
\* plan in a command, and the pointer to the current one stays where it is.
RolledBackFurther(p, d) ==
    \E q \in Plans \ {p} : plans[q].status = "rolled_back" /\ plans[q].destination = d

\* As long as no restart is declared complete too early, the application is open for work
\* only while every process runs on the selected database, and that is the one the history
\* gives as in use: the fence stays up from the change of the selection to the restart,
\* through crashes in between, whichever processes restart by themselves and when.  (The
\* manager asks for the database of the process that finalizes, not of the others.)
OneDatabaseInUse ==
    fence = 0 /\ ~hasty =>
        /\ \A r \in Runtimes : runtime[r] = selection
        /\ \A p \in Plans :
             /\ current = p /\ plans[p].status = "active" => selection = plans[p].destination
             /\ current = p /\ plans[p].status = "rolled_back" =>
                   selection = plans[p].source \/ RolledBackFurther(p, plans[p].source)

\* A copy that ends has left in the destination what the source holds, so that it can be
\* verified, where nothing but the page writes; also one that was interrupted and resumed:
\* docs/reference/statuses.md says of a plan that is copying that "an interrupted copy
\* can resume".
ResumedCopyVerifies ==
    [][\A p \in Plans :
         plans[p].status = "copying" /\ plans'[p].status = "copied" => TablesMatch(p)']_migrationVars

=============================================================================
