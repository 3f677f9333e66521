--------------------------- MODULE MigrationSafety ---------------------------
(***************************************************************************)
(* What holds of DatabaseMigration for any number of databases, tables,    *)
(* plans and writes.                                                       *)
(*                                                                         *)
(* The fence is the argument: an operation that has engaged it holds it    *)
(* until its last step, and a plan that is verified or waits for a restart *)
(* holds it across operations, crashes and restarts.  What the steps of an *)
(* operation may assume of its plan (OperationInv) is what keeps another   *)
(* operation from taking the fence down in between.                        *)
(***************************************************************************)
EXTENDS DatabaseMigration, TLAPS

-----------------------------------------------------------------------------
(* The fence                                                               *)

Fenced == {"verified"} \cup Pending

\* What each step of an operation may rely on: the fence is up for its plan from the drain
\* to the selection, and the status of the plan is the one the step before left.
OperationInv ==
    /\ op.kind = "none" => op = NoOp
    /\ op.kind # "none" =>
         LET s == plans[op.plan].status
         IN  /\ op.plan \in Plans /\ s # "none" /\ op.step # "none"
             /\ op.step \in {"engage", "drain", "mark"} =>
                   \/ op.kind = "migrate" /\ s \in {"planned", "copying", "copied", "failed"}
                   \/ op.kind = "rollback" /\ s = "active"
             /\ op.step \in {"reset", "copy"} =>
                   \/ op.kind = "migrate" /\ s = "copying"
                   \/ op.kind = "rollback" /\ s = "active"
             /\ op.step = "select" =>
                   \/ op.kind = "activate" /\ s = "activation_pending_restart"
                   \/ op.kind = "rollback" /\ s = "rollback_pending_restart"
             /\ op.step = "release" => s \in {"active", "rolled_back", "failed"}
             /\ op.step = "cancel" => s \in {"planned", "failed"}
             /\ op.step = "clear" => s = "cancelled"
             /\ op.step \in {"drain", "mark", "reset", "copy", "select"} => fence = op.plan

\* A plan that the page shows, and the current one, is one there is.
ViewInv ==
    /\ \A p \in Plans : plans[p].status = "none" => plans[p] = NoPlan
    /\ planView.status # "none" => planView.plan \in Plans /\ plans[planView.plan].status # "none"
    /\ planView.rollback # 0 => plans[planView.rollback].status # "none"
    /\ current # 0 => plans[current].status # "none"

\* A plan that is verified or waits for a restart holds the fence.
FenceInv == \A p \in Plans : plans[p].status \in Fenced => fence = p

MigrationInv ==
    MigrationTypeOK /\ OperationInv /\ ViewInv /\ FenceInv /\ CutoverLosesNothing

-----------------------------------------------------------------------------
(* The database in use                                                     *)

\* Every process runs on the selected database.
Settled == \A r \in Runtimes : runtime[r] = selection

\* The statuses of plans whose destination has been written.
Marked == Statuses \ {"planned", "cancelled"}

\* The database an operation runs on is the one its process was started on.
OperationDatabase ==
    op.kind # "none" =>
        /\ \/ op.by \in Web /\ op.db = runtime[op.by]
           \/ op.by = "console" /\ op.db = selection
        /\ op.kind = "rollback" /\ op.step \in {"engage", "drain", "mark", "reset", "copy"} =>
              op.db = plans[op.plan].destination

\* Plans are made one after the other, for destinations that were empty.
PlanInv ==
    /\ \A p \in Plans :
         /\ plans[p].status # "none" => plans[p].source # plans[p].destination
         /\ plans[p].status = "planned" => plans[p].destination \notin prepared
         /\ plans[p].status \in Marked => plans[p].destination \in prepared
         /\ p # current => plans[p].status \in Terminal \cup {"none", "rollback_pending_restart"}
    /\ \A p, q \in Plans :
         p # q /\ plans[p].status \in Marked /\ plans[q].status \in Marked =>
             plans[p].destination # plans[q].destination

\* No plan waits for a restart.
NoneWaits == \A p \in Plans : plans[p].status \notin Pending

\* The selection, and every process, is on database f or g; a process is on g only once
\* g is selected.
Between(f, g) ==
    /\ selection \in {f, g}
    /\ \A r \in Runtimes : runtime[r] \in {f, g} /\ (runtime[r] = g => selection = g)

\* The processes and the selection differ only while a plan waits for a restart.
RestartInv ==
    /\ NoneWaits => Settled
    /\ \A p \in Plans :
         /\ plans[p].status = "activation_pending_restart" =>
               Between(plans[p].source, plans[p].destination)
         /\ plans[p].status = "rollback_pending_restart" =>
               Between(plans[p].destination, plans[p].source)

\* What the history says of the current plan.  One that is active or rolled back is what is
\* in use, until the rollback of an earlier plan goes further back.
HistoryInv ==
    current # 0 =>
        /\ plans[current].status = "active" =>
              selection = plans[current].destination /\ NoneWaits
        /\ plans[current].status = "rolled_back" =>
              \/ selection = plans[current].source /\ NoneWaits
              \/ \E q \in Plans \ {current} :
                    /\ plans[q].status \in {"rollback_pending_restart", "rolled_back"}
                    /\ plans[q].destination = plans[current].source

\* The last two hold as long as no restart is declared complete too early.
UseInv == OperationDatabase /\ PlanInv /\ (~hasty => RestartInv /\ HistoryInv)

-----------------------------------------------------------------------------
(* What the steps write                                                    *)

PlanRecord == [status : Statuses \cup {"none"}, source : Databases,
               destination : Databases, tables : SUBSET Tables]

OpSteps == {"none", "checks", "engage", "drain", "mark", "reset", "copy", "release",
            "select", "cancel", "clear"}

Op == [kind : Kinds \cup {"none"}, plan : 0..MaxPlans, by : Web \cup {"console", "none"},
       db : Databases, done : SUBSET Tables, step : OpSteps]

\* A status is set: the plan keeps its databases, the other plans are left alone.
LEMMA StatusSet ==
    ASSUME plans \in [Plans -> PlanRecord], op.plan \in Plans,
           NEW s \in Statuses, SetStatus(s)
    PROVE  /\ plans' \in [Plans -> PlanRecord]
           /\ \A p \in Plans :
                /\ plans'[p].source = plans[p].source
                /\ plans'[p].destination = plans[p].destination
                /\ plans'[p].tables = plans[p].tables
                /\ p # op.plan => plans'[p] = plans[p]
           /\ plans'[op.plan].status = s
<1>1. plans' = [plans EXCEPT ![op.plan] = [plans[op.plan] EXCEPT !.status = s]]
  BY Zenon DEF SetStatus
<1>2. plans[op.plan] \in PlanRecord
  OBVIOUS
<1>3. PICK z : z = [plans[op.plan] EXCEPT !.status = s]
  BY Zenon
<1>4. /\ z \in PlanRecord
      /\ z.source = plans[op.plan].source /\ z.destination = plans[op.plan].destination
      /\ z.tables = plans[op.plan].tables /\ z.status = s
  BY <1>2, <1>3 DEF PlanRecord
<1>5. plans' = [plans EXCEPT ![op.plan] = z]
  BY <1>1, <1>3, Zenon
<1>6. /\ plans' \in [Plans -> PlanRecord]
      /\ plans'[op.plan] = z
      /\ \A p \in Plans : p # op.plan => plans'[p] = plans[p]
  BY <1>4, <1>5, Zenon
<1>. QED  BY <1>4, <1>6, Zenon

\* The progress of a copy is recorded: nothing else of the plans changes.
LEMMA TableRecorded ==
    ASSUME plans \in [Plans -> PlanRecord], op.plan \in Plans, NEW t \in Tables, CopyTable(t)
    PROVE  \A p \in Plans :
             /\ plans'[p].source = plans[p].source
             /\ plans'[p].destination = plans[p].destination
             /\ plans'[p].status = plans[p].status
             /\ p # op.plan => plans'[p] = plans[p]
<1>1. PICK z : z = [plans[op.plan] EXCEPT !.tables = @ \cup {t}]
  BY Zenon
<1>2. plans' = [plans EXCEPT ![op.plan] = z] \/ plans' = plans
  BY <1>1, Zenon DEF CopyTable
<1>3. plans[op.plan] \in PlanRecord
  OBVIOUS
<1>4. /\ z.source = plans[op.plan].source /\ z.destination = plans[op.plan].destination
      /\ z.status = plans[op.plan].status
  BY <1>1, <1>3 DEF PlanRecord
<1>. QED  BY <1>2, <1>4, Zenon

\* An operation goes on to another step.
LEMMA StepTaken ==
    ASSUME op \in Op, NEW s \in OpSteps, op' = [op EXCEPT !.step = s]
    PROVE  /\ op' \in Op
           /\ op'.kind = op.kind /\ op'.plan = op.plan /\ op'.by = op.by
           /\ op'.db = op.db /\ op'.done = op.done /\ op'.step = s
BY DEF Op

\* Nothing runs.
LEMMA NoOpIs ==
    /\ NoOp \in Op
    /\ NoOp.kind = "none" /\ NoOp.step = "none"
BY MigrationAssumption DEF NoOp, Op, OpSteps

\* A write adds its number to one table, and is late when the fence is up.
LEMMA WriteAdds ==
    ASSUME MigrationTypeOK, NEW d \in Databases, NEW t \in Tables, Written(d, t)
    PROVE  /\ writes' \in 0..MaxWrites
           /\ late' \subseteq 1..MaxWrites
           /\ content' \in [Databases -> [Tables -> SUBSET (1..MaxWrites)]]
           /\ fence # 0 =>
                 \A e \in Databases, u \in Tables : content'[e][u] \ late' = content[e][u] \ late'
           /\ fence # 0 => late \subseteq late'
<1>1. writes + 1 \in 1..MaxWrites /\ writes' = writes + 1
  BY MigrationAssumption DEF MigrationTypeOK, Written
<1>2. PICK w : w = writes + 1
  BY Zenon
<1>3. /\ content \in [Databases -> [Tables -> SUBSET (1..MaxWrites)]]
      /\ late \subseteq 1..MaxWrites
  BY Zenon DEF MigrationTypeOK
<1>4. content' = [content EXCEPT ![d] = [content[d] EXCEPT ![t] = @ \cup {w}]]
  BY <1>2, Zenon DEF Written
<1>5. late' = IF fence # 0 THEN late \cup {w} ELSE late
  BY <1>2, Zenon DEF Written
<1>6. w \in 1..MaxWrites
  BY <1>1, <1>2
<1>7. PICK row : row = [content[d] EXCEPT ![t] = @ \cup {w}]
  BY Zenon
<1>8. /\ row \in [Tables -> SUBSET (1..MaxWrites)]
      /\ row[t] = content[d][t] \cup {w}
      /\ \A u \in Tables \ {t} : row[u] = content[d][u]
  BY <1>3, <1>6, <1>7
<1>9. content' = [content EXCEPT ![d] = row]
  BY <1>4, <1>7, Zenon
<1>10. /\ content' \in [Databases -> [Tables -> SUBSET (1..MaxWrites)]]
       /\ content'[d] = row /\ \A e \in Databases \ {d} : content'[e] = content[e]
  BY <1>3, <1>8, <1>9
<1>11. ASSUME fence # 0, NEW e \in Databases, NEW u \in Tables
       PROVE  content'[e][u] \ late' = content[e][u] \ late'
  <2>1. w \in late'
    BY <1>5, <1>11
  <2>2. content'[e][u] = content[e][u] \cup {w} \/ content'[e][u] = content[e][u]
    BY <1>8, <1>10
  <2>. QED  BY <2>1, <2>2
<1>12. writes' \in 0..MaxWrites
  BY <1>1, MigrationAssumption
<1>. QED  BY <1>5, <1>3, <1>6, <1>10, <1>11, <1>12

\* What the decision leads to, operation by operation.
LEMMA ProceedCases ==
    ASSUME Proceed
    PROVE  \/ /\ op.kind = "migrate" /\ op' = [op EXCEPT !.step = "engage"]
              /\ Subject.status \in {"planned", "copying", "copied", "failed"}
              /\ op.db = Subject.source /\ plans' = plans /\ fence' = fence
           \/ /\ op.kind = "activate" /\ op' = [op EXCEPT !.step = "select"]
              /\ HoldsFence /\ Subject.status \in {"verified", "activation_pending_restart"}
              /\ op.db = Subject.source
              /\ SetStatus("activation_pending_restart") /\ fence' = fence
           \/ /\ op.kind = "finalize" /\ op' = [op EXCEPT !.step = "release"]
              /\ \/ Subject.status = "active"
                 \/ Subject.status = "activation_pending_restart" /\ op.db = Subject.destination
              /\ SetStatus("active") /\ fence' = fence
           \/ /\ op.kind = "rollback" /\ op' = [op EXCEPT !.step = "engage"]
              /\ Subject.status = "active" /\ op.db = Subject.destination
              /\ plans' = plans /\ fence' = fence
           \/ /\ op.kind = "rollback" /\ op' = [op EXCEPT !.step = "select"]
              /\ HoldsFence /\ Subject.status = "rollback_pending_restart"
              /\ op.db = Subject.destination /\ plans' = plans /\ fence' = fence
           \/ /\ op.kind = "finalize_rollback" /\ op' = [op EXCEPT !.step = "release"]
              /\ \/ Subject.status = "rolled_back"
                 \/ Subject.status = "rollback_pending_restart" /\ op.db = Subject.source
              /\ SetStatus("rolled_back") /\ fence' = fence
           \/ /\ op.kind = "cancel" /\ op' = [op EXCEPT !.step = "cancel"]
              /\ Subject.status \in {"planned", "failed"} /\ op.db = Subject.source
              /\ fence \in {0, op.plan} /\ plans' = plans /\ fence' = 0
<1>1. PICK step \in {"engage", "select", "release", "cancel"} :
        Accepted(op.kind, step) /\ op' = [op EXCEPT !.step = step]
  BY Zenon DEF Proceed
<1>2. CASE op.kind = "migrate"
  <2>1. /\ step = "engage" /\ Subject.status \in {"planned", "copying", "copied", "failed"}
        /\ op.db = Subject.source
    BY <1>1, <1>2 DEF Accepted
  <2>2. plans' = plans /\ fence' = fence
    BY <1>2 DEF Proceed
  <2>. QED  BY <1>1, <1>2, <2>1, <2>2, Zenon
<1>3. CASE op.kind = "activate"
  <2>1. /\ step = "select" /\ HoldsFence
        /\ Subject.status \in {"verified", "activation_pending_restart"}
        /\ op.db = Subject.source
    BY <1>1, <1>3 DEF Accepted
  <2>2. SetStatus("activation_pending_restart") /\ fence' = fence
    BY <1>3 DEF Proceed
  <2>. QED  BY <1>1, <1>3, <2>1, <2>2, Zenon
<1>4. CASE op.kind = "finalize"
  <2>1. /\ step = "release"
        /\ \/ Subject.status = "active"
           \/ Subject.status = "activation_pending_restart" /\ op.db = Subject.destination
    BY <1>1, <1>4 DEF Accepted, RestartedOnDestination
  <2>2. SetStatus("active") /\ fence' = fence
    BY <1>4 DEF Proceed
  <2>. QED  BY <1>1, <1>4, <2>1, <2>2, Zenon
<1>5. CASE op.kind = "rollback"
  <2>1. /\ op.db = Subject.destination
        /\ \/ step = "engage" /\ Subject.status = "active"
           \/ step = "select" /\ HoldsFence /\ Subject.status = "rollback_pending_restart"
    BY <1>1, <1>5 DEF Accepted
  <2>2. plans' = plans /\ fence' = fence
    BY <1>5 DEF Proceed
  <2>. QED  BY <1>1, <1>5, <2>1, <2>2, Zenon
<1>6. CASE op.kind = "finalize_rollback"
  <2>1. /\ step = "release"
        /\ \/ Subject.status = "rolled_back"
           \/ Subject.status = "rollback_pending_restart" /\ op.db = Subject.source
    BY <1>1, <1>6 DEF Accepted
  <2>2. SetStatus("rolled_back") /\ fence' = fence
    BY <1>6 DEF Proceed
  <2>. QED  BY <1>1, <1>6, <2>1, <2>2, Zenon
<1>7. CASE op.kind = "cancel"
  <2>1. /\ step = "cancel" /\ Subject.status \in {"planned", "failed"}
        /\ op.db = Subject.source /\ fence \in {0, op.plan}
    BY <1>1, <1>7 DEF Accepted
  <2>2. plans' = plans /\ fence' = 0
    BY <1>7 DEF Proceed
  <2>. QED  BY <1>1, <1>7, <2>1, <2>2, Zenon
<1>8. op.kind \in {"migrate", "activate", "finalize", "rollback", "finalize_rollback", "cancel"}
  BY <1>1 DEF Accepted
<1>. QED  BY <1>2, <1>3, <1>4, <1>5, <1>6, <1>7, <1>8

-----------------------------------------------------------------------------
(* The types                                                               *)

\* What the page loads has the type of what it shows.
LEMMA LoadedType ==
    ASSUME MigrationTypeOK, NEW w \in Web
    PROVE  Loaded(w) \in [plan : 0..MaxPlans, status : Statuses \cup {"none"}, ready : BOOLEAN,
                          rollback : 0..MaxPlans]
<1>1. 0 \in 0..MaxPlans /\ current \in 0..MaxPlans
  BY MigrationAssumption DEF MigrationTypeOK
<1>2. PICK b \in BOOLEAN :
        b = (plans[current].status \in Pending /\ runtime[w] = Expected(current))
  BY Zenon
<1>3. CASE InProgress
  <2>1. plans[current].status \in Statuses \cup {"none"}
    BY <1>1, <1>3, MigrationAssumption DEF MigrationTypeOK, InProgress, Plans
  <2>2. Loaded(w) = [plan |-> current, status |-> plans[current].status, rollback |-> 0, ready |-> b]
    BY <1>2, <1>3, Zenon DEF Loaded
  <2>. QED  BY <1>1, <1>2, <2>1, <2>2
<1>4. CASE ~InProgress
  <2>1. PICK p \in 0..MaxPlans :
          p = IF current # 0 /\ plans[current].status = "active" THEN current ELSE 0
    BY <1>1
  <2>2. Loaded(w) = [plan |-> 0, status |-> "none", ready |-> FALSE, rollback |-> p]
    BY <1>4, <2>1, Zenon DEF Loaded
  <2>. QED  BY <1>1, <2>1, <2>2
<1>. QED  BY <1>3, <1>4

\* The page offers its operations for plans there are.
LEMMA OfferedPlans ==
    ASSUME MigrationTypeOK, ViewInv, NEW o \in Offered
    PROVE  /\ o[1] \in Kinds /\ o[2] \in Plans
           /\ plans[o[2]].status # "none"
<1>1. CASE o \in {<<k, planView.plan>> : k \in ActionOffered \cup CancelOffered \cup FinalizeOffered}
  <2>1. PICK k \in ActionOffered \cup CancelOffered \cup FinalizeOffered : o = <<k, planView.plan>>
    BY <1>1, Zenon
  <2>2. k \in Kinds /\ planView.status # "none"
    BY <2>1 DEF ActionOffered, CancelOffered, FinalizeOffered, Kinds
  <2>. QED  BY <2>1, <2>2 DEF ViewInv
<1>2. CASE o \in {<<"rollback", p>> : p \in RollbackOffered}
  <2>1. PICK p \in RollbackOffered : o = <<"rollback", p>>
    BY <1>2, Zenon
  <2>2. p = planView.rollback /\ p # 0
    BY <2>1 DEF RollbackOffered
  <2>3. p \in Plans
    BY <2>2, MigrationAssumption DEF MigrationTypeOK, Plans
  <2>. QED  BY <2>1, <2>2, <2>3 DEF ViewInv, Kinds
<1>. QED  BY <1>1, <1>2, Zenon DEF Offered

\* An operation begins.
LEMMA OperationBegins ==
    ASSUME NEW k \in Kinds, NEW p \in Plans, NEW b \in Web \cup {"console"}, NEW d \in Databases,
           op' = [NoOp EXCEPT !.kind = k, !.plan = p, !.by = b, !.db = d, !.step = "checks"]
    PROVE  /\ op' \in Op
           /\ op'.kind = k /\ op'.plan = p /\ op'.by = b /\ op'.db = d /\ op'.step = "checks"
<1>1. PICK z : z = [NoOp EXCEPT !.kind = k, !.plan = p, !.by = b, !.db = d, !.step = "checks"]
  BY Zenon
<1>2. z = [kind |-> k, plan |-> p, by |-> b, db |-> d, step |-> "checks", done |-> {}]
  BY <1>1 DEF NoOp
<1>3. p \in 0..MaxPlans
  BY MigrationAssumption DEF Plans
<1>4. op' = z
  BY <1>1, Zenon
<1>. QED  BY <1>2, <1>3, <1>4 DEF Op, OpSteps

\* The type invariant in terms of the records above.
LEMMA MigrationTypes ==
    MigrationTypeOK <=>
        /\ plans \in [Plans -> PlanRecord]
        /\ current \in 0..MaxPlans /\ fence \in 0..MaxPlans
        /\ paused \in BOOLEAN
        /\ selection \in Databases /\ runtime \in [Runtimes -> Databases]
        /\ content \in [Databases -> [Tables -> SUBSET (1..MaxWrites)]]
        /\ prepared \subseteq Databases
        /\ writes \in 0..MaxWrites /\ late \subseteq 1..MaxWrites
        /\ inflight \subseteq Runtimes /\ hasty \in BOOLEAN
        /\ op \in Op
        /\ planView \in [plan : 0..MaxPlans, status : Statuses \cup {"none"}, ready : BOOLEAN,
                         rollback : 0..MaxPlans]
BY Zenon DEF MigrationTypeOK, PlanRecord, Op, OpSteps

\* A plan is made by a process on one of the databases.
LEMMA PlanSource ==
    ASSUME MigrationTypeOK, NEW d \in Databases, PlanMigration(d)
    PROVE  \E e \in Databases : Plan(e, d)
<1>1. \A w \in Web : runtime[w] \in Databases
  BY DEF MigrationTypeOK, Runtimes
<1>2. selection \in Databases
  BY DEF MigrationTypeOK
<1>. QED  BY <1>1, <1>2, Zenon DEF PlanMigration

\* The types are kept by the writers, the restarts and the page.
LEMMA OutsideTypes ==
    ASSUME MigrationTypeOK, ViewInv,
           \/ \E r \in Busy : Admit(r) \/ Write(r)
           \/ \E r \in Runtimes : Restart(r)
           \/ \E w \in Web : PollMigration(w) \/ VisitMigration(w) \/ ClickMigration(w)
           \/ \E d \in Databases : PlanMigration(d)
           \/ \E k \in Kinds \ {"cancel"}, p \in Plans : Command(k, p)
           \/ OperationDies
    PROVE  MigrationTypeOK'
<1>. USE DEF PlanRecord, Op, OpSteps
<1>1. ASSUME NEW r \in Busy, Admit(r)
      PROVE  MigrationTypeOK'
  <2>1. r \in Runtimes
    BY MigrationAssumption
  <2>. QED  BY <1>1, <2>1 DEF Admit, MigrationTypeOK
<1>2. ASSUME NEW r \in Busy, Write(r)
      PROVE  MigrationTypeOK'
  <2>1. PICK t \in Tables : Written(runtime[r], t)
    BY <1>2 DEF Write
  <2>2. runtime[r] \in Databases
    BY MigrationAssumption DEF MigrationTypeOK
  <2>3. /\ writes' \in 0..MaxWrites /\ late' \subseteq 1..MaxWrites
        /\ content' \in [Databases -> [Tables -> SUBSET (1..MaxWrites)]]
    BY <2>1, <2>2, WriteAdds
  <2>4. inflight' \subseteq Runtimes
    BY <1>2 DEF Write, MigrationTypeOK
  <2>. QED  BY <1>2, <2>3, <2>4 DEF Write, MigrationTypeOK
<1>3. ASSUME NEW r \in Runtimes, Restart(r)
      PROVE  MigrationTypeOK'
  <2>1. op' \in Op
    BY <1>3, NoOpIs, Zenon DEF Restart, MigrationTypeOK
  <2>2. runtime' \in [Runtimes -> Databases] /\ inflight' \subseteq Runtimes
    BY <1>3 DEF Restart, MigrationTypeOK
  <2>. QED  BY <1>3, <2>1, <2>2 DEF Restart, MigrationTypeOK
<1>4. ASSUME NEW w \in Web, PollMigration(w) \/ VisitMigration(w)
      PROVE  MigrationTypeOK'
  <2>1. planView' = Loaded(w)
    BY <1>4 DEF PollMigration, VisitMigration
  <2>2. UNCHANGED <<plans, current, fence, paused, selection, runtime, content, prepared,
                    writes, late, inflight, hasty, op>>
    BY <1>4 DEF PollMigration, VisitMigration
  <2>. QED  BY <2>1, <2>2, LoadedType DEF MigrationTypeOK
<1>5. ASSUME NEW d \in Databases, PlanMigration(d)
      PROVE  MigrationTypeOK'
  <2>0. PICK e \in Databases : Plan(e, d)
    BY <1>5, PlanSource
  <2>1. PICK p \in Plans :
          /\ plans' = [plans EXCEPT ![p] = [status |-> "planned", source |-> e,
                                            destination |-> d, tables |-> {}]]
          /\ current' = p
    BY <2>0 DEF Plan
  <2>2. [status |-> "planned", source |-> e, destination |-> d, tables |-> {}]
          \in PlanRecord
    BY DEF Statuses
  <2>3. plans' \in [Plans -> PlanRecord]
    BY <2>1, <2>2, Zenon DEF MigrationTypeOK
  <2>4. current' \in 0..MaxPlans
    BY <2>1, MigrationAssumption DEF Plans
  <2>. QED  BY <2>0, <2>3, <2>4 DEF Plan, MigrationTypeOK
<1>6. ASSUME NEW w \in Web, ClickMigration(w)
      PROVE  MigrationTypeOK'
  <2>1. PICK o \in Offered : Submit(w, o[1], o[2])
    BY <1>6 DEF ClickMigration
  <2>2. o[1] \in Kinds /\ o[2] \in Plans
    BY <2>1, OfferedPlans
  <2>3. runtime[w] \in Databases /\ AuditTable \in Tables
    BY MigrationAssumption DEF MigrationTypeOK, Runtimes
  <2>4. op' \in Op
    <3>. HIDE DEF Op
    <3>. QED  BY <2>1, <2>2, <2>3, OperationBegins, Zenon DEF Submit
  <2>5. \/ Written(runtime[w], AuditTable)
        \/ UNCHANGED <<content, writes, late>>
    BY <2>1, Zenon DEF Submit
  <2>6. /\ writes' \in 0..MaxWrites /\ late' \subseteq 1..MaxWrites
        /\ content' \in [Databases -> [Tables -> SUBSET (1..MaxWrites)]]
    <3>1. CASE Written(runtime[w], AuditTable)
      BY <2>3, <3>1, WriteAdds
    <3>2. CASE UNCHANGED <<content, writes, late>>
      BY <3>2 DEF MigrationTypeOK
    <3>. QED  BY <2>5, <3>1, <3>2
  <2>. QED  BY <2>1, <2>4, <2>6 DEF Submit, MigrationTypeOK
<1>7. ASSUME NEW k \in Kinds \ {"cancel"}, NEW p \in Plans, Command(k, p)
      PROVE  MigrationTypeOK'
  <2>1. selection \in Databases
    BY DEF MigrationTypeOK
  <2>2. op' \in Op
    <3>. HIDE DEF Op
    <3>. QED  BY <1>7, <2>1, OperationBegins, Zenon DEF Command
  <2>. QED  BY <1>7, <2>2 DEF Command, MigrationTypeOK
<1>8. ASSUME OperationDies
      PROVE  MigrationTypeOK'
  BY <1>8, NoOpIs DEF OperationDies, MigrationTypeOK
<1>. QED  BY <1>1, <1>2, <1>3, <1>4, <1>5, <1>6, <1>7, <1>8, Zenon

\* The operation that runs has a plan.
LEMMA OperationPlan ==
    ASSUME MigrationTypeOK, OperationInv, op.kind # "none"
    PROVE  op \in Op /\ op.plan \in Plans /\ plans \in [Plans -> PlanRecord]
BY MigrationTypes DEF OperationInv

\* The types are kept by the steps of an operation.
LEMMA OperationTypes ==
    ASSUME MigrationTypeOK, OperationInv, OperationNext
    PROVE  MigrationTypeOK'
<1>. USE DEF PlanRecord, Op, OpSteps
<1>1. op.kind # "none" => op.plan \in Plans
  BY DEF OperationInv
<1>2. ASSUME NEW s \in Statuses, op.kind # "none", SetStatus(s)
      PROVE  plans' \in [Plans -> PlanRecord]
  <2>. HIDE DEF PlanRecord
  <2>. QED  BY <1>1, <1>2, OperationPlan, StatusSet
<1>3. ASSUME NEW s \in OpSteps, op' = [op EXCEPT !.step = s]
      PROVE  op' \in Op
  <2>. HIDE DEF Op, OpSteps
  <2>1. op \in Op
    BY MigrationTypes
  <2>. QED  BY <1>3, <2>1, StepTaken
<1>4. ASSUME Proceed
      PROVE  MigrationTypeOK'
  <2>1. op' \in Op
    BY <1>3, <1>4 DEF Proceed
  <2>2. plans' \in [Plans -> PlanRecord]
    <3>1. \/ plans' = plans
          \/ SetStatus("activation_pending_restart") \/ SetStatus("active") \/ SetStatus("rolled_back")
      BY <1>4, ProceedCases, Zenon
    <3>2. op.kind # "none"
      BY <1>4 DEF Proceed, At
    <3>. QED  BY <1>2, <3>1, <3>2 DEF Statuses, Pending, Terminal, MigrationTypeOK
  <2>3. fence' \in 0..MaxPlans
    BY <1>4, MigrationAssumption DEF Proceed, MigrationTypeOK
  <2>4. paused' \in BOOLEAN
    BY <1>4, Zenon DEF Proceed, MigrationTypeOK
  <2>5. hasty' \in BOOLEAN
    BY <1>4, Zenon DEF Proceed, MigrationTypeOK
  <2>. QED  BY <1>4, <2>1, <2>2, <2>3, <2>4, <2>5 DEF Proceed, MigrationTypeOK
<1>5. ASSUME Refuse
      PROVE  MigrationTypeOK'
  BY <1>5, NoOpIs DEF Refuse, MigrationTypeOK
<1>6. ASSUME Engage
      PROVE  MigrationTypeOK'
  <2>1. fence' \in 0..MaxPlans
    BY <1>6 DEF Engage, MigrationTypeOK
  <2>2. op' \in Op
    BY <1>6, <1>3, NoOpIs DEF Engage
  <2>. QED  BY <1>6, <2>1, <2>2 DEF Engage, MigrationTypeOK
<1>7. ASSUME Drain
      PROVE  MigrationTypeOK'
  <2>1. op' \in Op
    BY <1>7, <1>3 DEF Drain
  <2>. QED  BY <1>7, <2>1 DEF Drain, MigrationTypeOK
<1>8. ASSUME DrainFails
      PROVE  MigrationTypeOK'
  <2>1. fence' \in 0..MaxPlans
    BY <1>8, MigrationAssumption DEF DrainFails
  <2>2. paused' \in BOOLEAN
    BY <1>8, Zenon DEF DrainFails
  <2>. QED  BY <1>8, <2>1, <2>2, NoOpIs DEF DrainFails, MigrationTypeOK
<1>9. ASSUME MarkCopying
      PROVE  MigrationTypeOK'
  <2>1. op.kind # "none"
    BY <1>9 DEF MarkCopying, At
  <2>2. Subject \in PlanRecord
    BY <1>1, <2>1 DEF Subject, MigrationTypeOK
  <2>3. plans' \in [Plans -> PlanRecord]
    BY <1>9, <1>2, <2>1 DEF MarkCopying, MigrationTypeOK, Statuses
  <2>4. prepared' \subseteq Databases
    BY <1>9, <2>2 DEF MarkCopying, MigrationTypeOK
  <2>5. op' \in Op
    <3>1. CASE op' = [op EXCEPT !.step = "copy", !.done = Subject.tables]
      BY <2>2, <3>1, Zenon DEF MigrationTypeOK
    <3>2. CASE op' = [op EXCEPT !.step = "reset"]
      BY <1>3, <3>2
    <3>. QED  BY <1>9, <3>1, <3>2, Zenon DEF MarkCopying
  <2>. QED  BY <1>9, <2>3, <2>4, <2>5 DEF MarkCopying, MigrationTypeOK
<1>10. ASSUME At("reset") \/ At("copy")
       PROVE  CopyTo \in Databases /\ CopyFrom \in Databases
  <2>1. Subject \in PlanRecord
    BY <1>1, <1>10 DEF At, Subject, MigrationTypeOK
  <2>. QED  BY <2>1 DEF CopyTo, CopyFrom
<1>11. ASSUME ResetDestination
       PROVE  MigrationTypeOK'
  <2>1. op' \in Op
    BY <1>11, <1>3 DEF ResetDestination
  <2>2. Empty \in [Tables -> SUBSET (1..MaxWrites)]
    BY DEF Empty
  <2>3. content' \in [Databases -> [Tables -> SUBSET (1..MaxWrites)]]
    BY <1>10, <1>11, <2>2 DEF ResetDestination, MigrationTypeOK
  <2>. QED  BY <1>11, <2>1, <2>3 DEF ResetDestination, MigrationTypeOK
<1>12. ASSUME NEW t \in Tables, CopyTable(t)
       PROVE  MigrationTypeOK'
  <2>1. At("copy")
    BY <1>12 DEF CopyTable
  <2>2. op' \in Op
    BY <1>12, Zenon DEF CopyTable, MigrationTypeOK
  <2>3. content' \in [Databases -> [Tables -> SUBSET (1..MaxWrites)]]
    BY <1>10, <1>12, <2>1 DEF CopyTable, MigrationTypeOK
  <2>4. plans' \in [Plans -> PlanRecord]
    <3>1. plans[op.plan] \in PlanRecord
      BY <1>1, <2>1 DEF At, MigrationTypeOK
    <3>2. PICK z : z = [plans[op.plan] EXCEPT !.tables = @ \cup {t}]
      BY Zenon
    <3>3. z \in PlanRecord
      BY <3>1, <3>2
    <3>4. plans' = [plans EXCEPT ![op.plan] = z] \/ plans' = plans
      BY <1>12, <3>2, Zenon DEF CopyTable
    <3>. QED  BY <3>3, <3>4 DEF MigrationTypeOK
  <2>. QED  BY <1>12, <2>2, <2>3, <2>4 DEF CopyTable, MigrationTypeOK
<1>13. ASSUME FinishCopy
       PROVE  MigrationTypeOK'
  <2>1. op' \in Op
    BY <1>13, <1>3, NoOpIs DEF FinishCopy
  <2>2. plans' \in [Plans -> PlanRecord]
    BY <1>13, <1>2 DEF FinishCopy, At, Statuses, Pending
  <2>. QED  BY <1>13, <2>1, <2>2 DEF FinishCopy, MigrationTypeOK
<1>14. ASSUME CopyFails
       PROVE  MigrationTypeOK'
  <2>1. op.kind # "none"
    BY <1>14, NoOpIs DEF CopyFails, OperationInv
  <2>2. op' \in Op
    BY <1>14, <1>3 DEF CopyFails
  <2>3. plans' \in [Plans -> PlanRecord]
    BY <1>14, <1>2, <2>1 DEF CopyFails, Statuses, MigrationTypeOK
  <2>. QED  BY <1>14, <2>2, <2>3 DEF CopyFails, MigrationTypeOK
<1>15. ASSUME Verify
       PROVE  MigrationTypeOK'
  <2>1. plans' \in [Plans -> PlanRecord]
    BY <1>15, <1>2 DEF Verify, At, Statuses, MigrationTypeOK
  <2>. QED  BY <1>15, <2>1, NoOpIs DEF Verify, MigrationTypeOK
<1>16. ASSUME Select
       PROVE  MigrationTypeOK'
  <2>1. Subject \in PlanRecord
    BY <1>1, <1>16 DEF Select, At, Subject, MigrationTypeOK
  <2>2. selection' \in Databases
    BY <1>16, <2>1 DEF Select
  <2>. QED  BY <1>16, <2>2, NoOpIs DEF Select, MigrationTypeOK
<1>17. ASSUME Release
       PROVE  MigrationTypeOK'
  <2>1. fence' \in 0..MaxPlans
    BY <1>17, MigrationAssumption DEF Release, MigrationTypeOK
  <2>2. paused' \in BOOLEAN
    BY <1>17, Zenon DEF Release, MigrationTypeOK
  <2>. QED  BY <1>17, <2>1, <2>2, NoOpIs DEF Release, MigrationTypeOK
<1>18. ASSUME CancelPlan
       PROVE  MigrationTypeOK'
  <2>1. op' \in Op
    BY <1>18, <1>3, NoOpIs DEF CancelPlan
  <2>2. plans' \in [Plans -> PlanRecord]
    BY <1>18, <1>2 DEF CancelPlan, At, Statuses, Terminal, MigrationTypeOK
  <2>3. current' \in 0..MaxPlans
    BY <1>18, MigrationAssumption DEF CancelPlan, MigrationTypeOK
  <2>. QED  BY <1>18, <2>1, <2>2, <2>3 DEF CancelPlan, MigrationTypeOK
<1>. QED  BY <1>4, <1>5, <1>6, <1>7, <1>8, <1>9, <1>11, <1>12, <1>13, <1>14, <1>15, <1>16,
             <1>17, <1>18, Zenon DEF OperationNext

-----------------------------------------------------------------------------
(* The fence and the operation under way                                   *)

\* What the page shows of plans there are stays true of them.
LEMMA ViewKept ==
    ASSUME MigrationTypeOK, ViewInv, planView' = planView, current' \in {current, 0},
           \A p \in Plans : plans'[p] = plans[p] \/ plans'[p].status # "none"
    PROVE  ViewInv'
<1>1. \A n \in 0..MaxPlans : n # 0 => n \in Plans
  BY MigrationAssumption DEF Plans
<1>2. planView.rollback \in 0..MaxPlans /\ current \in 0..MaxPlans
  BY DEF MigrationTypeOK
<1>. QED  BY <1>1, <1>2 DEF ViewInv

\* Where the plans and the fence stay, an operation may go on or end.
LEMMA FenceFrame ==
    ASSUME MigrationTypeOK, OperationInv, ViewInv, FenceInv,
           plans' = plans, fence' = fence, current' = current,
           op' \in {op, NoOp}, planView' = planView \/ \E w \in Web : planView' = Loaded(w)
    PROVE  OperationInv' /\ ViewInv' /\ FenceInv'
<1>1. OperationInv'
  BY NoOpIs DEF OperationInv
<1>2. FenceInv'
  BY DEF FenceInv
<1>3. CASE planView' = planView
  BY <1>1, <1>2, <1>3, ViewKept
<1>4. ASSUME NEW w \in Web, planView' = Loaded(w)
      PROVE  OperationInv' /\ ViewInv' /\ FenceInv'
  <2>1. CASE InProgress
    <3>1. planView'.plan = current /\ planView'.rollback = 0 /\ current # 0
      BY <1>4, <2>1 DEF Loaded, InProgress
    <3>2. current \in Plans
      BY <3>1, MigrationAssumption DEF MigrationTypeOK, Plans
    <3>. QED  BY <1>1, <1>2, <3>1, <3>2 DEF ViewInv
  <2>2. CASE ~InProgress
    <3>1. planView'.status = "none" /\ planView'.rollback \in {current, 0}
      BY <1>4, <2>2 DEF Loaded
    <3>. QED  BY <1>1, <1>2, <3>1 DEF ViewInv
  <2>. QED  BY <2>1, <2>2
<1>. QED  BY <1>3, <1>4

\* The writers, the restarts and the page leave the fence to the plan that holds it.
LEMMA OutsideFence ==
    ASSUME MigrationTypeOK, OperationInv, ViewInv, FenceInv,
           \/ \E r \in Busy : Admit(r) \/ Write(r)
           \/ \E r \in Runtimes : Restart(r)
           \/ \E w \in Web : PollMigration(w) \/ VisitMigration(w) \/ ClickMigration(w)
           \/ \E d \in Databases : PlanMigration(d)
           \/ \E k \in Kinds \ {"cancel"}, p \in Plans : Command(k, p)
           \/ OperationDies
    PROVE  OperationInv' /\ ViewInv' /\ FenceInv'
<1>1. ASSUME NEW r \in Busy, Admit(r) \/ Write(r)
      PROVE  OperationInv' /\ ViewInv' /\ FenceInv'
  <2>1. UNCHANGED <<plans, fence, current, op, planView>>
    BY <1>1 DEF Admit, Write
  <2>. QED  BY <2>1, FenceFrame
<1>2. ASSUME NEW r \in Runtimes, Restart(r)
      PROVE  OperationInv' /\ ViewInv' /\ FenceInv'
  <2>1. UNCHANGED <<plans, fence, current, planView>> /\ op' \in {op, NoOp}
    BY <1>2, Zenon DEF Restart
  <2>. QED  BY <2>1, FenceFrame
<1>3. ASSUME NEW w \in Web, PollMigration(w) \/ VisitMigration(w)
      PROVE  OperationInv' /\ ViewInv' /\ FenceInv'
  <2>1. UNCHANGED <<plans, fence, current, op>> /\ planView' = Loaded(w)
    BY <1>3 DEF PollMigration, VisitMigration
  <2>. QED  BY <2>1, FenceFrame
<1>4. ASSUME OperationDies
      PROVE  OperationInv' /\ ViewInv' /\ FenceInv'
  <2>1. UNCHANGED <<plans, fence, current, planView>> /\ op' = NoOp
    BY <1>4 DEF OperationDies
  <2>. QED  BY <2>1, FenceFrame
<1>5. ASSUME NEW d \in Databases, PlanMigration(d)
      PROVE  OperationInv' /\ ViewInv' /\ FenceInv'
  <2>0. PICK e \in Databases : Plan(e, d)
    BY <1>5, PlanSource
  <2>1. PICK p \in Plans :
          /\ plans' = [plans EXCEPT ![p] = [status |-> "planned", source |-> e,
                                            destination |-> d, tables |-> {}]]
          /\ current' = p
    BY <2>0 DEF Plan
  <2>2. plans \in [Plans -> PlanRecord]
    BY MigrationTypes
  <2>3. plans'[p].status = "planned" /\ \A q \in Plans : q # p => plans'[q] = plans[q]
    BY <2>1, <2>2
  <2>4. op = NoOp /\ op' = op /\ fence' = fence /\ planView' = planView
    BY <2>0 DEF Plan
  <2>5. OperationInv'
    BY <2>4, NoOpIs DEF OperationInv
  <2>6. FenceInv'
    BY <2>3, <2>4 DEF FenceInv, Fenced, Pending
  <2>7. planView.rollback # 0 => planView.rollback \in Plans
    BY MigrationAssumption DEF MigrationTypeOK, Plans
  <2>8. ViewInv'
    BY <2>1, <2>3, <2>4, <2>7 DEF ViewInv
  <2>. QED  BY <2>5, <2>6, <2>8
<1>6. ASSUME NEW k \in Kinds, NEW p \in Plans, NEW b \in Web \cup {"console"}, NEW d \in Databases,
             op' = [NoOp EXCEPT !.kind = k, !.plan = p, !.by = b, !.db = d, !.step = "checks"],
             plans[p].status # "none", UNCHANGED <<plans, current, fence, planView>>
      PROVE  OperationInv' /\ ViewInv' /\ FenceInv'
  <2>1. op'.kind = k /\ op'.plan = p /\ op'.step = "checks"
    BY <1>6, OperationBegins
  <2>2. k # "none"
    BY DEF Kinds
  <2>3. OperationInv'
    BY <1>6, <2>1, <2>2 DEF OperationInv
  <2>4. FenceInv' /\ ViewInv'
    BY <1>6 DEF FenceInv, ViewInv
  <2>. QED  BY <2>3, <2>4
<1>7. ASSUME NEW w \in Web, ClickMigration(w)
      PROVE  OperationInv' /\ ViewInv' /\ FenceInv'
  <2>1. PICK o \in Offered : Submit(w, o[1], o[2])
    BY <1>7 DEF ClickMigration
  <2>2. o[1] \in Kinds /\ o[2] \in Plans /\ plans[o[2]].status # "none"
    BY <2>1, OfferedPlans
  <2>3. runtime[w] \in Databases
    BY DEF MigrationTypeOK, Runtimes
  <2>4. UNCHANGED <<plans, current, fence, planView>>
    BY <2>1 DEF Submit
  <2>. QED  BY <1>6, <2>1, <2>2, <2>3, <2>4, Zenon DEF Submit
<1>8. ASSUME NEW k \in Kinds \ {"cancel"}, NEW p \in Plans, Command(k, p)
      PROVE  OperationInv' /\ ViewInv' /\ FenceInv'
  <2>1. selection \in Databases
    BY DEF MigrationTypeOK
  <2>2. plans[p] # NoPlan /\ UNCHANGED <<plans, current, fence, planView>>
    BY <1>8 DEF Command
  <2>3. plans[p].status # "none"
    BY <2>2 DEF ViewInv
  <2>. QED  BY <1>6, <1>8, <2>1, <2>2, <2>3, Zenon DEF Command
<1>. QED  BY <1>1, <1>2, <1>3, <1>4, <1>5, <1>7, <1>8, Zenon

\* A step that sets no status and shows no other plan.
LEMMA ViewStays ==
    ASSUME MigrationTypeOK, ViewInv, UNCHANGED <<plans, current, planView>>
    PROVE  ViewInv'
BY ViewKept

\* A step that sets a status shows plans there are.
LEMMA ViewOfStatus ==
    ASSUME MigrationTypeOK, OperationInv, ViewInv, op.kind # "none",
           NEW s \in Statuses, SetStatus(s), planView' = planView, current' \in {current, 0}
    PROVE  ViewInv'
<1>1. s # "none"
  BY DEF Statuses, Pending, Terminal
<1>2. \A p \in Plans : plans'[p] = plans[p] \/ plans'[p].status # "none"
  BY <1>1, OperationPlan, StatusSet
<1>. QED  BY <1>2, ViewKept

\* A step of an operation takes the fence down only for a plan that may do without it, and
\* leaves what the next step relies on.
LEMMA OperationFence ==
    ASSUME MigrationTypeOK, OperationInv, ViewInv, FenceInv, OperationNext
    PROVE  OperationInv' /\ ViewInv' /\ FenceInv'
<1>. DEFINE Kept == OperationInv' /\ ViewInv' /\ FenceInv'
<1>0. ASSUME op.kind # "none"
      PROVE  /\ op \in Op /\ op.plan \in Plans /\ op.plan # 0
             /\ plans \in [Plans -> PlanRecord]
             /\ op.step # "none" /\ plans[op.plan].status # "none"
  BY <1>0, OperationPlan DEF OperationInv, Plans
<1>1. ASSUME op.kind # "none", NEW s \in Statuses, SetStatus(s)
      PROVE  /\ plans'[op.plan].status = s
             /\ \A p \in Plans : p # op.plan => plans'[p] = plans[p]
  BY <1>0, <1>1, StatusSet
<1>2. ASSUME op.kind # "none", NEW s \in OpSteps, op' = [op EXCEPT !.step = s]
      PROVE  op'.kind = op.kind /\ op'.plan = op.plan /\ op'.step = s
  BY <1>0, <1>2, StepTaken
<1>3. ASSUME op' = NoOp
      PROVE  OperationInv'
  BY <1>3, NoOpIs DEF OperationInv
<1>4. ASSUME Proceed
      PROVE  Kept
  <2>1. op.kind # "none" /\ op.step = "checks"
    BY <1>4 DEF Proceed, At
  <2>2. planView' = planView /\ current' = current
    BY <1>4 DEF Proceed
  <2>3. ViewInv'
    <3>1. \/ plans' = plans
          \/ SetStatus("activation_pending_restart") \/ SetStatus("active") \/ SetStatus("rolled_back")
      BY <1>4, ProceedCases, Zenon
    <3>2. {"activation_pending_restart", "active", "rolled_back"} \subseteq Statuses
      BY DEF Statuses, Pending, Terminal
    <3>. QED  BY <2>1, <2>2, <3>1, <3>2, ViewStays, ViewOfStatus
  <2>4. CASE /\ op.kind = "migrate" /\ op' = [op EXCEPT !.step = "engage"]
             /\ Subject.status \in {"planned", "copying", "copied", "failed"}
             /\ plans' = plans /\ fence' = fence
    <3>1. op'.kind = "migrate" /\ op'.plan = op.plan /\ op'.step = "engage"
      BY <1>2, <2>1, <2>4 DEF OpSteps
    <3>2. OperationInv'
      BY <1>0, <2>1, <2>4, <3>1 DEF OperationInv, Subject
    <3>. QED  BY <2>3, <2>4, <3>2 DEF FenceInv
  <2>5. CASE /\ op.kind = "activate" /\ op' = [op EXCEPT !.step = "select"]
             /\ HoldsFence /\ Subject.status \in {"verified", "activation_pending_restart"}
             /\ SetStatus("activation_pending_restart") /\ fence' = fence
    <3>1. op'.kind = "activate" /\ op'.plan = op.plan /\ op'.step = "select"
      BY <1>2, <2>1, <2>5 DEF OpSteps
    <3>2. /\ plans'[op.plan].status = "activation_pending_restart"
          /\ \A p \in Plans : p # op.plan => plans'[p] = plans[p]
      BY <1>1, <2>1, <2>5 DEF Statuses, Pending
    <3>3. OperationInv'
      BY <1>0, <2>1, <2>5, <3>1, <3>2 DEF OperationInv, HoldsFence
    <3>4. FenceInv'
      BY <2>5, <3>2 DEF FenceInv, HoldsFence
    <3>. QED  BY <2>3, <3>3, <3>4
  <2>6. CASE /\ op.kind = "finalize" /\ op' = [op EXCEPT !.step = "release"]
             /\ SetStatus("active") /\ fence' = fence
    <3>1. op'.kind = "finalize" /\ op'.plan = op.plan /\ op'.step = "release"
      BY <1>2, <2>1, <2>6 DEF OpSteps
    <3>2. /\ plans'[op.plan].status = "active"
          /\ \A p \in Plans : p # op.plan => plans'[p] = plans[p]
      BY <1>1, <2>1, <2>6 DEF Statuses, Terminal
    <3>3. OperationInv'
      BY <1>0, <2>1, <3>1, <3>2 DEF OperationInv
    <3>4. FenceInv'
      BY <2>6, <3>2 DEF FenceInv, Fenced, Pending
    <3>. QED  BY <2>3, <3>3, <3>4
  <2>7. CASE /\ op.kind = "rollback" /\ op' = [op EXCEPT !.step = "engage"]
             /\ Subject.status = "active" /\ plans' = plans /\ fence' = fence
    <3>1. op'.kind = "rollback" /\ op'.plan = op.plan /\ op'.step = "engage"
      BY <1>2, <2>1, <2>7 DEF OpSteps
    <3>2. OperationInv'
      BY <1>0, <2>1, <2>7, <3>1 DEF OperationInv, Subject
    <3>. QED  BY <2>3, <2>7, <3>2 DEF FenceInv
  <2>8. CASE /\ op.kind = "rollback" /\ op' = [op EXCEPT !.step = "select"]
             /\ HoldsFence /\ Subject.status = "rollback_pending_restart"
             /\ plans' = plans /\ fence' = fence
    <3>1. op'.kind = "rollback" /\ op'.plan = op.plan /\ op'.step = "select"
      BY <1>2, <2>1, <2>8 DEF OpSteps
    <3>2. OperationInv'
      BY <1>0, <2>1, <2>8, <3>1 DEF OperationInv, Subject, HoldsFence
    <3>. QED  BY <2>3, <2>8, <3>2 DEF FenceInv
  <2>9. CASE /\ op.kind = "finalize_rollback" /\ op' = [op EXCEPT !.step = "release"]
             /\ SetStatus("rolled_back") /\ fence' = fence
    <3>1. op'.kind = "finalize_rollback" /\ op'.plan = op.plan /\ op'.step = "release"
      BY <1>2, <2>1, <2>9 DEF OpSteps
    <3>2. /\ plans'[op.plan].status = "rolled_back"
          /\ \A p \in Plans : p # op.plan => plans'[p] = plans[p]
      BY <1>1, <2>1, <2>9 DEF Statuses, Terminal
    <3>3. OperationInv'
      BY <1>0, <2>1, <3>1, <3>2 DEF OperationInv
    <3>4. FenceInv'
      BY <2>9, <3>2 DEF FenceInv, Fenced, Pending
    <3>. QED  BY <2>3, <3>3, <3>4
  <2>10. CASE /\ op.kind = "cancel" /\ op' = [op EXCEPT !.step = "cancel"]
              /\ Subject.status \in {"planned", "failed"}
              /\ fence \in {0, op.plan} /\ plans' = plans /\ fence' = 0
    <3>1. op'.kind = "cancel" /\ op'.plan = op.plan /\ op'.step = "cancel"
      BY <1>2, <2>1, <2>10 DEF OpSteps
    <3>2. OperationInv'
      BY <1>0, <2>1, <2>10, <3>1 DEF OperationInv, Subject
    <3>3. FenceInv'
      BY <1>0, <2>1, <2>10 DEF FenceInv, Fenced, Pending, Plans, Subject
    <3>. QED  BY <2>3, <3>2, <3>3
  <2>. QED  BY <1>4, <2>4, <2>5, <2>6, <2>7, <2>8, <2>9, <2>10, ProceedCases, Zenon
<1>5. ASSUME Refuse
      PROVE  Kept
  BY <1>5, FenceFrame DEF Refuse
<1>6. ASSUME Engage
      PROVE  Kept
  <2>1. op.kind # "none" /\ op.step = "engage" /\ UNCHANGED <<plans, current, planView>>
    BY <1>6 DEF Engage, At
  <2>2. CASE fence' = op.plan /\ fence \in {0, op.plan} /\ op' = [op EXCEPT !.step = "drain"]
    <3>1. op'.kind = op.kind /\ op'.plan = op.plan /\ op'.step = "drain"
      BY <1>2, <2>1, <2>2 DEF OpSteps
    <3>2. OperationInv'
      BY <1>0, <2>1, <2>2, <3>1 DEF OperationInv
    <3>3. FenceInv'
      BY <2>1, <2>2 DEF FenceInv, Plans
    <3>. QED  BY <2>1, <3>2, <3>3, ViewStays
  <2>3. CASE op' = NoOp /\ fence' = fence
    BY <2>1, <2>3, FenceFrame
  <2>. QED  BY <1>6, <2>2, <2>3, Zenon DEF Engage
<1>7. ASSUME Drain
      PROVE  Kept
  <2>1. /\ op.kind # "none" /\ op.step = "drain" /\ op' = [op EXCEPT !.step = "mark"]
        /\ UNCHANGED <<plans, current, fence, planView>>
    BY <1>7 DEF Drain, At
  <2>2. op'.kind = op.kind /\ op'.plan = op.plan /\ op'.step = "mark"
    BY <1>2, <2>1 DEF OpSteps
  <2>3. OperationInv'
    BY <1>0, <2>1, <2>2 DEF OperationInv
  <2>. QED  BY <2>1, <2>3, ViewStays DEF FenceInv
<1>8. ASSUME DrainFails
      PROVE  Kept
  <2>1. /\ op.kind # "none" /\ op.step = "drain" /\ op' = NoOp /\ fence' = 0
        /\ UNCHANGED <<plans, current, planView>>
    BY <1>8 DEF DrainFails, At
  <2>2. fence = op.plan /\ plans[op.plan].status \notin Fenced
    BY <2>1 DEF OperationInv, Fenced, Pending
  <2>3. FenceInv'
    BY <2>1, <2>2 DEF FenceInv
  <2>. QED  BY <1>3, <2>1, <2>3, ViewStays
<1>9. ASSUME MarkCopying
      PROVE  Kept
  <2>1. /\ op.kind # "none" /\ op.step = "mark" /\ UNCHANGED <<current, fence, planView>>
    BY <1>9 DEF MarkCopying, At
  <2>2. CASE op.kind = "migrate"
    <3>1. SetStatus("copying")
      BY <1>9, <2>2 DEF MarkCopying
    <3>2. /\ plans'[op.plan].status = "copying"
          /\ \A p \in Plans : p # op.plan => plans'[p] = plans[p]
      BY <1>1, <2>1, <3>1 DEF Statuses
    <3>3. op'.kind = op.kind /\ op'.plan = op.plan /\ op'.step \in {"copy", "reset"}
      <4>1. CASE op' = [op EXCEPT !.step = "copy", !.done = Subject.tables]
        BY <1>0, <2>1, <4>1 DEF Op
      <4>2. CASE op' = [op EXCEPT !.step = "reset"]
        BY <1>2, <2>1, <4>2 DEF OpSteps
      <4>. QED  BY <1>9, <2>2, <4>1, <4>2, Zenon DEF MarkCopying
    <3>4. OperationInv'
      BY <1>0, <2>1, <2>2, <3>2, <3>3 DEF OperationInv
    <3>5. FenceInv'
      BY <2>1, <3>2 DEF FenceInv, Fenced, Pending
    <3>. QED  BY <2>1, <3>1, <3>4, <3>5, ViewOfStatus DEF Statuses
  <2>3. CASE op.kind # "migrate"
    <3>1. op' = [op EXCEPT !.step = "reset"] /\ plans' = plans
      BY <1>9, <2>3 DEF MarkCopying
    <3>2. op'.kind = op.kind /\ op'.plan = op.plan /\ op'.step = "reset"
      BY <1>2, <2>1, <3>1 DEF OpSteps
    <3>3. OperationInv'
      BY <1>0, <2>1, <2>3, <3>1, <3>2 DEF OperationInv
    <3>. QED  BY <2>1, <3>1, <3>3, ViewStays DEF FenceInv
  <2>. QED  BY <2>2, <2>3
<1>10. ASSUME ResetDestination
       PROVE  Kept
  <2>1. /\ op.kind # "none" /\ op.step = "reset" /\ op' = [op EXCEPT !.step = "copy"]
        /\ UNCHANGED <<plans, current, fence, planView>>
    BY <1>10 DEF ResetDestination, At
  <2>2. op'.kind = op.kind /\ op'.plan = op.plan /\ op'.step = "copy"
    BY <1>2, <2>1 DEF OpSteps
  <2>3. OperationInv'
    BY <1>0, <2>1, <2>2 DEF OperationInv
  <2>. QED  BY <2>1, <2>3, ViewStays DEF FenceInv
<1>11. ASSUME NEW t \in Tables, CopyTable(t)
       PROVE  Kept
  <2>1. /\ op.kind # "none" /\ op.step = "copy" /\ UNCHANGED <<current, fence, planView>>
    BY <1>11 DEF CopyTable, At
  <2>2. op'.kind = op.kind /\ op'.plan = op.plan /\ op'.step = "copy"
    <3>1. op' = [op EXCEPT !.done = op.done \cup {t}]
      BY <1>11 DEF CopyTable
    <3>. QED  BY <1>0, <2>1, <3>1 DEF Op
  <2>3. /\ plans'[op.plan].status = plans[op.plan].status
        /\ \A p \in Plans : p # op.plan => plans'[p] = plans[p]
    BY <1>0, <1>11, <2>1, TableRecorded
  <2>4. OperationInv'
    BY <1>0, <2>1, <2>2, <2>3 DEF OperationInv
  <2>5. FenceInv'
    BY <2>1, <2>3 DEF FenceInv
  <2>6. ViewInv'
    BY <1>0, <2>1, <2>3, ViewKept
  <2>. QED  BY <2>4, <2>5, <2>6
<1>12. ASSUME FinishCopy
       PROVE  Kept
  <2>1. /\ op.kind # "none" /\ op.step = "copy" /\ UNCHANGED <<current, fence, planView>>
    BY <1>12 DEF FinishCopy, At
  <2>2. CASE op.kind = "migrate"
    <3>1. SetStatus("copied") /\ op' = NoOp
      BY <1>12, <2>2 DEF FinishCopy
    <3>2. /\ plans'[op.plan].status = "copied"
          /\ \A p \in Plans : p # op.plan => plans'[p] = plans[p]
      BY <1>1, <2>1, <3>1 DEF Statuses
    <3>3. FenceInv'
      BY <2>1, <3>2 DEF FenceInv, Fenced, Pending
    <3>. QED  BY <1>3, <2>1, <3>1, <3>3, ViewOfStatus DEF Statuses
  <2>3. CASE op.kind # "migrate"
    <3>1. SetStatus("rollback_pending_restart") /\ op' = [op EXCEPT !.step = "select"]
      BY <1>12, <2>3 DEF FinishCopy
    <3>2. /\ plans'[op.plan].status = "rollback_pending_restart"
          /\ \A p \in Plans : p # op.plan => plans'[p] = plans[p]
      BY <1>1, <2>1, <3>1 DEF Statuses, Pending
    <3>3. op'.kind = op.kind /\ op'.plan = op.plan /\ op'.step = "select"
      BY <1>2, <2>1, <3>1 DEF OpSteps
    <3>4. op.kind = "rollback" /\ fence = op.plan
      BY <2>1, <2>3 DEF OperationInv
    <3>5. OperationInv'
      BY <1>0, <2>1, <3>2, <3>3, <3>4 DEF OperationInv
    <3>6. FenceInv'
      BY <2>1, <3>2, <3>4 DEF FenceInv
    <3>. QED  BY <2>1, <3>1, <3>5, <3>6, ViewOfStatus DEF Statuses, Pending
  <2>. QED  BY <2>2, <2>3
<1>13. ASSUME CopyFails
       PROVE  Kept
  <2>1. op.kind # "none" /\ op.step \in {"reset", "copy"} /\ UNCHANGED <<current, fence, planView>>
    BY <1>13, NoOpIs DEF CopyFails, OperationInv
  <2>2. op'.kind = op.kind /\ op'.plan = op.plan /\ op'.step = "release"
    BY <1>2, <1>13, <2>1 DEF OpSteps, CopyFails
  <2>3. CASE op.kind = "migrate"
    <3>1. SetStatus("failed")
      BY <1>13, <2>3 DEF CopyFails
    <3>2. /\ plans'[op.plan].status = "failed"
          /\ \A p \in Plans : p # op.plan => plans'[p] = plans[p]
      BY <1>1, <2>1, <3>1 DEF Statuses
    <3>3. OperationInv'
      BY <1>0, <2>1, <2>2, <3>2 DEF OperationInv
    <3>4. FenceInv'
      BY <2>1, <3>2 DEF FenceInv, Fenced, Pending
    <3>. QED  BY <2>1, <3>1, <3>3, <3>4, ViewOfStatus DEF Statuses
  <2>4. CASE op.kind # "migrate"
    <3>1. plans' = plans
      BY <1>13, <2>4 DEF CopyFails
    <3>2. OperationInv'
      BY <1>0, <2>1, <2>2, <2>4, <3>1 DEF OperationInv
    <3>. QED  BY <2>1, <3>1, <3>2, ViewStays DEF FenceInv
  <2>. QED  BY <2>3, <2>4
<1>14. ASSUME Verify
       PROVE  Kept
  <2>1. op.kind # "none" /\ op' = NoOp /\ UNCHANGED <<current, fence, planView>>
    BY <1>14 DEF Verify, At
  <2>2. CASE HoldsFence /\ SetStatus("verified")
    <3>1. /\ plans'[op.plan].status = "verified"
          /\ \A p \in Plans : p # op.plan => plans'[p] = plans[p]
      BY <1>1, <2>1, <2>2 DEF Statuses
    <3>2. FenceInv'
      BY <2>1, <2>2, <3>1 DEF FenceInv, HoldsFence
    <3>. QED  BY <1>3, <2>1, <2>2, <3>2, ViewOfStatus DEF Statuses
  <2>3. CASE plans' = plans
    BY <2>1, <2>3, FenceFrame
  <2>. QED  BY <1>14, <2>2, <2>3, Zenon DEF Verify
<1>15. ASSUME Select
       PROVE  Kept
  BY <1>15, FenceFrame DEF Select
<1>16. ASSUME Release
       PROVE  Kept
  <2>1. /\ op.kind # "none" /\ op.step = "release" /\ op' = NoOp
        /\ UNCHANGED <<plans, current, planView>>
    BY <1>16 DEF Release, At
  <2>2. plans[op.plan].status \notin Fenced
    BY <2>1 DEF OperationInv, Fenced, Pending
  <2>3. fence' = fence \/ fence \in {0, op.plan}
    BY <1>16 DEF Release
  <2>4. FenceInv'
    BY <2>1, <2>2, <2>3 DEF FenceInv, Plans
  <2>. QED  BY <1>3, <2>1, <2>4, ViewStays
<1>17. ASSUME CancelPlan
       PROVE  Kept
  <2>1. op.kind # "none" /\ UNCHANGED <<fence, planView>>
    BY <1>17 DEF CancelPlan, At
  <2>2. CASE SetStatus("cancelled") /\ op' = [op EXCEPT !.step = "clear"] /\ current' = current
    <3>1. /\ plans'[op.plan].status = "cancelled"
          /\ \A p \in Plans : p # op.plan => plans'[p] = plans[p]
      BY <1>1, <2>1, <2>2 DEF Statuses, Terminal
    <3>2. op'.kind = op.kind /\ op'.plan = op.plan /\ op'.step = "clear"
      BY <1>2, <2>1, <2>2 DEF OpSteps
    <3>3. OperationInv'
      BY <1>0, <2>1, <3>1, <3>2 DEF OperationInv
    <3>4. FenceInv'
      BY <2>1, <3>1 DEF FenceInv, Fenced, Pending
    <3>. QED  BY <2>1, <2>2, <3>3, <3>4, ViewOfStatus DEF Statuses, Terminal
  <2>3. CASE plans' = plans /\ op' = NoOp /\ current' \in {current, 0}
    <3>1. ViewInv'
      BY <2>1, <2>3, ViewKept
    <3>. QED  BY <1>3, <2>1, <2>3, <3>1 DEF FenceInv
  <2>. QED  BY <1>17, <2>2, <2>3, Zenon DEF CancelPlan
<1>. QED  BY <1>4, <1>5, <1>6, <1>7, <1>8, <1>9, <1>10, <1>11, <1>12, <1>13, <1>14, <1>15,
             <1>16, <1>17, Zenon DEF OperationNext

-----------------------------------------------------------------------------
(* What a cutover keeps                                                    *)

\* Where no table changes, a plan keeps what it had or has just been compared.
LEMMA CutoverFrame ==
    ASSUME CutoverLosesNothing, content' = content, late' = late,
           \A p \in Plans :
               /\ plans'[p].source = plans[p].source
               /\ plans'[p].destination = plans[p].destination
               /\ plans'[p].status \in Fenced => plans[p].status \in Fenced \/ TablesMatch(p)
    PROVE  CutoverLosesNothing'
<1>. SUFFICES ASSUME NEW p \in Plans, plans'[p].status \in Fenced, NEW t \in Tables
              PROVE  content[plans[p].source][t] \ late = content[plans[p].destination][t] \ late
  BY DEF CutoverLosesNothing, Fenced
<1>1. CASE plans[p].status \in Fenced
  BY <1>1 DEF CutoverLosesNothing, Fenced
<1>2. CASE TablesMatch(p)
  BY <1>2 DEF TablesMatch
<1>. QED  BY <1>1, <1>2

\* A write while a plan is verified or waits for a restart comes when the fence is up.
LEMMA CutoverWrite ==
    ASSUME MigrationTypeOK, FenceInv, CutoverLosesNothing, plans' = plans,
           NEW d \in Databases, NEW t \in Tables, Written(d, t)
    PROVE  CutoverLosesNothing'
<1>. SUFFICES ASSUME NEW p \in Plans, plans[p].status \in Fenced, NEW u \in Tables
              PROVE  content'[plans[p].source][u] \ late' = content'[plans[p].destination][u] \ late'
  BY DEF CutoverLosesNothing, Fenced
<1>1. fence # 0
  BY DEF FenceInv, Plans
<1>2. plans[p].source \in Databases /\ plans[p].destination \in Databases
  BY DEF MigrationTypeOK
<1>3. content[plans[p].source][u] \ late = content[plans[p].destination][u] \ late
  BY DEF CutoverLosesNothing, Fenced
<1>4. /\ late \subseteq late'
      /\ content'[plans[p].source][u] \ late' = content[plans[p].source][u] \ late'
      /\ content'[plans[p].destination][u] \ late' = content[plans[p].destination][u] \ late'
  BY <1>1, <1>2, WriteAdds
<1>. QED  BY <1>3, <1>4

\* A copy runs behind its own plan's fence, so that no other plan is verified or waits.
LEMMA CutoverCopy ==
    ASSUME OperationInv, FenceInv, op.kind # "none", op.step \in {"reset", "copy"},
           \A p \in Plans : plans'[p].status = plans[p].status
    PROVE  CutoverLosesNothing'
<1>1. \A p \in Plans : plans'[p].status \notin Fenced
  BY DEF OperationInv, FenceInv, Fenced, Pending
<1>. QED  BY <1>1 DEF CutoverLosesNothing, Fenced

\* Every step keeps what a cutover relies on.
LEMMA CutoverStep ==
    ASSUME MigrationInv, MigrationNext
    PROVE  CutoverLosesNothing'
<1>. USE DEF MigrationInv
<1>1. ASSUME UNCHANGED <<plans, content, late>>
      PROVE  CutoverLosesNothing'
  BY <1>1, CutoverFrame
<1>2. ASSUME op.kind # "none", NEW s \in Statuses, SetStatus(s), UNCHANGED <<content, late>>,
             s \in Fenced => plans[op.plan].status \in Fenced \/ TablesMatch(op.plan)
      PROVE  CutoverLosesNothing'
  <2>1. /\ \A p \in Plans : /\ plans'[p].source = plans[p].source
                            /\ plans'[p].destination = plans[p].destination
                            /\ p # op.plan => plans'[p] = plans[p]
        /\ plans'[op.plan].status = s
    BY <1>2, OperationPlan, StatusSet
  <2>. QED  BY <1>2, <2>1, CutoverFrame
<1>3. ASSUME NEW r \in Busy, Admit(r) \/ Write(r)
      PROVE  CutoverLosesNothing'
  <2>1. CASE Admit(r)
    BY <1>1, <2>1 DEF Admit
  <2>2. CASE Write(r)
    <3>1. PICK t \in Tables : Written(runtime[r], t)
      BY <2>2 DEF Write
    <3>2. runtime[r] \in Databases /\ plans' = plans
      BY <2>2, MigrationAssumption DEF Write, MigrationTypeOK
    <3>. QED  BY <3>1, <3>2, CutoverWrite
  <2>. QED  BY <1>3, <2>1, <2>2
<1>4. ASSUME \/ \E r \in Runtimes : Restart(r)
             \/ \E w \in Web : PollMigration(w) \/ VisitMigration(w)
             \/ \E k \in Kinds \ {"cancel"}, p \in Plans : Command(k, p)
             \/ OperationDies
      PROVE  CutoverLosesNothing'
  <2>1. UNCHANGED <<plans, content, late>>
    BY <1>4, Zenon DEF Restart, PollMigration, VisitMigration, Command, OperationDies
  <2>. QED  BY <1>1, <2>1
<1>5. ASSUME NEW d \in Databases, PlanMigration(d)
      PROVE  CutoverLosesNothing'
  <2>0. PICK e \in Databases : Plan(e, d)
    BY <1>5, PlanSource
  <2>1. PICK p \in Plans :
          plans' = [plans EXCEPT ![p] = [status |-> "planned", source |-> e,
                                         destination |-> d, tables |-> {}]]
    BY <2>0 DEF Plan
  <2>2. plans \in [Plans -> PlanRecord]
    BY MigrationTypes
  <2>3. plans'[p].status = "planned" /\ \A q \in Plans : q # p => plans'[q] = plans[q]
    BY <2>1, <2>2
  <2>4. content' = content /\ late' = late
    BY <2>0 DEF Plan
  <2>. QED  BY <2>3, <2>4 DEF CutoverLosesNothing, Pending
<1>6. ASSUME NEW w \in Web, ClickMigration(w)
      PROVE  CutoverLosesNothing'
  <2>1. PICK o \in Offered : Submit(w, o[1], o[2])
    BY <1>6 DEF ClickMigration
  <2>2. plans' = plans /\ (Written(runtime[w], AuditTable) \/ UNCHANGED <<content, late>>)
    BY <2>1, Zenon DEF Submit
  <2>3. runtime[w] \in Databases /\ AuditTable \in Tables
    BY MigrationAssumption DEF MigrationTypeOK, Runtimes
  <2>. QED  BY <1>1, <2>2, <2>3, CutoverWrite
<1>7. ASSUME OperationNext
      PROVE  CutoverLosesNothing'
  <2>1. CASE Refuse \/ Engage \/ Drain \/ DrainFails \/ Select \/ Release
    <3>1. UNCHANGED <<plans, content, late>>
      BY <2>1, Zenon DEF Refuse, Engage, Drain, DrainFails, Select, Release
    <3>. QED  BY <1>1, <3>1
  <2>2. CASE Proceed
    <3>1. op.kind # "none" /\ UNCHANGED <<content, late>>
      BY <2>2 DEF Proceed, At
    <3>2. \/ plans' = plans
          \/ /\ SetStatus("activation_pending_restart")
             /\ plans[op.plan].status \in {"verified", "activation_pending_restart"}
          \/ SetStatus("active") \/ SetStatus("rolled_back")
      BY <2>2, ProceedCases, Zenon DEF Subject
    <3>3. CASE plans' = plans
      BY <1>1, <3>1, <3>3
    <3>4. CASE /\ SetStatus("activation_pending_restart")
               /\ plans[op.plan].status \in {"verified", "activation_pending_restart"}
      BY <1>2, <3>1, <3>4 DEF Fenced, Statuses, Pending
    <3>5. CASE SetStatus("active") \/ SetStatus("rolled_back")
      BY <1>2, <3>1, <3>5 DEF Fenced, Statuses, Pending, Terminal
    <3>. QED  BY <3>2, <3>3, <3>4, <3>5
  <2>3. CASE MarkCopying
    <3>1. op.kind # "none" /\ UNCHANGED <<content, late>> /\ (SetStatus("copying") \/ plans' = plans)
      BY <2>3, Zenon DEF MarkCopying, At
    <3>. QED  BY <1>1, <1>2, <3>1 DEF Fenced, Statuses, Pending
  <2>4. CASE ResetDestination
    <3>1. op.kind # "none" /\ op.step = "reset" /\ plans' = plans
      BY <2>4 DEF ResetDestination, At
    <3>. QED  BY <3>1, CutoverCopy
  <2>5. ASSUME NEW t \in Tables, CopyTable(t)
        PROVE  CutoverLosesNothing'
    <3>1. op.kind # "none" /\ op.step = "copy"
      BY <2>5 DEF CopyTable, At
    <3>2. \A p \in Plans : plans'[p].status = plans[p].status
      BY <2>5, <3>1, OperationPlan, TableRecorded
    <3>. QED  BY <3>1, <3>2, CutoverCopy
  <2>6. CASE FinishCopy
    <3>1. op.kind # "none" /\ UNCHANGED <<content, late>>
      BY <2>6 DEF FinishCopy, At
    <3>2. \/ SetStatus("copied")
          \/ SetStatus("rollback_pending_restart") /\ TablesMatch(op.plan)
      BY <2>6, Zenon DEF FinishCopy
    <3>. QED  BY <1>2, <3>1, <3>2 DEF Fenced, Statuses, Pending
  <2>7. CASE CopyFails
    <3>1. op.kind # "none"
      BY <2>7, NoOpIs DEF CopyFails, OperationInv
    <3>2. UNCHANGED <<content, late>> /\ (SetStatus("failed") \/ plans' = plans)
      BY <2>7, Zenon DEF CopyFails
    <3>. QED  BY <1>1, <1>2, <3>1, <3>2 DEF Fenced, Statuses, Pending
  <2>8. CASE Verify
    <3>1. op.kind # "none" /\ UNCHANGED <<content, late>>
      BY <2>8 DEF Verify, At
    <3>2. (SetStatus("verified") /\ TablesMatch(op.plan)) \/ plans' = plans
      BY <2>8, Zenon DEF Verify
    <3>. QED  BY <1>1, <1>2, <3>1, <3>2 DEF Statuses
  <2>9. CASE CancelPlan
    <3>1. op.kind # "none" /\ UNCHANGED <<content, late>> /\ (SetStatus("cancelled") \/ plans' = plans)
      BY <2>9, Zenon DEF CancelPlan, At
    <3>. QED  BY <1>1, <1>2, <3>1 DEF Fenced, Statuses, Pending, Terminal
  <2>. QED  BY <1>7, <2>1, <2>2, <2>3, <2>4, <2>5, <2>6, <2>7, <2>8, <2>9, Zenon DEF OperationNext
<1>. QED  BY <1>3, <1>4, <1>5, <1>6, <1>7, Zenon DEF MigrationNext

\* What the proofs rest on holds at the start, with no plan.
LEMMA MigrationStart == MigrationInit => MigrationInv
<1>. SUFFICES ASSUME MigrationInit
              PROVE  MigrationInv
  OBVIOUS
<1>1. \A p \in Plans : plans[p] = NoPlan
  BY DEF MigrationInit
<1>2. NoPlan \in PlanRecord /\ NoPlan.status = "none" /\ 0 \in 0..MaxPlans /\ 0 \in 0..MaxWrites
  BY MigrationAssumption DEF NoPlan, PlanRecord
<1>4. planView = [plan |-> 0, status |-> "none", ready |-> FALSE, rollback |-> 0]
  BY DEF MigrationInit
<1>5. MigrationTypeOK
  <2>1. plans \in [Plans -> PlanRecord]
    BY <1>2 DEF MigrationInit
  <2>2. content \in [Databases -> [Tables -> SUBSET (1..MaxWrites)]]
    BY DEF MigrationInit, Empty
  <2>3. runtime \in [Runtimes -> Databases] /\ selection \in Databases /\ prepared \subseteq Databases
    BY MigrationAssumption DEF MigrationInit
  <2>4. /\ current \in 0..MaxPlans /\ fence \in 0..MaxPlans
        /\ writes \in 0..MaxWrites /\ late \subseteq 1..MaxWrites /\ inflight \subseteq Runtimes
    BY <1>2 DEF MigrationInit
  <2>5. paused \in BOOLEAN /\ hasty \in BOOLEAN
    BY Zenon DEF MigrationInit
  <2>6. op \in Op
    BY NoOpIs DEF MigrationInit
  <2>7. planView \in [plan : 0..MaxPlans, status : Statuses \cup {"none"}, ready : BOOLEAN,
                      rollback : 0..MaxPlans]
    BY <1>2, <1>4
  <2>. QED  BY <2>1, <2>2, <2>3, <2>4, <2>5, <2>6, <2>7, MigrationTypes, Zenon
<1>6. OperationInv
  BY NoOpIs DEF OperationInv, MigrationInit
<1>7. ViewInv
  BY <1>1, <1>4 DEF ViewInv, MigrationInit
<1>8. FenceInv /\ CutoverLosesNothing
  BY <1>1, <1>2 DEF FenceInv, Fenced, Pending, CutoverLosesNothing
<1>. QED  BY <1>5, <1>6, <1>7, <1>8 DEF MigrationInv

\* ... and is kept by every step of a writer, a runtime, the page, a command or an operation.
LEMMA MigrationStep == MigrationInv /\ [MigrationNext]_migrationVars => MigrationInv'
<1>. SUFFICES ASSUME MigrationInv, [MigrationNext]_migrationVars
              PROVE  MigrationInv'
  OBVIOUS
<1>1. CASE UNCHANGED migrationVars
  BY <1>1 DEF migrationVars, MigrationInv, MigrationTypeOK, OperationInv, ViewInv, FenceInv,
              CutoverLosesNothing
<1>2. CASE MigrationNext
  <2>1. MigrationTypeOK' /\ OperationInv' /\ ViewInv' /\ FenceInv'
    BY <1>2, OutsideTypes, OperationTypes, OutsideFence, OperationFence, Zenon
       DEF MigrationNext, MigrationInv
  <2>. QED  BY <1>2, <2>1, CutoverStep DEF MigrationInv
<1>. QED  BY <1>1, <1>2

-----------------------------------------------------------------------------
(* The database in use: what the steps keep                                *)

\* The steps of a rollback before it waits for the restart.
CopyingBack == {"engage", "drain", "mark", "reset", "copy"}

\* An operation ends, or goes on as it is.
OpGoesOn ==
    \/ op' = NoOp
    \/ /\ op'.kind = op.kind /\ op'.plan = op.plan /\ op'.by = op.by /\ op'.db = op.db
       /\ op.kind = "rollback" /\ op'.step \in CopyingBack =>
             op.step \in CopyingBack \/ op.db = plans[op.plan].destination

\* The status of the operation's plan is set, and nothing else of the plans.
StatusBecomes(s) ==
    /\ \A p \in Plans :
         /\ plans'[p].source = plans[p].source
         /\ plans'[p].destination = plans[p].destination
         /\ p # op.plan => plans'[p].status = plans[p].status
    /\ plans'[op.plan].status = s

\* The plans keep their databases and their statuses.
PlansStay ==
    \A p \in Plans :
        /\ plans'[p].source = plans[p].source
        /\ plans'[p].destination = plans[p].destination
        /\ plans'[p].status = plans[p].status

\* An operation keeps the database of its process.
LEMMA DatabaseKept ==
    ASSUME MigrationInv, OperationDatabase, OpGoesOn,
           runtime' = runtime, selection' = selection,
           \A p \in Plans : plans'[p].destination = plans[p].destination
    PROVE  OperationDatabase'
<1>1. CASE op' = NoOp
  BY <1>1, NoOpIs DEF OperationDatabase
<1>2. CASE op'.kind = "none"
  BY <1>2 DEF OperationDatabase
<1>3. CASE op' # NoOp /\ op'.kind # "none"
  <2>1. op.kind # "none" /\ op.plan \in Plans
    BY <1>3 DEF OpGoesOn, MigrationInv, OperationInv
  <2>. QED  BY <1>3, <2>1 DEF OpGoesOn, OperationDatabase, CopyingBack
<1>. QED  BY <1>1, <1>2, <1>3

\* Where every process is on the selection, so is the operation.
LEMMA OpDatabase ==
    ASSUME UseInv, op.kind # "none", Settled
    PROVE  op.db = selection
BY DEF UseInv, OperationDatabase, Settled, Runtimes

\* Where the plan that holds the fence does not wait, every process is on the selection.
LEMMA OnSelection ==
    ASSUME MigrationInv, RestartInv, NEW p \in Plans, fence = p, plans[p].status \notin Pending
    PROVE  NoneWaits /\ Settled
<1>1. NoneWaits
  BY DEF NoneWaits, MigrationInv, FenceInv, Fenced
<1>. QED  BY <1>1 DEF RestartInv

\* Where the plans stay, so do the selection and the processes.
LEMMA UseFrame ==
    ASSUME MigrationInv, UseInv, OpGoesOn, PlansStay, hasty => hasty',
           UNCHANGED <<current, selection, runtime, prepared>>
    PROVE  UseInv'
<1>1. OperationDatabase'
  BY DatabaseKept DEF UseInv, PlansStay
<1>2. current # 0 => current \in Plans
  BY MigrationAssumption DEF MigrationInv, MigrationTypeOK, Plans
<1>3. PlanInv'
  BY DEF PlanInv, UseInv, PlansStay
<1>4. ASSUME RestartInv
      PROVE  RestartInv'
  BY <1>4 DEF RestartInv, PlansStay, Settled, Between, NoneWaits
<1>5. ASSUME HistoryInv
      PROVE  HistoryInv'
  BY <1>2, <1>5 DEF HistoryInv, PlansStay, NoneWaits
<1>. QED  BY <1>1, <1>3, <1>4, <1>5 DEF UseInv

\* A plan in one of these statuses is the current one.
LEMMA OnlyCurrent ==
    ASSUME MigrationInv, UseInv, NEW p \in Plans,
           plans[p].status \in {"planned", "copying", "copied", "verified", "failed",
                                "activation_pending_restart"}
    PROVE  p = current
BY DEF UseInv, PlanInv, Terminal

\* The copy of the current plan advances, fails or is cancelled.
LEMMA UseProgress ==
    ASSUME MigrationInv, UseInv, OpGoesOn, op.kind # "none", hasty => hasty',
           NEW s \in {"copying", "copied", "verified", "failed", "cancelled"}, StatusBecomes(s),
           plans[op.plan].status \in {"planned", "copying", "copied", "verified", "failed"},
           UNCHANGED <<current, selection, runtime>>,
           \/ prepared' = prepared \cup {plans[op.plan].destination}
           \/ /\ prepared' = prepared
              /\ s = "cancelled" \/ plans[op.plan].status # "planned"
    PROVE  UseInv'
<1>1. OperationDatabase'
  BY DatabaseKept DEF UseInv, StatusBecomes
<1>2. op.plan \in Plans
  BY DEF MigrationInv, OperationInv
<1>3. op.plan = current
  BY <1>2, OnlyCurrent
<1>4. ASSUME RestartInv
      PROVE  RestartInv'
  <2>1. \A p \in Plans : /\ plans'[p].status \in Pending => plans'[p].status = plans[p].status
                         /\ plans[p].status \in Pending => plans'[p].status = plans[p].status
    BY <1>2 DEF StatusBecomes, Pending
  <2>. QED  BY <1>4, <2>1 DEF RestartInv, NoneWaits, Settled, Between, StatusBecomes, Pending
<1>5. \A p \in Plans : p # op.plan => plans[p].status # "planned"
  BY <1>3, OnlyCurrent
<1>6. PlanInv'
  <2>1. ASSUME NEW p \in Plans
        PROVE  /\ plans'[p].status # "none" => plans'[p].source # plans'[p].destination
               /\ plans'[p].status = "planned" => plans'[p].destination \notin prepared'
               /\ plans'[p].status \in Marked => plans'[p].destination \in prepared'
               /\ p # current' => plans'[p].status \in Terminal \cup {"none", "rollback_pending_restart"}
    BY <1>2, <1>3, <1>5 DEF PlanInv, UseInv, StatusBecomes, Marked, Statuses
  <2>2. ASSUME NEW p \in Plans, NEW q \in Plans,
               p # q, plans'[p].status \in Marked, plans'[q].status \in Marked
        PROVE  plans'[p].destination # plans'[q].destination
    <3>1. CASE p # op.plan /\ q # op.plan
      BY <2>2, <3>1 DEF PlanInv, UseInv, StatusBecomes
    <3>2. ASSUME NEW o \in Plans, o # op.plan, plans[o].status \in Marked,
                 plans'[op.plan].status \in Marked
          PROVE  plans[o].destination # plans[op.plan].destination
      BY <1>2, <3>2 DEF PlanInv, UseInv, StatusBecomes, Marked, Statuses
    <3>. QED  BY <2>2, <3>1, <3>2 DEF StatusBecomes
  <2>. QED  BY <2>1, <2>2 DEF PlanInv
<1>7. HistoryInv'
  BY <1>2, <1>3 DEF HistoryInv, StatusBecomes
<1>. QED  BY <1>1, <1>4, <1>6, <1>7 DEF UseInv

\* An operation begins.
LEMMA UseBegins ==
    ASSUME MigrationInv, UseInv, NEW k \in Kinds, NEW p \in Plans, NEW b \in Web \cup {"console"},
           NEW d \in Databases, hasty => hasty',
           op' = [NoOp EXCEPT !.kind = k, !.plan = p, !.by = b, !.db = d, !.step = "checks"],
           (b \in Web /\ d = runtime[b]) \/ (b = "console" /\ d = selection),
           UNCHANGED <<plans, current, selection, runtime, prepared>>
    PROVE  UseInv'
<1>1. op'.kind = k /\ op'.by = b /\ op'.db = d /\ op'.step = "checks"
  BY OperationBegins
<1>2. OperationDatabase'
  BY <1>1 DEF OperationDatabase
<1>3. PlanInv'
  BY DEF UseInv, PlanInv
<1>4. ASSUME RestartInv /\ HistoryInv
      PROVE  RestartInv' /\ HistoryInv'
  BY <1>4 DEF RestartInv, HistoryInv, NoneWaits, Settled, Between
<1>. QED  BY <1>2, <1>3, <1>4 DEF UseInv

\* A process restarts and loads the selection.
LEMMA UseRestart ==
    ASSUME MigrationInv, UseInv, NEW r \in Runtimes, Restart(r)
    PROVE  UseInv'
<1>1. /\ UNCHANGED <<plans, current, selection, prepared>> /\ (hasty => hasty')
      /\ op' = IF op.by = r THEN NoOp ELSE op
  BY DEF Restart
<1>2. \A x \in Runtimes : runtime'[x] = IF x = r THEN selection ELSE runtime[x]
  BY DEF Restart, MigrationInv, MigrationTypeOK
<1>3. OperationDatabase'
  <2>1. CASE op' = NoOp
    BY <2>1, NoOpIs DEF OperationDatabase
  <2>2. CASE op' = op /\ op.by # r
    BY <1>1, <1>2, <2>2 DEF UseInv, OperationDatabase, Runtimes
  <2>. QED  BY <1>1, <2>1, <2>2
<1>4. PlanInv'
  BY <1>1 DEF UseInv, PlanInv
<1>5. ASSUME RestartInv /\ HistoryInv
      PROVE  RestartInv' /\ HistoryInv'
  <2>1. Settled => Settled'
    BY <1>1, <1>2 DEF Settled
  <2>2. \A p \in Plans :
          /\ plans[p].status = "activation_pending_restart" =>
                Between(plans[p].source, plans[p].destination)'
          /\ plans[p].status = "rollback_pending_restart" =>
                Between(plans[p].destination, plans[p].source)'
    BY <1>1, <1>2, <1>5 DEF RestartInv, Between
  <2>. QED  BY <1>1, <1>5, <2>1, <2>2 DEF RestartInv, HistoryInv, NoneWaits
<1>. QED  BY <1>1, <1>3, <1>4, <1>5 DEF UseInv

\* A plan is made, when none is in progress, for a database that has no schema.
LEMMA UsePlan ==
    ASSUME MigrationInv, UseInv, NEW d \in Databases, PlanMigration(d)
    PROVE  UseInv'
<1>0. PICK e \in Databases : Plan(e, d)
  BY PlanSource DEF MigrationInv
<1>1. PICK p \in Plans :
        /\ plans[p] = NoPlan
        /\ plans' = [plans EXCEPT ![p] = [status |-> "planned", source |-> e,
                                          destination |-> d, tables |-> {}]]
        /\ current' = p
  BY <1>0 DEF Plan
<1>2. plans \in [Plans -> PlanRecord]
  BY MigrationTypes DEF MigrationInv
<1>3. /\ plans'[p].status = "planned" /\ plans'[p].source = e
      /\ plans'[p].destination = d
      /\ \A q \in Plans : q # p => plans'[q] = plans[q]
  BY <1>1, <1>2
<1>4. /\ op = NoOp /\ ~InProgress /\ d # e /\ d \notin prepared
      /\ UNCHANGED <<selection, runtime, prepared, op>> /\ (hasty => hasty')
  BY <1>0 DEF Plan
<1>5. NoPlan.status = "none"
  BY DEF NoPlan
<1>6. OperationDatabase'
  BY <1>4, NoOpIs DEF OperationDatabase
<1>7. ASSUME RestartInv
      PROVE  RestartInv'
  <2>1. \A q \in Plans : /\ plans'[q].status \in Pending => plans'[q] = plans[q]
                         /\ plans[q].status \in Pending => plans'[q] = plans[q]
    BY <1>1, <1>3, <1>5 DEF Pending
  <2>. QED  BY <1>4, <1>7, <2>1 DEF RestartInv, NoneWaits, Settled, Between, Pending
<1>8. PlanInv'
  <2>1. \A q \in Plans : q # p => plans[q].status \in Terminal \cup {"none", "rollback_pending_restart"}
    BY <1>4 DEF PlanInv, UseInv, InProgress, Plans
  <2>2. "planned" \notin Terminal \cup {"none", "rollback_pending_restart"}
    BY DEF Terminal
  <2>3. "planned" \notin Marked
    BY DEF Marked
  <2>. QED  BY <1>1, <1>3, <1>4, <2>1, <2>2, <2>3 DEF PlanInv, UseInv
<1>9. HistoryInv'
  BY <1>1, <1>3 DEF HistoryInv
<1>. QED  BY <1>4, <1>6, <1>7, <1>8, <1>9 DEF UseInv

\* The pointer is cleared.
LEMMA UseClear ==
    ASSUME MigrationInv, UseInv, op' = NoOp, op.kind # "none", plans[op.plan].status = "cancelled",
           current' = IF current = op.plan THEN 0 ELSE current, hasty => hasty',
           UNCHANGED <<plans, selection, runtime, prepared>>
    PROVE  UseInv'
<1>1. OperationDatabase'
  BY NoOpIs DEF OperationDatabase
<1>2. op.plan \in Plans /\ op.plan # 0
  BY DEF MigrationInv, OperationInv, Plans
<1>3. PlanInv'
  BY <1>2 DEF UseInv, PlanInv, Terminal, Plans
<1>4. ASSUME RestartInv /\ HistoryInv
      PROVE  RestartInv' /\ HistoryInv'
  BY <1>4 DEF RestartInv, HistoryInv, NoneWaits, Settled, Between
<1>. QED  BY <1>1, <1>3, <1>4 DEF UseInv

\* A plan waits for a restart on its destination.
LEMMA UseActivate ==
    ASSUME MigrationInv, UseInv, OpGoesOn, op.kind # "none", hasty => hasty',
           StatusBecomes("activation_pending_restart"),
           plans[op.plan].status \in {"verified", "activation_pending_restart"},
           op.db = plans[op.plan].source, fence = op.plan,
           UNCHANGED <<current, selection, runtime, prepared>>
    PROVE  UseInv'
<1>1. OperationDatabase'
  BY DatabaseKept DEF UseInv, StatusBecomes
<1>2. op.plan \in Plans /\ op.plan # 0
  BY DEF MigrationInv, OperationInv, Plans
<1>3. op.plan = current
  BY <1>2, OnlyCurrent
<1>4. CASE plans[op.plan].status = "activation_pending_restart"
  <2>1. PlansStay
    BY <1>2, <1>4 DEF PlansStay, StatusBecomes
  <2>. QED  BY <2>1, UseFrame
<1>5. CASE plans[op.plan].status = "verified"
  <2>1. ASSUME RestartInv
        PROVE  RestartInv'
    <3>1. Settled
      BY <1>2, <1>5, <2>1, OnSelection DEF Pending
    <3>2. selection = plans[op.plan].source
      BY <3>1, OpDatabase
    <3>3. Between(plans[op.plan].source, plans[op.plan].destination)
      BY <3>1, <3>2 DEF Between, Settled
    <3>4. \A p \in Plans : p # op.plan => plans'[p].status \notin Pending
      BY <1>2, <1>5 DEF MigrationInv, FenceInv, Fenced, StatusBecomes
    <3>5. plans'[op.plan].status \in Pending
      BY DEF StatusBecomes, Pending
    <3>. QED  BY <1>2, <3>3, <3>4, <3>5 DEF RestartInv, NoneWaits, Between, StatusBecomes, Pending
  <2>2. PlanInv'
    BY <1>2, <1>3, <1>5 DEF UseInv, PlanInv, StatusBecomes, Marked, Statuses, Pending
  <2>3. HistoryInv'
    BY <1>3 DEF HistoryInv, StatusBecomes
  <2>. QED  BY <1>1, <2>1, <2>2, <2>3 DEF UseInv
<1>. QED  BY <1>4, <1>5

\* A plan that waited is finalized by a process on the database it waited for, when every
\* other one is on it too.
LEMMA UseFinalize ==
    ASSUME MigrationInv, UseInv, OpGoesOn, op.kind # "none", hasty => hasty',
           ~hasty' => \A r \in Runtimes : runtime[r] = op.db,
           \/ /\ op.kind = "finalize" /\ StatusBecomes("active")
              /\ plans[op.plan].status = "activation_pending_restart"
              /\ op.db = plans[op.plan].destination
           \/ /\ op.kind = "finalize_rollback" /\ StatusBecomes("rolled_back")
              /\ plans[op.plan].status = "rollback_pending_restart"
              /\ op.db = plans[op.plan].source,
           UNCHANGED <<current, selection, runtime, prepared>>
    PROVE  UseInv'
<1>0. \A p \in Plans : /\ plans'[p].source = plans[p].source
                       /\ plans'[p].destination = plans[p].destination
                       /\ p # op.plan => plans'[p].status = plans[p].status
  BY DEF StatusBecomes
<1>1. OperationDatabase'
  BY <1>0, DatabaseKept DEF UseInv
<1>2. op.plan \in Plans /\ op.plan # 0
  BY DEF MigrationInv, OperationInv, Plans
<1>3. fence = op.plan
  BY <1>2 DEF MigrationInv, FenceInv, Fenced, Pending
<1>4. NoneWaits'
  BY <1>0, <1>2, <1>3 DEF NoneWaits, MigrationInv, FenceInv, Fenced, StatusBecomes, Pending
<1>5. PlanInv'
  BY <1>0, <1>2 DEF UseInv, PlanInv, StatusBecomes, Marked, Statuses, Pending, Terminal
<1>6. ASSUME ~hasty'
      PROVE  RestartInv' /\ HistoryInv'
  <2>1. RestartInv /\ HistoryInv
    BY <1>6 DEF UseInv
  <2>2. \A r \in Runtimes : runtime[r] = op.db
    BY <1>6
  <2>3. selection = op.db
    <3>1. CASE op.by \in Web /\ op.db = runtime[op.by]
      <4>1. op.by \in Runtimes
        BY <3>1 DEF Runtimes
      <4>. QED  BY <1>2, <2>1, <3>1, <4>1 DEF RestartInv, Between
    <3>2. CASE op.by = "console" /\ op.db = selection
      BY <3>2
    <3>. QED  BY <3>1, <3>2 DEF UseInv, OperationDatabase
  <2>4. RestartInv'
    BY <1>4, <2>2, <2>3 DEF RestartInv, NoneWaits, Settled, Pending
  <2>5. HistoryInv'
    <3>1. CASE op.plan = current
      BY <1>0, <1>2, <1>4, <2>3, <3>1 DEF HistoryInv, StatusBecomes
    <3>2. CASE op.plan # current
      <4>1. op.kind = "finalize_rollback" /\ plans[op.plan].status = "rollback_pending_restart"
        BY <1>2, <3>2, OnlyCurrent
      <4>2. plans'[op.plan].status = "rolled_back"
        BY <4>1 DEF StatusBecomes
      <4>3. ~NoneWaits
        BY <1>2, <4>1 DEF NoneWaits, Pending
      <4>4. current # 0 => current \in Plans
        BY MigrationAssumption DEF MigrationInv, MigrationTypeOK, Plans
      <4>. QED  BY <1>0, <2>1, <3>2, <4>1, <4>2, <4>3, <4>4 DEF HistoryInv
    <3>. QED  BY <3>1, <3>2
  <2>. QED  BY <2>4, <2>5
<1>. QED  BY <1>1, <1>5, <1>6 DEF UseInv

\* The copy back is complete: the plan waits for a restart on its source.
LEMMA UseRollback ==
    ASSUME MigrationInv, UseInv, OpGoesOn, op.kind = "rollback", op.step = "copy",
           hasty => hasty',
           StatusBecomes("rollback_pending_restart"),
           UNCHANGED <<current, selection, runtime, prepared>>
    PROVE  UseInv'
<1>1. OperationDatabase'
  BY DatabaseKept DEF UseInv, StatusBecomes
<1>2. op.plan \in Plans /\ op.plan # 0 /\ fence = op.plan /\ plans[op.plan].status = "active"
  BY DEF MigrationInv, OperationInv, Plans
<1>3. PlanInv'
  BY <1>2 DEF UseInv, PlanInv, StatusBecomes, Marked, Statuses, Pending, Terminal
<1>4. ASSUME ~hasty'
      PROVE  RestartInv' /\ HistoryInv'
  <2>1. RestartInv /\ HistoryInv
    BY <1>4 DEF UseInv
  <2>2. Settled
    BY <1>2, <2>1, OnSelection DEF Pending
  <2>3. selection = plans[op.plan].destination
    BY <2>2, OpDatabase DEF UseInv, OperationDatabase
  <2>4. RestartInv'
    <3>1. Between(plans[op.plan].destination, plans[op.plan].source)
      BY <2>2, <2>3 DEF Between, Settled
    <3>2. \A p \in Plans : p # op.plan => plans'[p].status \notin Pending
      BY <1>2 DEF MigrationInv, FenceInv, Fenced, StatusBecomes, Pending
    <3>3. plans'[op.plan].status \in Pending
      BY DEF StatusBecomes, Pending
    <3>. QED  BY <1>2, <3>1, <3>2, <3>3 DEF RestartInv, NoneWaits, Between, StatusBecomes, Pending
  <2>5. HistoryInv'
    <3>1. CASE op.plan = current
      BY <3>1 DEF HistoryInv, StatusBecomes
    <3>2. CASE op.plan # current
      <4>1. current # 0 => current \in Plans
        BY MigrationAssumption DEF MigrationInv, MigrationTypeOK, Plans
      <4>2. current # 0 => plans[current].status # "active"
        <5>1. ASSUME current # 0, plans[current].status = "active"
              PROVE  FALSE
          <6>1. plans[current].destination # plans[op.plan].destination
            BY <1>2, <3>2, <4>1, <5>1 DEF UseInv, PlanInv, Marked, Statuses, Terminal
          <6>. QED  BY <2>1, <2>3, <5>1, <6>1 DEF HistoryInv
        <5>. QED  BY <5>1
      <4>3. ASSUME current # 0, plans[current].status = "rolled_back"
            PROVE  \E q \in Plans \ {current} :
                     /\ plans'[q].status \in {"rollback_pending_restart", "rolled_back"}
                     /\ plans'[q].destination = plans'[current].source
        <5>1. CASE selection = plans[current].source
          <6>1. /\ plans'[op.plan].status = "rollback_pending_restart"
                /\ plans'[op.plan].destination = plans'[current].source
            BY <1>2, <2>3, <4>1, <4>3, <5>1 DEF StatusBecomes
          <6>. QED  BY <1>2, <3>2, <6>1
        <5>2. CASE selection # plans[current].source
          <6>1. PICK q \in Plans \ {current} :
                  /\ plans[q].status \in {"rollback_pending_restart", "rolled_back"}
                  /\ plans[q].destination = plans[current].source
            BY <2>1, <4>3, <5>2 DEF HistoryInv
          <6>2. q # op.plan
            BY <1>2, <6>1
          <6>. QED  BY <4>1, <4>3, <6>1, <6>2 DEF StatusBecomes
        <5>. QED  BY <5>1, <5>2
      <4>. QED  BY <3>2, <4>1, <4>2, <4>3 DEF HistoryInv, StatusBecomes
    <3>. QED  BY <3>1, <3>2
  <2>. QED  BY <2>4, <2>5
<1>. QED  BY <1>1, <1>3, <1>4 DEF UseInv

\* The selection is written, for a plan that waits for a restart.
LEMMA UseSelect ==
    ASSUME MigrationInv, UseInv, Select
    PROVE  UseInv'
<1>1. /\ op.kind # "none" /\ op.step = "select" /\ op' = NoOp
      /\ selection' = IF op.kind = "activate" THEN plans[op.plan].destination ELSE plans[op.plan].source
      /\ UNCHANGED <<plans, current, runtime, prepared>> /\ (hasty => hasty')
  BY DEF Select, At, Subject
<1>2. /\ op.plan \in Plans /\ op.plan # 0 /\ fence = op.plan
      /\ \/ op.kind = "activate" /\ plans[op.plan].status = "activation_pending_restart"
         \/ op.kind = "rollback" /\ plans[op.plan].status = "rollback_pending_restart"
  BY <1>1 DEF MigrationInv, OperationInv, Plans
<1>3. OperationDatabase'
  BY <1>1, NoOpIs DEF OperationDatabase
<1>4. \A p \in Plans : p # op.plan => plans[p].status \notin Pending
  BY <1>2 DEF MigrationInv, FenceInv, Fenced
<1>5. PlanInv'
  BY <1>1 DEF UseInv, PlanInv
<1>6. plans[op.plan].status \in Pending /\ ~NoneWaits
  BY <1>2 DEF NoneWaits, Pending
<1>7. ASSUME RestartInv
      PROVE  RestartInv'
  <2>0. PICK p \in Plans : p = op.plan
    BY <1>2
  <2>1. CASE op.kind = "activate"
    <3>1. Between(plans[p].source, plans[p].destination)
      BY <1>2, <1>7, <2>0, <2>1 DEF RestartInv
    <3>2. Between(plans[p].source, plans[p].destination)'
      BY <1>1, <2>0, <2>1, <3>1 DEF Between
    <3>. QED  BY <1>1, <1>2, <1>4, <1>6, <2>0, <2>1, <3>2 DEF RestartInv, NoneWaits, Pending
  <2>2. CASE op.kind = "rollback"
    <3>1. Between(plans[p].destination, plans[p].source)
      BY <1>2, <1>7, <2>0, <2>2 DEF RestartInv
    <3>2. Between(plans[p].destination, plans[p].source)'
      BY <1>1, <2>0, <2>2, <3>1 DEF Between
    <3>. QED  BY <1>1, <1>2, <1>4, <1>6, <2>0, <2>2, <3>2 DEF RestartInv, NoneWaits, Pending
  <2>. QED  BY <1>2, <2>1, <2>2
<1>8. ASSUME HistoryInv
      PROVE  HistoryInv'
  BY <1>1, <1>6, <1>8 DEF HistoryInv
<1>. QED  BY <1>1, <1>3, <1>5, <1>7, <1>8 DEF UseInv

\* A restart declared complete too early stays declared.
LEMMA HastyStays ==
    ASSUME OperationNext
    PROVE  hasty => hasty'
<1>1. CASE Proceed
  BY <1>1, Zenon DEF Proceed
<1>2. CASE \/ Refuse \/ Engage \/ Drain \/ DrainFails \/ MarkCopying \/ ResetDestination
           \/ FinishCopy \/ CopyFails \/ (\E t \in Tables : CopyTable(t))
           \/ Verify \/ Select \/ Release \/ CancelPlan
  <2>1. UNCHANGED hasty
    BY <1>2, Zenon DEF Refuse, Engage, Drain, DrainFails, MarkCopying, ResetDestination, FinishCopy,
                CopyFails, CopyTable, Verify, Select, Release, CancelPlan
  <2>. QED  BY <2>1, Zenon
<1>. QED  BY <1>1, <1>2, Zenon DEF OperationNext

\* A restart that is declared complete in time finds every process on the operation's database.
LEMMA Declared ==
    ASSUME Proceed, op.kind \in {"finalize", "finalize_rollback"}, Subject.status \in Pending
    PROVE  ~hasty' => \A r \in Runtimes : runtime[r] = op.db
BY Zenon DEF Proceed, DeclaresHastily

\* What is proved of the database in use is kept by the steps of an operation.
LEMMA UseOperation ==
    ASSUME MigrationInv, UseInv, OperationNext
    PROVE  UseInv'
<1>0. hasty => hasty'
  BY HastyStays
<1>1. ASSUME op.kind # "none"
      PROVE  /\ op \in Op /\ op.plan \in Plans /\ plans \in [Plans -> PlanRecord]
  BY <1>1, OperationPlan DEF MigrationInv
<1>2. ASSUME op.kind # "none", NEW s \in Statuses, SetStatus(s)
      PROVE  StatusBecomes(s)
  BY <1>1, <1>2, StatusSet DEF StatusBecomes
<1>3. ASSUME op.kind # "none", NEW s \in OpSteps, op' = [op EXCEPT !.step = s],
             op.kind = "rollback" /\ s \in CopyingBack =>
                op.step \in CopyingBack \/ op.db = plans[op.plan].destination
      PROVE  OpGoesOn
  <2>1. /\ op'.kind = op.kind /\ op'.plan = op.plan /\ op'.by = op.by
        /\ op'.db = op.db /\ op'.step = s
    BY <1>1, <1>3, StepTaken
  <2>. QED  BY <1>3, <2>1 DEF OpGoesOn
<1>4. ASSUME op' = NoOp
      PROVE  OpGoesOn
  BY <1>4 DEF OpGoesOn
<1>5. ASSUME plans' = plans
      PROVE  PlansStay
  BY <1>5 DEF PlansStay
<1>6. CASE Proceed
  <2>1. op.kind # "none" /\ UNCHANGED <<current, selection, runtime, prepared>>
    BY <1>6 DEF Proceed, At
  <2>2. CASE /\ op.kind \in {"migrate", "cancel"}
             /\ \E s \in {"engage", "cancel"} : op' = [op EXCEPT !.step = s]
             /\ plans' = plans
             /\ \/ fence' = fence
                \/ /\ fence \in {0, op.plan}
                   /\ Subject.status \in {"planned", "failed"}
    <3>1. OpGoesOn
      BY <1>3, <2>1, <2>2 DEF OpSteps
    <3>. QED  BY <1>0, <1>5, <2>1, <2>2, <3>1, UseFrame DEF Subject, Pending
  <2>3. CASE /\ op.kind = "activate" /\ op' = [op EXCEPT !.step = "select"]
             /\ HoldsFence /\ Subject.status \in {"verified", "activation_pending_restart"}
             /\ op.db = Subject.source
             /\ SetStatus("activation_pending_restart") /\ fence' = fence
    <3>1. OpGoesOn
      BY <1>3, <2>1, <2>3 DEF OpSteps
    <3>2. StatusBecomes("activation_pending_restart")
      BY <1>2, <2>1, <2>3 DEF Statuses, Pending
    <3>. QED  BY <1>0, <2>1, <2>3, <3>1, <3>2, UseActivate DEF Subject, HoldsFence
  <2>4. CASE /\ op.kind = "finalize" /\ op' = [op EXCEPT !.step = "release"]
             /\ \/ Subject.status = "active"
                \/ Subject.status = "activation_pending_restart" /\ op.db = Subject.destination
             /\ SetStatus("active") /\ fence' = fence
    <3>1. OpGoesOn
      BY <1>3, <2>1, <2>4 DEF OpSteps
    <3>2. StatusBecomes("active")
      BY <1>2, <2>1, <2>4 DEF Statuses, Terminal
    <3>3. CASE Subject.status = "active"
      <4>1. PlansStay
        BY <1>1, <2>1, <3>2, <3>3 DEF StatusBecomes, PlansStay, Subject
      <4>. QED  BY <1>0, <2>1, <2>4, <3>1, <4>1, UseFrame
    <3>4. CASE Subject.status = "activation_pending_restart" /\ op.db = Subject.destination
      <4>1. ~hasty' => \A r \in Runtimes : runtime[r] = op.db
        BY <1>6, <2>4, <3>4, Declared DEF Pending
      <4>. QED  BY <1>0, <2>1, <2>4, <3>1, <3>2, <3>4, <4>1, UseFinalize DEF Subject
    <3>. QED  BY <2>4, <3>3, <3>4
  <2>5. CASE /\ op.kind = "rollback"
             /\ \E s \in {"engage", "select"} : op' = [op EXCEPT !.step = s]
             /\ op.db = Subject.destination /\ plans' = plans /\ fence' = fence
    <3>1. OpGoesOn
      BY <1>3, <2>1, <2>5 DEF OpSteps, Subject
    <3>. QED  BY <1>0, <1>5, <2>1, <2>5, <3>1, UseFrame
  <2>6. CASE /\ op.kind = "finalize_rollback" /\ op' = [op EXCEPT !.step = "release"]
             /\ \/ Subject.status = "rolled_back"
                \/ Subject.status = "rollback_pending_restart" /\ op.db = Subject.source
             /\ SetStatus("rolled_back") /\ fence' = fence
    <3>1. OpGoesOn
      BY <1>3, <2>1, <2>6 DEF OpSteps
    <3>2. StatusBecomes("rolled_back")
      BY <1>2, <2>1, <2>6 DEF Statuses, Terminal
    <3>3. CASE Subject.status = "rolled_back"
      <4>1. PlansStay
        BY <1>1, <2>1, <3>2, <3>3 DEF StatusBecomes, PlansStay, Subject
      <4>. QED  BY <1>0, <2>1, <2>6, <3>1, <4>1, UseFrame
    <3>4. CASE Subject.status = "rollback_pending_restart" /\ op.db = Subject.source
      <4>1. ~hasty' => \A r \in Runtimes : runtime[r] = op.db
        BY <1>6, <2>6, <3>4, Declared DEF Pending
      <4>. QED  BY <1>0, <2>1, <2>6, <3>1, <3>2, <3>4, <4>1, UseFinalize DEF Subject
    <3>. QED  BY <2>6, <3>3, <3>4
  <2>. QED  BY <1>6, <2>2, <2>3, <2>4, <2>5, <2>6, ProceedCases, Zenon
<1>7. CASE Refuse
  BY <1>0, <1>4, <1>5, <1>7, UseFrame DEF Refuse
<1>8. CASE Engage
  <2>1. op.kind # "none" /\ op.step = "engage" /\ UNCHANGED <<plans, current, selection, runtime, prepared>>
    BY <1>8 DEF Engage, At
  <2>2. \/ fence' = fence /\ op' = NoOp
        \/ fence \in {0, op.plan} /\ op' = [op EXCEPT !.step = "drain"]
    BY <1>8, Zenon DEF Engage
  <2>3. OpGoesOn
    BY <1>3, <1>4, <2>1, <2>2 DEF OpSteps, CopyingBack
  <2>4. plans[op.plan].status \notin Pending
    BY <2>1 DEF MigrationInv, OperationInv, Pending
  <2>. QED  BY <1>0, <1>5, <2>1, <2>2, <2>3, <2>4, UseFrame
<1>9. CASE Drain
  <2>1. /\ op.kind # "none" /\ op.step = "drain" /\ op' = [op EXCEPT !.step = "mark"]
        /\ UNCHANGED <<plans, current, fence, selection, runtime, prepared>>
    BY <1>9 DEF Drain, At
  <2>2. OpGoesOn
    BY <1>3, <2>1 DEF OpSteps, CopyingBack
  <2>. QED  BY <1>0, <1>5, <2>1, <2>2, UseFrame
<1>10. CASE DrainFails
  <2>1. /\ op.kind # "none" /\ op.step = "drain" /\ op' = NoOp
        /\ UNCHANGED <<plans, current, selection, runtime, prepared>>
    BY <1>10 DEF DrainFails, At
  <2>2. fence = op.plan /\ plans[op.plan].status \notin Pending
    BY <2>1 DEF MigrationInv, OperationInv, Pending
  <2>. QED  BY <1>0, <1>4, <1>5, <2>1, <2>2, UseFrame
<1>11. CASE MarkCopying
  <2>1. op.kind # "none" /\ op.step = "mark" /\ UNCHANGED <<current, fence, selection, runtime>>
    BY <1>11 DEF MarkCopying, At
  <2>2. CASE op.kind = "migrate"
    <3>1. SetStatus("copying") /\ prepared' = prepared \cup {plans[op.plan].destination}
      BY <1>11, <2>2 DEF MarkCopying, Subject
    <3>2. OpGoesOn
      <4>1. CASE op' = [op EXCEPT !.step = "copy", !.done = Subject.tables]
        <5>1. op'.kind = op.kind /\ op'.plan = op.plan /\ op'.by = op.by /\ op'.db = op.db
          BY <1>1, <2>1, <4>1 DEF Op
        <5>. QED  BY <2>2, <5>1 DEF OpGoesOn
      <4>2. CASE op' = [op EXCEPT !.step = "reset"]
        BY <1>3, <2>1, <2>2, <4>2 DEF OpSteps
      <4>. QED  BY <1>11, <2>2, <4>1, <4>2, Zenon DEF MarkCopying
    <3>3. StatusBecomes("copying")
      BY <1>2, <2>1, <3>1 DEF Statuses
    <3>4. plans[op.plan].status \in {"planned", "copying", "copied", "failed"}
      BY <2>1, <2>2 DEF MigrationInv, OperationInv
    <3>. QED  BY <1>0, <2>1, <3>1, <3>2, <3>3, <3>4, UseProgress
  <2>3. CASE op.kind # "migrate"
    <3>1. op' = [op EXCEPT !.step = "reset"] /\ plans' = plans /\ prepared' = prepared
      BY <1>11, <2>3 DEF MarkCopying
    <3>2. OpGoesOn
      BY <1>3, <2>1, <3>1 DEF OpSteps, CopyingBack
    <3>. QED  BY <1>0, <1>5, <2>1, <3>1, <3>2, UseFrame
  <2>. QED  BY <2>2, <2>3
<1>12. CASE ResetDestination
  <2>1. /\ op.kind # "none" /\ op.step = "reset" /\ op' = [op EXCEPT !.step = "copy"]
        /\ UNCHANGED <<plans, current, fence, selection, runtime, prepared>>
    BY <1>12 DEF ResetDestination, At
  <2>2. OpGoesOn
    BY <1>3, <2>1 DEF OpSteps, CopyingBack
  <2>. QED  BY <1>0, <1>5, <2>1, <2>2, UseFrame
<1>13. ASSUME NEW t \in Tables, CopyTable(t)
       PROVE  UseInv'
  <2>1. /\ op.kind # "none" /\ op.step = "copy"
        /\ UNCHANGED <<current, fence, selection, runtime, prepared>>
        /\ op' = [op EXCEPT !.done = op.done \cup {t}]
    BY <1>13 DEF CopyTable, At
  <2>2. op'.kind = op.kind /\ op'.plan = op.plan /\ op'.by = op.by /\ op'.db = op.db
    BY <1>1, <2>1 DEF Op
  <2>3. OpGoesOn
    BY <2>1, <2>2 DEF OpGoesOn, CopyingBack
  <2>4. PlansStay
    BY <1>1, <1>13, <2>1, TableRecorded DEF PlansStay
  <2>. QED  BY <1>0, <2>1, <2>3, <2>4, UseFrame
<1>14. CASE FinishCopy
  <2>1. /\ op.kind # "none" /\ op.step = "copy"
        /\ UNCHANGED <<current, fence, selection, runtime, prepared>>
    BY <1>14 DEF FinishCopy, At
  <2>2. CASE op.kind = "migrate"
    <3>1. SetStatus("copied") /\ op' = NoOp
      BY <1>14, <2>2 DEF FinishCopy
    <3>2. StatusBecomes("copied") /\ OpGoesOn
      BY <1>2, <1>4, <2>1, <3>1 DEF Statuses
    <3>3. plans[op.plan].status = "copying"
      BY <2>1, <2>2 DEF MigrationInv, OperationInv
    <3>. QED  BY <1>0, <2>1, <3>2, <3>3, UseProgress
  <2>3. CASE op.kind # "migrate"
    <3>1. SetStatus("rollback_pending_restart") /\ op' = [op EXCEPT !.step = "select"]
      BY <1>14, <2>3 DEF FinishCopy
    <3>2. StatusBecomes("rollback_pending_restart")
      BY <1>2, <2>1, <3>1 DEF Statuses, Pending
    <3>3. OpGoesOn
      BY <1>3, <2>1, <3>1 DEF OpSteps, CopyingBack
    <3>4. op.kind = "rollback"
      BY <2>1, <2>3 DEF MigrationInv, OperationInv
    <3>. QED  BY <1>0, <2>1, <3>2, <3>3, <3>4, UseRollback
  <2>. QED  BY <2>2, <2>3
<1>15. CASE CopyFails
  <2>1. /\ op.kind # "none" /\ op.step \in {"reset", "copy"}
        /\ UNCHANGED <<current, fence, selection, runtime, prepared>>
        /\ op' = [op EXCEPT !.step = "release"]
    BY <1>15, NoOpIs DEF CopyFails, MigrationInv, OperationInv
  <2>2. OpGoesOn
    BY <1>3, <2>1 DEF OpSteps, CopyingBack
  <2>3. CASE op.kind = "migrate"
    <3>1. SetStatus("failed")
      BY <1>15, <2>3 DEF CopyFails
    <3>2. StatusBecomes("failed")
      BY <1>2, <2>1, <3>1 DEF Statuses
    <3>3. plans[op.plan].status = "copying"
      BY <2>1, <2>3 DEF MigrationInv, OperationInv
    <3>. QED  BY <1>0, <2>1, <2>2, <3>2, <3>3, UseProgress
  <2>4. CASE op.kind # "migrate"
    <3>1. plans' = plans
      BY <1>15, <2>4 DEF CopyFails
    <3>. QED  BY <1>0, <1>5, <2>1, <2>2, <3>1, UseFrame
  <2>. QED  BY <2>3, <2>4
<1>16. CASE Verify
  <2>1. /\ op.kind # "none" /\ op' = NoOp
        /\ UNCHANGED <<current, fence, selection, runtime, prepared>>
    BY <1>16 DEF Verify, At
  <2>2. CASE plans[op.plan].status \in {"copied", "verified"} /\ SetStatus("verified")
    <3>1. StatusBecomes("verified") /\ OpGoesOn
      BY <1>2, <1>4, <2>1, <2>2 DEF Statuses
    <3>. QED  BY <1>0, <2>1, <2>2, <3>1, UseProgress
  <2>3. CASE plans' = plans
    BY <1>0, <1>4, <1>5, <2>1, <2>3, UseFrame
  <2>. QED  BY <1>16, <2>2, <2>3, Zenon DEF Verify, Subject
<1>17. CASE Select
  BY <1>17, UseSelect
<1>18. CASE Release
  <2>1. /\ op.kind # "none" /\ op.step = "release" /\ op' = NoOp
        /\ UNCHANGED <<plans, current, selection, runtime, prepared>>
    BY <1>18 DEF Release, At
  <2>2. plans[op.plan].status \notin Pending
    BY <2>1 DEF MigrationInv, OperationInv, Pending
  <2>3. fence' = fence \/ fence \in {0, op.plan}
    BY <1>18, Zenon DEF Release
  <2>. QED  BY <1>0, <1>4, <1>5, <2>1, <2>2, <2>3, UseFrame
<1>19. CASE CancelPlan
  <2>1. op.kind # "none" /\ UNCHANGED <<fence, selection, runtime, prepared>>
    BY <1>19 DEF CancelPlan, At
  <2>2. CASE /\ op.step = "cancel" /\ SetStatus("cancelled") /\ op' = [op EXCEPT !.step = "clear"]
             /\ current' = current
    <3>1. StatusBecomes("cancelled")
      BY <1>2, <2>1, <2>2 DEF Statuses, Terminal
    <3>2. OpGoesOn
      BY <1>3, <2>1, <2>2 DEF OpSteps, CopyingBack
    <3>3. plans[op.plan].status \in {"planned", "failed"}
      BY <2>1, <2>2 DEF MigrationInv, OperationInv
    <3>. QED  BY <1>0, <2>1, <2>2, <3>1, <3>2, <3>3, UseProgress
  <2>3. CASE /\ op.step = "clear" /\ plans' = plans /\ op' = NoOp
             /\ current' = IF current = op.plan THEN 0 ELSE current
    <3>1. plans[op.plan].status = "cancelled"
      BY <2>1, <2>3 DEF MigrationInv, OperationInv
    <3>. QED  BY <1>0, <2>1, <2>3, <3>1, UseClear
  <2>. QED  BY <1>19, <2>2, <2>3, Zenon DEF CancelPlan, At
<1>. QED  BY <1>6, <1>7, <1>8, <1>9, <1>10, <1>11, <1>12, <1>13, <1>14, <1>15, <1>16, <1>17,
             <1>18, <1>19, Zenon DEF OperationNext

\* What is proved of the database in use is kept by every step.
LEMMA UseStep ==
    ASSUME MigrationInv, UseInv, [MigrationNext]_migrationVars
    PROVE  UseInv'
<1>1. ASSUME UNCHANGED <<plans, current, selection, runtime, prepared>>, hasty => hasty',
             op' \in {op, NoOp}
      PROVE  UseInv'
  BY <1>1, UseFrame DEF PlansStay, OpGoesOn
<1>2. CASE UNCHANGED migrationVars
  BY <1>1, <1>2 DEF migrationVars
<1>3. ASSUME NEW r \in Busy, Admit(r) \/ Write(r)
      PROVE  UseInv'
  BY <1>1, <1>3 DEF Admit, Write
<1>4. ASSUME NEW w \in Web, PollMigration(w) \/ VisitMigration(w)
      PROVE  UseInv'
  BY <1>1, <1>4 DEF PollMigration, VisitMigration
<1>5. CASE OperationDies
  BY <1>1, <1>5 DEF OperationDies
<1>6. ASSUME NEW w \in Web, ClickMigration(w)
      PROVE  UseInv'
  <2>1. PICK o \in Offered : Submit(w, o[1], o[2])
    BY <1>6 DEF ClickMigration
  <2>2. o[1] \in Kinds /\ o[2] \in Plans
    BY <2>1, OfferedPlans DEF MigrationInv
  <2>3. runtime[w] \in Databases
    BY DEF MigrationInv, MigrationTypeOK, Runtimes
  <2>4. UNCHANGED <<plans, current, selection, runtime, prepared>> /\ (hasty => hasty')
    BY <2>1 DEF Submit
  <2>5. op' = [NoOp EXCEPT !.kind = o[1], !.plan = o[2], !.by = w, !.db = runtime[w],
                           !.step = "checks"]
    BY <2>1, Zenon DEF Submit
  <2>. QED  BY <2>2, <2>3, <2>4, <2>5, UseBegins
<1>7. ASSUME NEW k \in Kinds \ {"cancel"}, NEW p \in Plans, Command(k, p)
      PROVE  UseInv'
  <2>1. selection \in Databases
    BY DEF MigrationInv, MigrationTypeOK
  <2>2. UNCHANGED <<plans, current, selection, runtime, prepared>> /\ (hasty => hasty')
    BY <1>7 DEF Command
  <2>3. op' = [NoOp EXCEPT !.kind = k, !.plan = p, !.by = "console", !.db = selection,
                           !.step = "checks"]
    BY <1>7, Zenon DEF Command
  <2>. QED  BY <2>1, <2>2, <2>3, UseBegins
<1>. QED  BY <1>2, <1>3, <1>4, <1>5, <1>6, <1>7, UseRestart, UsePlan, UseOperation, Zenon
          DEF MigrationNext

\* At the start every process is on the first database.
LEMMA UseStart == MigrationInit => UseInv
<1>. SUFFICES ASSUME MigrationInit
              PROVE  UseInv
  OBVIOUS
<1>1. \A p \in Plans : plans[p].status = "none"
  BY DEF MigrationInit, NoPlan
<1>2. OperationDatabase
  BY NoOpIs DEF OperationDatabase, MigrationInit
<1>3. RestartInv
  BY <1>1 DEF RestartInv, MigrationInit, Settled
<1>4. PlanInv
  BY <1>1 DEF PlanInv, Marked, Statuses, Pending, Terminal
<1>5. HistoryInv
  BY DEF HistoryInv, MigrationInit
<1>. QED  BY <1>2, <1>3, <1>4, <1>5 DEF UseInv

\* The fence is down only when every process is on the selection, and the history agrees.
LEMMA UseShows == MigrationInv /\ UseInv => OneDatabaseInUse
<1>. SUFFICES ASSUME MigrationInv, UseInv, fence = 0, ~hasty
              PROVE  /\ \A r \in Runtimes : runtime[r] = selection
                     /\ \A p \in Plans :
                          /\ current = p /\ plans[p].status = "active" =>
                                selection = plans[p].destination
                          /\ current = p /\ plans[p].status = "rolled_back" =>
                                selection = plans[p].source \/ RolledBackFurther(p, plans[p].source)
  BY DEF OneDatabaseInUse
<1>1. NoneWaits
  BY DEF NoneWaits, MigrationInv, FenceInv, Fenced, Plans
<1>2. \A r \in Runtimes : runtime[r] = selection
  BY <1>1 DEF UseInv, RestartInv, Settled
<1>3. ASSUME NEW p \in Plans, current = p, plans[p].status = "active"
      PROVE  selection = plans[p].destination
  BY <1>3 DEF UseInv, HistoryInv, Plans
<1>4. ASSUME NEW p \in Plans, current = p, plans[p].status = "rolled_back"
      PROVE  selection = plans[p].source \/ RolledBackFurther(p, plans[p].source)
  BY <1>1, <1>4 DEF UseInv, HistoryInv, RolledBackFurther, Plans, Pending, NoneWaits
<1>. QED  BY <1>2, <1>3, <1>4

=============================================================================
