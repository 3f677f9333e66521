-------------------------- MODULE QuerySessionSafety --------------------------
(***************************************************************************)
(* Type correctness and the safety of browser queries, for every number of *)
(* queries and every combination of faults: one active query, closed       *)
(* queries stay closed, the shown execution follows its query, and neither *)
(* a closed session nor an early cancellation lets a statement reach the   *)
(* target.                                                                 *)
(***************************************************************************)
EXTENDS QuerySession, TLAPS

-----------------------------------------------------------------------------
(* Types                                                                   *)

\* The phases a job is put into are phases.
LEMMA PhaseNames ==
    /\ "none" \in JobPhases /\ "waiting" \in JobPhases /\ "validate" \in JobPhases
    /\ "connect" \in JobPhases /\ "track" \in JobPhases /\ "start" \in JobPhases
    /\ "executing" \in JobPhases /\ "settle" \in JobPhases /\ "save" \in JobPhases
    /\ "store" \in JobPhases /\ "link" \in JobPhases /\ "reserved" \in JobPhases
    /\ "failing" \in JobPhases /\ "done" \in JobPhases
  BY DEF JobPhases

\* The outcomes that are written are outcomes.
LEMMA OutcomeNames ==
    /\ "succeeded" \in Outcomes /\ "failed" \in Outcomes
    /\ "cancelled" \in Outcomes /\ "timed_out" \in Outcomes
  BY DEF Outcomes

\* The records that stand for nothing have the types of their fields.
LEMMA EmptyTypes == NoJob \in Job /\ AbsentRow \in Row
  BY DEF NoJob, Job, JobPhases, AbsentRow, Row, ExecutionStatus, Outcomes

\* An idle interruption is an interruption.
LEMMA CloserTypes == NoCloser \in Closer
  BY DEF NoCloser, Closer, Outcomes

\* An idle end of the session is one.
LEMMA EnderTypes == NoEnder \in Ender
  BY DEF NoEnder, Ender, RequestStatus

\* The initial state has the types of the columns.
LEMMA TypeInit == Init => TypeOK
  <1> SUFFICES ASSUME Init PROVE TypeOK
    OBVIOUS
  <1> QED
    BY EmptyTypes, CloserTypes, EnderTypes, SessionAssumption
    DEF Init, TypeOK, Situation, RequestStatus, ExecutionStatus

\* A job that moves on is a job.
LEMMA PhaseType ==
    ASSUME NEW q \in Queries, job \in [Queries -> Job], NEW p \in JobPhases
    PROVE  [job EXCEPT ![q].phase = p] \in [Queries -> Job]
  BY DEF Job

\* A job that is left is a job.
LEMMA LeaveType ==
    ASSUME NEW q \in Queries, job \in [Queries -> Job], NEW p \in JobPhases, Leave(q, p)
    PROVE  job' \in [Queries -> Job]
  BY EmptyTypes DEF Job, Leave

\* A job in the catch block is a job.
LEMMA CaughtType ==
    ASSUME NEW q \in Queries, job \in [Queries -> Job], NEW o \in Outcomes, Caught(q, o)
    PROVE  job' \in [Queries -> Job]
  BY PhaseNames DEF Caught, Job

\* A job that moves on with an outcome is a job.
LEMMA OutcomeType ==
    ASSUME NEW q \in Queries, job \in [Queries -> Job], NEW p \in JobPhases, NEW o \in Outcomes
    PROVE  [job EXCEPT ![q].phase = p, ![q].outcome = o] \in [Queries -> Job]
  BY DEF Job

\* So is one whose worker has read the session, or the query.
LEMMA SeenType ==
    ASSUME NEW q \in Queries, job \in [Queries -> Job], NEW p \in JobPhases, NEW b \in BOOLEAN
    PROVE  /\ [job EXCEPT ![q].phase = p, ![q].ended = b] \in [Queries -> Job]
           /\ [job EXCEPT ![q].phase = p, ![q].cancelled = b] \in [Queries -> Job]
  BY DEF Job

\* The rows of the queries with a status, a cancellation or a backend written.
LEMMA RowType ==
    ASSUME NEW q \in Queries, row \in [Queries -> Row], NEW s \in ExecutionStatus
    PROVE  /\ [row EXCEPT ![q].status = s] \in [Queries -> Row]
           /\ [row EXCEPT ![q].status = s, ![q].cancelled = TRUE] \in [Queries -> Row]
           /\ [row EXCEPT ![q].pid = TRUE] \in [Queries -> Row]
  BY DEF Row

\* An interruption that moves on is an interruption.
LEMMA CloserType ==
    ASSUME NEW q \in Queries, NEW c \in CloserKinds,
           closer \in [Queries -> [CloserKinds -> Closer]],
           NEW p \in {"idle", "kill", "save", "link"}
    PROVE  [closer EXCEPT ![q][c].phase = p] \in [Queries -> [CloserKinds -> Closer]]
  BY DEF Closer

\* So is an end of the session that has read its queries.
LEMMA ListedType ==
    ASSUME NEW e \in EnderKinds, ender \in [EnderKinds -> Ender], NEW todo \in SUBSET Queries
    PROVE  [ender EXCEPT ![e].phase = "cancel", ![e].todo = todo] \in [EnderKinds -> Ender]
  BY DEF Ender

\* What a query can be set to.
LEMMA StatusNames ==
    /\ "queued" \in ExecutionStatus /\ "running" \in ExecutionStatus
    /\ "cancelling" \in ExecutionStatus /\ "cancelled" \in ExecutionStatus
    /\ Outcomes \subseteq ExecutionStatus
  BY DEF ExecutionStatus, Active, Outcomes

\* The functions among the variables.
LEMMA Rows ==
    ASSUME TypeOK
    PROVE  /\ job \in [Queries -> Job]
           /\ row \in [Queries -> Row]
           /\ closer \in [Queries -> [CloserKinds -> Closer]]
           /\ ender \in [EnderKinds -> Ender]
           /\ \A q \in Queries : job[q].outcome \in Outcomes
           /\ \A q \in Queries, c \in CloserKinds : closer[q][c].outcome \in Outcomes
  BY DEF TypeOK, Job, Closer

\* The transaction of cancel() keeps the types of what it writes.
LEMMA CancelType ==
    ASSUME TypeOK, NEW q \in Queries, CancelTransaction(q)
    PROVE  /\ row' \in [Queries -> Row]
           /\ execution' \in [Queries -> ExecutionStatus]
           /\ killing' \in SUBSET Queries
           /\ stopped' \in SUBSET Queries
  <1>1. row' \in [Queries -> Row]
    <2>1. \/ row' = row
          \/ row' = [row EXCEPT ![q].status = "cancelled", ![q].cancelled = TRUE]
          \/ row' = [row EXCEPT ![q].status = "cancelling", ![q].cancelled = TRUE]
      BY DEF CancelTransaction
    <2>2. /\ [row EXCEPT ![q].status = "cancelled", ![q].cancelled = TRUE] \in [Queries -> Row]
          /\ [row EXCEPT ![q].status = "cancelling", ![q].cancelled = TRUE] \in [Queries -> Row]
      BY Rows, RowType, StatusNames
    <2> QED
      BY <2>1, <2>2, Rows
  <1>2. execution' \in [Queries -> ExecutionStatus]
    BY StatusNames DEF CancelTransaction, TypeOK
  <1> QED
    BY <1>1, <1>2 DEF CancelTransaction, TypeOK

\* What happens to the request, its session and the processes that end it keeps the
\* types.
LEMMA TypeAccess ==
    ASSUME TypeOK, AccessStep
    PROVE  TypeOK'
  <1>1. CASE ChangeSituation
    BY <1>1, SessionAssumption DEF ChangeSituation, TypeOK, accessVars, queryVars,
       workVars, stopVars
  <1>2. CASE Review
    BY <1>2 DEF Review, RequestStatus, TypeOK, accessVars, queryVars, workVars,
       stopVars
  <1>3. CASE Start
    BY <1>3 DEF Start, RequestStatus, TypeOK, accessVars, queryVars, workVars,
       stopVars
  <1>4. CASE Elapse
    BY <1>4 DEF Elapse, NotTakenUp, TypeOK, accessVars, queryVars, workVars, stopVars
  <1>5. CASE CancelRequest
    <2>1. ender' \in [EnderKinds -> Ender]
      BY <1>5, EnderTypes, Rows DEF CancelRequest, EnderKinds, Ender
    <2> QED
      BY <1>5, <2>1 DEF CancelRequest, NotTakenUp, RequestStatus, TypeOK, accessVars,
         queryVars, workVars, stopVars
  <1>6. CASE LoadExpired
    <2>1. ender' \in [EnderKinds -> Ender]
      BY <1>6 DEF LoadExpired, TypeOK, EnderKinds, Ender
    <2> QED
      BY <1>6, <2>1 DEF LoadExpired, TypeOK, accessVars, queryVars, workVars, stopVars
  <1>7. CASE EndExpired
    <2>1. ender' \in [EnderKinds -> Ender]
      BY <1>7 DEF EndExpired, TypeOK, EnderKinds, Ender
    <2> QED
      BY <1>7, <2>1 DEF EndExpired, NotTakenUp, TypeOK, accessVars, queryVars,
         workVars, stopVars
  <1>8. CASE CompleteRequest
    <2>1. ender' \in [EnderKinds -> Ender]
      BY <1>8, EnderTypes DEF CompleteRequest, TypeOK, EnderKinds
    <2> QED
      BY <1>8, <2>1 DEF CompleteRequest, RequestStatus, TypeOK, accessVars, queryVars,
         workVars, stopVars
  <1>9. ASSUME NEW e \in EnderKinds, ForgetSnapshots(e) PROVE TypeOK'
    <2>1. ender' \in [EnderKinds -> Ender]
      BY <1>9, Rows DEF ForgetSnapshots, Ender
    <2> QED
      BY <1>9, <2>1 DEF ForgetSnapshots, TypeOK, accessVars, queryVars, workVars,
         stopVars
  <1>10. ASSUME NEW e \in EnderKinds, ListQueries(e) PROVE TypeOK'
    <2>1. {q \in Queries : row[q].status \in Active} \in SUBSET Queries
      BY <1>10
    <2>2. ender' \in [EnderKinds -> Ender]
      BY <1>10, <2>1, Rows, ListedType DEF ListQueries
    <2> QED
      BY <1>10, <2>1, <2>2 DEF ListQueries, TypeOK, accessVars, queryVars, workVars,
         stopVars
  <1>11. ASSUME NEW e \in EnderKinds, QueriesCancelled(e) PROVE TypeOK'
    <2>1. ender' \in [EnderKinds -> Ender]
      BY <1>11, Rows DEF QueriesCancelled, Ender
    <2> QED
      BY <1>11, <2>1 DEF QueriesCancelled, TypeOK, accessVars, queryVars, workVars,
         stopVars
  <1>12. ASSUME NEW e \in EnderKinds, EnderFails(e) PROVE TypeOK'
    <2>1. ender' \in [EnderKinds -> Ender]
      BY <1>12, EnderTypes DEF EnderFails, TypeOK
    <2> QED
      BY <1>12, <2>1 DEF EnderFails, TypeOK, accessVars, queryVars, workVars, stopVars
  <1>13. ASSUME NEW e \in EnderKinds, NEW q \in Queries, CancelForSession(e, q) PROVE TypeOK'
    <2>1. ender' \in [EnderKinds -> Ender]
      BY <1>13 DEF CancelForSession, TypeOK, Ender
    <2>2. CancelTransaction(q)
      BY <1>13 DEF CancelForSession
    <2> QED
      BY <1>13, <2>1, <2>2, CancelType DEF CancelForSession, TypeOK, accessVars, queryVars,
         workVars, stopVars
  <1> QED
    BY <1>1, <1>2, <1>3, <1>4, <1>5, <1>6, <1>7, <1>8, <1>9, <1>10, <1>11, <1>12,
       <1>13 DEF AccessStep, EnderStep

\* So does every step in the life of a query.
LEMMA TypeQuery ==
    ASSUME TypeOK, NEW q \in Queries, QueryStep(q)
    PROVE  TypeOK'
  <1>1. CASE BeginQueue(q)
    BY <1>1 DEF BeginQueue, TypeOK, accessVars, queryVars, workVars, stopVars
  <1>2. CASE CreateQuery(q)
    <2>1. \/ row' = row
          \/ row' = [row EXCEPT ![q].status = "queued"]
      BY <1>2 DEF CreateQuery, queryVars
    <2>2. [row EXCEPT ![q].status = "queued"] \in [Queries -> Row]
      BY Rows, RowType, StatusNames
    <2>3. row' \in [Queries -> Row]
      BY <2>1, <2>2, Rows
    <2> QED
      BY <1>2, <2>3 DEF CreateQuery, ExecutionStatus, Active, Outcomes, TypeOK,
         accessVars, queryVars, workVars, stopVars
  <1>3. CASE Push(q)
    <2>1. job' \in [Queries -> Job]
      BY <1>3, Rows, PhaseNames, PhaseType DEF Push
    <2> QED
      BY <1>3, <2>1 DEF Push, TypeOK, accessVars, queryVars, workVars, stopVars
  <1>4. CASE PushFails(q)
    <2>1. \/ job' = job
          \/ job' = [job EXCEPT ![q].phase = "waiting"]
      BY <1>4 DEF PushFails
    <2>2. [job EXCEPT ![q].phase = "waiting"] \in [Queries -> Job]
      BY Rows, PhaseNames, PhaseType
    <2>3. job' \in [Queries -> Job]
      BY <2>1, <2>2, Rows
    <2> QED
      BY <1>4, <2>3 DEF PushFails, TypeOK, accessVars, queryVars, workVars, stopVars
  <1>5. CASE CallDies(q)
    BY <1>5 DEF CallDies, TypeOK, accessVars, queryVars, workVars, stopVars
  <1>6. CASE Claim(q)
    <2>1. \/ Leave(q, "done")
          \/ job' = [job EXCEPT ![q].phase = "validate", ![q].ended = session = "ended"]
      BY <1>6 DEF Claim
    <2>2. [job EXCEPT ![q].phase = "validate", ![q].ended = session = "ended"] \in [Queries -> Job]
      BY Rows, PhaseNames, SeenType
    <2>3. ASSUME Leave(q, "done") PROVE job' \in [Queries -> Job]
      BY <2>3, Rows, PhaseNames, LeaveType
    <2>4. job' \in [Queries -> Job]
      BY <2>1, <2>2, <2>3, Rows
    <2>5. \/ row' = row
          \/ row' = [row EXCEPT ![q].status = "running"]
      BY <1>6 DEF Claim, queryVars
    <2>6. [row EXCEPT ![q].status = "running"] \in [Queries -> Row]
      BY Rows, RowType, StatusNames
    <2>7. row' \in [Queries -> Row]
      BY <2>5, <2>6, Rows
    <2> QED
      BY <1>6, <2>4, <2>7 DEF Claim, ExecutionStatus, Active, Outcomes, TypeOK,
         accessVars, queryVars, workVars, stopVars
  <1>7. CASE Validate(q)
    <2>1. \/ Caught(q, "failed")
          \/ job' = [job EXCEPT ![q].phase = "connect"]
      BY <1>7 DEF Validate
    <2>2. [job EXCEPT ![q].phase = "connect"] \in [Queries -> Job]
      BY Rows, PhaseNames, PhaseType
    <2>3. ASSUME Caught(q, "failed") PROVE job' \in [Queries -> Job]
      BY <2>3, Rows, OutcomeNames, CaughtType
    <2>4. job' \in [Queries -> Job]
      BY <2>1, <2>2, <2>3, Rows
    <2> QED
      BY <1>7, <2>4 DEF Validate, TypeOK, accessVars, queryVars, workVars, stopVars
  <1>8. CASE Connect(q)
    <2>1. \/ Caught(q, "failed")
          \/ job' = [job EXCEPT ![q].phase = "track", ![q].cancelled = (row[q].cancelled \/ row[q].status = "cancelling")]
      BY <1>8 DEF Connect
    <2>2. [job EXCEPT ![q].phase = "track", ![q].cancelled = (row[q].cancelled \/ row[q].status = "cancelling")] \in [Queries -> Job]
      BY Rows, PhaseNames, SeenType DEF Row
    <2>3. ASSUME Caught(q, "failed") PROVE job' \in [Queries -> Job]
      BY <2>3, Rows, OutcomeNames, CaughtType
    <2>4. job' \in [Queries -> Job]
      BY <2>1, <2>2, <2>3, Rows
    <2> QED
      BY <1>8, <2>4 DEF Connect, TypeOK, accessVars, queryVars, workVars, stopVars
  <1>9. CASE Track(q)
    <2>1. \/ Caught(q, "failed")
          \/ job' = [job EXCEPT ![q].phase = "start"]
      BY <1>9 DEF Track
    <2>2. [job EXCEPT ![q].phase = "start"] \in [Queries -> Job]
      BY Rows, PhaseNames, PhaseType
    <2>3. ASSUME Caught(q, "failed") PROVE job' \in [Queries -> Job]
      BY <2>3, Rows, OutcomeNames, CaughtType
    <2>4. job' \in [Queries -> Job]
      BY <2>1, <2>2, <2>3, Rows
    <2>5. row' \in [Queries -> Row]
      BY <1>9, Rows, RowType, StatusNames DEF Track
    <2> QED
      BY <1>9, <2>4, <2>5 DEF Track, TypeOK, accessVars, queryVars, workVars, stopVars
  <1>10. CASE StartStatement(q)
    <2>1. job' \in [Queries -> Job]
      BY <1>10, Rows, PhaseNames, PhaseType DEF StartStatement
    <2> QED
      BY <1>10, <2>1 DEF StartStatement, TypeOK, accessVars, queryVars, workVars,
         stopVars
  <1>11. CASE StatementEnds(q)
    BY <1>11 DEF StatementEnds, TypeOK, accessVars, queryVars, workVars, stopVars
  <1>12. CASE Answer(q)
    <2>1. \/ Caught(q, "failed")
          \/ Caught(q, "timed_out")
          \/ job' = [job EXCEPT ![q].phase = "settle", ![q].outcome = "succeeded"]
      BY <1>12 DEF Answer
    <2>2. [job EXCEPT ![q].phase = "settle", ![q].outcome = "succeeded"] \in [Queries -> Job]
      BY Rows, PhaseNames, OutcomeNames, OutcomeType
    <2>3. ASSUME Caught(q, "failed") PROVE job' \in [Queries -> Job]
      BY <2>3, Rows, OutcomeNames, CaughtType
    <2>4. ASSUME Caught(q, "timed_out") PROVE job' \in [Queries -> Job]
      BY <2>4, Rows, OutcomeNames, CaughtType
    <2>5. job' \in [Queries -> Job]
      BY <2>1, <2>2, <2>3, <2>4, Rows
    <2> QED
      BY <1>12, <2>5 DEF Answer, TypeOK, accessVars, queryVars, workVars, stopVars
  <1>13. CASE Settle(q)
    <2>1. \/ Leave(q, "done")
          \/ job' = [job EXCEPT ![q].phase = "save", ![q].outcome = "cancelled"]
          \/ job' = [job EXCEPT ![q].phase = "save"]
      BY <1>13 DEF Settle
    <2>2. /\ [job EXCEPT ![q].phase = "save", ![q].outcome = "cancelled"] \in [Queries -> Job]
          /\ [job EXCEPT ![q].phase = "save"] \in [Queries -> Job]
      BY Rows, PhaseNames, OutcomeNames, PhaseType, OutcomeType
    <2>3. ASSUME Leave(q, "done") PROVE job' \in [Queries -> Job]
      BY <2>3, Rows, PhaseNames, LeaveType
    <2>4. job' \in [Queries -> Job]
      BY <2>1, <2>2, <2>3, Rows
    <2> QED
      BY <1>13, <2>4 DEF Settle, TypeOK, accessVars, queryVars, workVars, stopVars
  <1>14. CASE SaveOutcome(q)
    <2>1. job' \in [Queries -> Job]
      BY <1>14, Rows, PhaseNames, PhaseType DEF SaveOutcome
    <2>2. row' \in [Queries -> Row]
      BY <1>14, Rows, RowType, StatusNames DEF SaveOutcome
    <2> QED
      BY <1>14, <2>1, <2>2 DEF SaveOutcome, TypeOK, accessVars, queryVars, workVars,
         stopVars
  <1>15. CASE StoreSnapshot(q)
    <2>1. job' \in [Queries -> Job]
      BY <1>15, Rows, PhaseNames, PhaseType DEF StoreSnapshot
    <2> QED
      BY <1>15, <2>1 DEF StoreSnapshot, TypeOK, accessVars, queryVars, workVars,
         stopVars
  <1>16. CASE LinkOutcome(q)
    <2>1. job' \in [Queries -> Job]
      BY <1>16, Rows, PhaseNames, LeaveType DEF LinkOutcome
    <2>2. execution' \in [Queries -> ExecutionStatus]
      BY <1>16, Rows, StatusNames DEF LinkOutcome, TypeOK
    <2> QED
      BY <1>16, <2>1, <2>2 DEF LinkOutcome, TypeOK, accessVars, queryVars, workVars,
         stopVars
  <1>17. CASE Throw(q)
    <2>1. job' \in [Queries -> Job]
      BY <1>17, Rows, PhaseNames, OutcomeNames, LeaveType, CaughtType DEF Throw
    <2> QED
      BY <1>17, <2>1 DEF Throw, TypeOK, accessVars, queryVars, workVars, stopVars
  <1>18. CASE Timeout(q)
    <2>1. job' \in [Queries -> Job]
      BY <1>18, Rows, PhaseNames, LeaveType DEF Timeout
    <2> QED
      BY <1>18, <2>1 DEF Timeout, TypeOK, accessVars, queryVars, workVars, stopVars
  <1>19. CASE Crash(q)
    <2>1. job' \in [Queries -> Job]
      BY <1>19, Rows, PhaseNames, LeaveType DEF Crash
    <2> QED
      BY <1>19, <2>1 DEF Crash, TypeOK, accessVars, queryVars, workVars, stopVars
  <1>20. CASE Redeliver(q)
    <2>1. job' \in [Queries -> Job]
      BY <1>20, Rows, PhaseNames, LeaveType DEF Redeliver
    <2> QED
      BY <1>20, <2>1 DEF Redeliver, TypeOK, accessVars, queryVars, workVars, stopVars
  <1>21. CASE CancelQuery(q)
    <2>1. CancelTransaction(q)
      BY <1>21 DEF CancelQuery
    <2> QED
      BY <1>21, <2>1, CancelType DEF CancelQuery, TypeOK, accessVars, queryVars, workVars,
         stopVars
  <1>22. CASE Kill(q)
    BY <1>22 DEF Kill, Killed, TypeOK, accessVars, queryVars, workVars, stopVars
  <1>23. CASE Age(q)
    BY <1>23 DEF Age, TypeOK, accessVars, queryVars, workVars, stopVars
  <1>24. CASE DispatchFailed(q)
    <2>1. closer' \in [Queries -> [CloserKinds -> Closer]]
      BY <1>24, OutcomeNames DEF DispatchFailed, MarkDispatchFailed, TypeOK, Closer,
         CloserKinds
    <2> QED
      BY <1>24, <2>1 DEF DispatchFailed, MarkDispatchFailed, TypeOK, accessVars,
         queryVars, workVars, stopVars
  <1>25. CASE ReconcileQueued(q)
    <2>1. closer' \in [Queries -> [CloserKinds -> Closer]]
      BY <1>25, OutcomeNames DEF ReconcileQueued, MarkDispatchFailed, TypeOK, Closer,
         CloserKinds
    <2> QED
      BY <1>25, <2>1 DEF ReconcileQueued, MarkDispatchFailed, TypeOK, accessVars,
         queryVars, workVars, stopVars
  <1>26. CASE ReconcileActive(q)
    <2>1. closer' \in [Queries -> [CloserKinds -> Closer]]
      BY <1>26, OutcomeNames DEF ReconcileActive, MarkInterrupted, Row, TypeOK,
         Closer, CloserKinds
    <2> QED
      BY <1>26, <2>1 DEF ReconcileActive, MarkInterrupted, TypeOK, accessVars,
         queryVars, workVars, stopVars
  <1>27. CASE FailedHook(q)
    <2>1. job' \in [Queries -> Job]
      BY <1>27, PhaseNames, LeaveType DEF FailedHook, TypeOK
    <2>2. closer' \in [Queries -> [CloserKinds -> Closer]]
      BY <1>27, OutcomeNames DEF FailedHook, MarkInterrupted, Row, TypeOK, Closer,
         CloserKinds
    <2> QED
      BY <1>27, <2>1, <2>2 DEF FailedHook, MarkInterrupted, TypeOK, accessVars,
         queryVars, workVars, stopVars
  <1>28. ASSUME NEW c \in CloserKinds, CloserKills(c, q) PROVE TypeOK'
    <2>1. closer' \in [Queries -> [CloserKinds -> Closer]]
      BY <1>28, Rows, CloserType DEF CloserKills
    <2> QED
      BY <1>28, <2>1 DEF CloserKills, Killed, TypeOK, accessVars, queryVars, workVars,
         stopVars
  <1>29. ASSUME NEW c \in CloserKinds, CloserSaves(c, q) PROVE TypeOK'
    <2>1. closer' \in [Queries -> [CloserKinds -> Closer]]
      BY <1>29, Rows, CloserType DEF CloserSaves
    <2>2. row' \in [Queries -> Row]
      BY <1>29, Rows, RowType, StatusNames DEF CloserSaves
    <2> QED
      BY <1>29, <2>1, <2>2 DEF CloserSaves, TypeOK, accessVars, queryVars, workVars,
         stopVars
  <1>30. ASSUME NEW c \in CloserKinds, CloserLinks(c, q) PROVE TypeOK'
    <2>1. closer' \in [Queries -> [CloserKinds -> Closer]]
      BY <1>30, CloserTypes DEF CloserLinks, TypeOK
    <2>2. execution' \in [Queries -> ExecutionStatus]
      BY <1>30 DEF CloserLinks, TypeOK, Closer, ExecutionStatus
    <2> QED
      BY <1>30, <2>1, <2>2 DEF CloserLinks, TypeOK, accessVars, queryVars, workVars,
         stopVars
  <1>31. ASSUME NEW c \in CloserKinds, CloserDies(c, q) PROVE TypeOK'
    <2>1. closer' \in [Queries -> [CloserKinds -> Closer]]
      BY <1>31, CloserTypes DEF CloserDies, TypeOK
    <2> QED
      BY <1>31, <2>1 DEF CloserDies, TypeOK, accessVars, queryVars, workVars, stopVars
  <1> QED
    BY <1>1, <1>2, <1>3, <1>4, <1>5, <1>6, <1>7, <1>8, <1>9, <1>10, <1>11, <1>12,
       <1>13, <1>14, <1>15, <1>16, <1>17, <1>18, <1>19, <1>20, <1>21, <1>22, <1>23,
       <1>24, <1>25, <1>26, <1>27, <1>28, <1>29, <1>30, <1>31 DEF QueryStep,
       QueueStep, WorkerStep, CloserStep, ReconcileStep, FaultStep

\* The columns of the request, the session, the queries and their executions, and
\* the local state of every process, always have their types.
THEOREM TypeCorrect == Spec => []TypeOK
  <1>1. TypeOK /\ [Next]_vars => TypeOK'
    <2> SUFFICES ASSUME TypeOK, [Next]_vars PROVE TypeOK'
      OBVIOUS
    <2>1. CASE UNCHANGED vars
      BY <2>1 DEF TypeOK, vars
    <2> QED
      BY <2>1, TypeAccess, TypeQuery DEF Next
  <1> QED
    BY TypeInit, <1>1, PTL DEF Spec


-----------------------------------------------------------------------------
(* The inductive invariant: what holds of one query                        *)

\* A query that queue() has not created has no row and nobody closes it; before
\* the push it has no job.
Fresh(q) ==
    /\ call[q] \in {"none", "validated"} =>
          row[q].status = "absent" /\ \A c \in CloserKinds : closer[q][c].phase = "idle"
    /\ call[q] \in {"none", "validated", "created"} => job[q].phase = "none"

\* Whoever has only the linked execution left to update has closed the query.
Linked(q) ==
    /\ job[q].phase \in {"store", "link"} => row[q].status \in Outcomes
    /\ \A c \in CloserKinds : closer[q][c].phase = "link" => row[q].status \in Outcomes

\* The linked execution has the status of an active query.
Followed(q) == row[q].status \in Active => execution[q] = row[q].status

\* Until the worker sends the statement, the target has not seen it.
Unsent(q) ==
    job[q].phase \in {"none", "waiting", "validate", "connect", "track", "start"}
        => target[q] = "idle"

\* A query that was not taken up when the session closed cannot pass the second
\* validation.
ShutOut(q) ==
    q \in shut => /\ session = "ended" \/ expired
                  /\ target[q] = "idle"
                  /\ job[q].phase \notin {"connect", "track", "start", "executing"}
                  /\ job[q].phase = "validate" => job[q].ended \/ expired

\* A query that was cancelled before its connection was tracked keeps
\* cancel_requested_at, and the worker that reads it does not start.
Stopped(q) ==
    q \in stopped => /\ row[q].cancelled
                     /\ target[q] = "idle"
                     /\ job[q].phase \notin {"start", "executing"}
                     /\ job[q].phase = "track" => job[q].cancelled

QueryInv(q) ==
    Fresh(q) /\ Linked(q) /\ Followed(q) /\ Unsent(q) /\ ShutOut(q) /\ Stopped(q)

-----------------------------------------------------------------------------
(* A step of a query preserves what holds of it                            *)

\* Every step of a query keeps the invariant of that query.
LEMMA QueryStepInv ==
    ASSUME TypeOK, NEW q \in Queries, QueryInv(q), QueryStep(q)
    PROVE  QueryInv(q)'
  <1>1. CASE BeginQueue(q)
    BY <1>1 DEF BeginQueue, QueryInv, Fresh, Linked, Followed, Unsent, ShutOut,
       Stopped, TypeOK, Job, Row, Closer, Active, Outcomes, accessVars, queryVars,
       workVars, stopVars
  <1>2. CASE CreateQuery(q)
    <2>1. Fresh(q)'
      BY <1>2 DEF CreateQuery, QueryInv, Fresh, TypeOK, Job, Row, Closer, Active,
         Outcomes, accessVars, queryVars, workVars, stopVars
    <2>2. Linked(q)'
      BY <1>2 DEF CreateQuery, QueryInv, Fresh, Linked, TypeOK, Job, Row, Closer,
         Active, Outcomes, accessVars, queryVars, workVars, stopVars
    <2>3. Followed(q)'
      BY <1>2 DEF CreateQuery, QueryInv, Followed, TypeOK, Job, Row, Closer, Active,
         Outcomes, accessVars, queryVars, workVars, stopVars
    <2>4. Unsent(q)'
      BY <1>2 DEF CreateQuery, QueryInv, Unsent, TypeOK, Job, Row, Closer, Active,
         Outcomes, accessVars, queryVars, workVars, stopVars
    <2>5. ShutOut(q)'
      BY <1>2 DEF CreateQuery, QueryInv, ShutOut, TypeOK, Job, Row, Closer, Active,
         Outcomes, accessVars, queryVars, workVars, stopVars
    <2>6. Stopped(q)'
      BY <1>2 DEF CreateQuery, QueryInv, Stopped, TypeOK, Job, Row, Closer, Active,
         Outcomes, accessVars, queryVars, workVars, stopVars
    <2> QED
      BY <2>1, <2>2, <2>3, <2>4, <2>5, <2>6 DEF QueryInv
  <1>3. CASE Push(q)
    BY <1>3 DEF Push, QueryInv, Fresh, Linked, Followed, Unsent, ShutOut, Stopped,
       TypeOK, Job, Row, Closer, Active, Outcomes, accessVars, queryVars, workVars,
       stopVars
  <1>4. CASE PushFails(q)
    BY <1>4 DEF PushFails, QueryInv, Fresh, Linked, Followed, Unsent, ShutOut,
       Stopped, TypeOK, Job, Row, Closer, Active, Outcomes, accessVars, queryVars,
       workVars, stopVars
  <1>5. CASE CallDies(q)
    BY <1>5 DEF CallDies, QueryInv, Fresh, Linked, Followed, Unsent, ShutOut, Stopped,
       TypeOK, Job, Row, Closer, Active, Outcomes, accessVars, queryVars, workVars,
       stopVars
  <1>6. CASE Claim(q)
    <2>1. Fresh(q)'
      BY <1>6 DEF Claim, Leave, NoJob, QueryInv, Fresh, TypeOK, Job, Row, Closer,
         Active, Outcomes, accessVars, queryVars, workVars, stopVars
    <2>2. Linked(q)'
      <3>1. CASE row[q].status # "queued"
        BY <1>6, <3>1 DEF Claim, Leave, NoJob, QueryInv, Linked, TypeOK, queryVars, stopVars
      <3>2. CASE row[q].status = "queued"
        <4>1. \A c \in CloserKinds : closer[q][c].phase # "link"
          BY <3>2 DEF QueryInv, Linked, Outcomes
        <4>2. closer' = closer
          BY <1>6 DEF Claim, stopVars
        <4>3. job'[q].phase = "validate"
          BY <1>6, <3>2 DEF Claim, TypeOK, Job
        <4> QED
          BY <4>1, <4>2, <4>3 DEF Linked
      <3> QED
        BY <3>1, <3>2
    <2>3. Followed(q)'
      BY <1>6 DEF Claim, Leave, NoJob, QueryInv, Followed, TypeOK, Job, Row, Closer,
         Active, Outcomes, accessVars, queryVars, workVars, stopVars
    <2>4. Unsent(q)'
      BY <1>6 DEF Claim, Leave, NoJob, QueryInv, Unsent, TypeOK, Job, Row, Closer,
         Active, Outcomes, accessVars, queryVars, workVars, stopVars
    <2>5. ShutOut(q)'
      BY <1>6 DEF Claim, Leave, NoJob, QueryInv, ShutOut, TypeOK, Job, Row, Closer,
         Active, Outcomes, accessVars, queryVars, workVars, stopVars
    <2>6. Stopped(q)'
      BY <1>6 DEF Claim, Leave, NoJob, QueryInv, Stopped, TypeOK, Job, Row, Closer,
         Active, Outcomes, accessVars, queryVars, workVars, stopVars
    <2> QED
      BY <2>1, <2>2, <2>3, <2>4, <2>5, <2>6 DEF QueryInv
  <1>7. CASE Validate(q)
    BY <1>7 DEF Validate, Caught, QueryInv, Fresh, Linked, Followed, Unsent, ShutOut,
       Stopped, TypeOK, Job, Row, Closer, Active, Outcomes, accessVars, queryVars,
       workVars, stopVars
  <1>8. CASE Connect(q)
    BY <1>8 DEF Connect, Caught, QueryInv, Fresh, Linked, Followed, Unsent, ShutOut,
       Stopped, TypeOK, Job, Row, Closer, Active, Outcomes, accessVars, queryVars,
       workVars, stopVars
  <1>9. CASE Track(q)
    BY <1>9 DEF Track, Caught, QueryInv, Fresh, Linked, Followed, Unsent, ShutOut,
       Stopped, TypeOK, Job, Row, Closer, Active, Outcomes, accessVars, queryVars,
       workVars, stopVars
  <1>10. CASE StartStatement(q)
    BY <1>10 DEF StartStatement, QueryInv, Fresh, Linked, Followed, Unsent, ShutOut,
       Stopped, TypeOK, Job, Row, Closer, Active, Outcomes, accessVars, queryVars,
       workVars, stopVars
  <1>11. CASE StatementEnds(q)
    BY <1>11 DEF StatementEnds, QueryInv, Fresh, Linked, Followed, Unsent, ShutOut,
       Stopped, TypeOK, Job, Row, Closer, Active, Outcomes, accessVars, queryVars,
       workVars, stopVars
  <1>12. CASE Answer(q)
    BY <1>12 DEF Answer, Caught, QueryInv, Fresh, Linked, Followed, Unsent, ShutOut,
       Stopped, TypeOK, Job, Row, Closer, Active, Outcomes, accessVars, queryVars,
       workVars, stopVars
  <1>13. CASE Settle(q)
    BY <1>13 DEF Settle, Leave, NoJob, QueryInv, Fresh, Linked, Followed, Unsent,
       ShutOut, Stopped, TypeOK, Job, Row, Closer, Active, Outcomes, accessVars,
       queryVars, workVars, stopVars
  <1>14. CASE SaveOutcome(q)
    BY <1>14 DEF SaveOutcome, QueryInv, Fresh, Linked, Followed, Unsent, ShutOut,
       Stopped, TypeOK, Job, Row, Closer, Active, Outcomes, accessVars, queryVars,
       workVars, stopVars
  <1>15. CASE StoreSnapshot(q)
    BY <1>15 DEF StoreSnapshot, QueryInv, Fresh, Linked, Followed, Unsent, ShutOut,
       Stopped, TypeOK, Job, Row, Closer, Active, Outcomes, accessVars, queryVars,
       workVars, stopVars
  <1>16. CASE LinkOutcome(q)
    BY <1>16 DEF LinkOutcome, Leave, NoJob, QueryInv, Fresh, Linked, Followed, Unsent,
       ShutOut, Stopped, TypeOK, Job, Row, Closer, Active, Outcomes, accessVars,
       queryVars, workVars, stopVars
  <1>17. CASE Throw(q)
    BY <1>17 DEF Throw, Caught, Leave, NoJob, AtWork, QueryInv, Fresh, Linked,
       Followed, Unsent, ShutOut, Stopped, TypeOK, Job, Row, Closer, Active, Outcomes,
       accessVars, queryVars, workVars, stopVars
  <1>18. CASE Timeout(q)
    BY <1>18 DEF Timeout, Leave, NoJob, AtWork, QueryInv, Fresh, Linked, Followed,
       Unsent, ShutOut, Stopped, TypeOK, Job, Row, Closer, Active, Outcomes,
       accessVars, queryVars, workVars, stopVars
  <1>19. CASE Crash(q)
    BY <1>19 DEF Crash, Leave, NoJob, AtWork, QueryInv, Fresh, Linked, Followed,
       Unsent, ShutOut, Stopped, TypeOK, Job, Row, Closer, Active, Outcomes,
       accessVars, queryVars, workVars, stopVars
  <1>20. CASE Redeliver(q)
    BY <1>20 DEF Redeliver, Leave, NoJob, QueryInv, Fresh, Linked, Followed, Unsent,
       ShutOut, Stopped, TypeOK, Job, Row, Closer, Active, Outcomes, accessVars,
       queryVars, workVars, stopVars
  <1>21. CASE CancelQuery(q)
    BY <1>21 DEF CancelQuery, CancelTransaction, QueryInv, Fresh, Linked, Followed,
       Unsent, ShutOut, Stopped, TypeOK, Job, Row, Closer, Active, Outcomes,
       accessVars, queryVars, workVars, stopVars
  <1>22. CASE Kill(q)
    BY <1>22 DEF Kill, Killed, QueryInv, Fresh, Linked, Followed, Unsent, ShutOut,
       Stopped, TypeOK, Job, Row, Closer, Active, Outcomes, accessVars, queryVars,
       workVars, stopVars
  <1>23. CASE Age(q)
    BY <1>23 DEF Age, QueryInv, Fresh, Linked, Followed, Unsent, ShutOut, Stopped,
       TypeOK, Job, Row, Closer, Active, Outcomes, accessVars, queryVars, workVars,
       stopVars
  <1>24. CASE DispatchFailed(q)
    BY <1>24 DEF DispatchFailed, MarkDispatchFailed, QueryInv, Fresh, Linked,
       Followed, Unsent, ShutOut, Stopped, TypeOK, Job, Row, Closer, Active, Outcomes,
       accessVars, queryVars, workVars, stopVars
  <1>25. CASE ReconcileQueued(q)
    BY <1>25 DEF ReconcileQueued, MarkDispatchFailed, QueryInv, Fresh, Linked,
       Followed, Unsent, ShutOut, Stopped, TypeOK, Job, Row, Closer, Active, Outcomes,
       accessVars, queryVars, workVars, stopVars
  <1>26. CASE ReconcileActive(q)
    BY <1>26 DEF ReconcileActive, MarkInterrupted, QueryInv, Fresh, Linked, Followed,
       Unsent, ShutOut, Stopped, TypeOK, Job, Row, Closer, Active, Outcomes,
       accessVars, queryVars, workVars, stopVars
  <1>27. CASE FailedHook(q)
    BY <1>27 DEF FailedHook, MarkInterrupted, Leave, NoJob, QueryInv, Fresh, Linked,
       Followed, Unsent, ShutOut, Stopped, TypeOK, Job, Row, Closer, Active, Outcomes,
       accessVars, queryVars, workVars, stopVars
  <1>28. ASSUME NEW c \in CloserKinds, CloserKills(c, q) PROVE QueryInv(q)'
    BY <1>28 DEF CloserKills, Killed, QueryInv, Fresh, Linked, Followed, Unsent,
       ShutOut, Stopped, TypeOK, Job, Row, Closer, Active, Outcomes, accessVars,
       queryVars, workVars, stopVars
  <1>29. ASSUME NEW c \in CloserKinds, CloserSaves(c, q) PROVE QueryInv(q)'
    <2>1. Fresh(q)'
      BY <1>29 DEF CloserSaves, QueryInv, Fresh, TypeOK, Job, Row, Closer, Active,
         Outcomes, accessVars, queryVars, workVars, stopVars
    <2>2. Linked(q)'
      BY <1>29 DEF CloserSaves, QueryInv, Fresh, Linked, TypeOK, Job, Row, Closer,
         Active, Outcomes, accessVars, queryVars, workVars, stopVars
    <2>3. Followed(q)'
      <3>1. row'[q].status = closer[q][c].outcome
        BY <1>29, Rows DEF CloserSaves, Row
      <3> QED
        BY <3>1, Rows DEF Followed, Active, Outcomes
    <2>4. Unsent(q)'
      BY <1>29 DEF CloserSaves, QueryInv, Unsent, TypeOK, Job, Row, Closer, Active,
         Outcomes, accessVars, queryVars, workVars, stopVars
    <2>5. ShutOut(q)'
      BY <1>29 DEF CloserSaves, QueryInv, ShutOut, TypeOK, Job, Row, Closer, Active,
         Outcomes, accessVars, queryVars, workVars, stopVars
    <2>6. Stopped(q)'
      BY <1>29 DEF CloserSaves, QueryInv, Stopped, TypeOK, Job, Row, Closer, Active,
         Outcomes, accessVars, queryVars, workVars, stopVars
    <2> QED
      BY <2>1, <2>2, <2>3, <2>4, <2>5, <2>6 DEF QueryInv
  <1>30. ASSUME NEW c \in CloserKinds, CloserLinks(c, q) PROVE QueryInv(q)'
    BY <1>30 DEF CloserLinks, NoCloser, QueryInv, Fresh, Linked, Followed, Unsent,
       ShutOut, Stopped, TypeOK, Job, Row, Closer, Active, Outcomes, accessVars,
       queryVars, workVars, stopVars
  <1>31. ASSUME NEW c \in CloserKinds, CloserDies(c, q) PROVE QueryInv(q)'
    BY <1>31 DEF CloserDies, NoCloser, QueryInv, Fresh, Linked, Followed, Unsent,
       ShutOut, Stopped, TypeOK, Job, Row, Closer, Active, Outcomes, accessVars,
       queryVars, workVars, stopVars
  <1> QED
    BY <1>1, <1>2, <1>3, <1>4, <1>5, <1>6, <1>7, <1>8, <1>9, <1>10, <1>11, <1>12,
       <1>13, <1>14, <1>15, <1>16, <1>17, <1>18, <1>19, <1>20, <1>21, <1>22, <1>23,
       <1>24, <1>25, <1>26, <1>27, <1>28, <1>29, <1>30, <1>31 DEF QueryStep,
       QueueStep, WorkerStep, CloserStep, ReconcileStep, FaultStep

-----------------------------------------------------------------------------
(* A step of a query leaves the other queries alone                        *)

\* Nothing the invariant of p looks at changes.
Same(p) ==
    /\ call'[p] = call[p] /\ row'[p] = row[p] /\ execution'[p] = execution[p]
    /\ job'[p] = job[p] /\ target'[p] = target[p] /\ closer'[p] = closer[p]
    /\ p \in stopped' <=> p \in stopped
    /\ p \in shut' <=> p \in shut
    /\ session' = session /\ expired' = expired

\* Then the invariant of p is kept.
LEMMA SameInv ==
    ASSUME NEW p \in Queries, QueryInv(p), Same(p)
    PROVE  QueryInv(p)'
  BY DEF Same, QueryInv, Fresh, Linked, Followed, Unsent, ShutOut, Stopped

\* A step of q is nothing to another query p.
LEMMA OtherQueries ==
    ASSUME TypeOK, NEW q \in Queries, NEW p \in Queries, p # q, QueryStep(q)
    PROVE  Same(p)
  <1>1. CASE BeginQueue(q)
    BY <1>1 DEF BeginQueue, Same, TypeOK, accessVars, queryVars, workVars, stopVars
  <1>2. CASE CreateQuery(q)
    BY <1>2 DEF CreateQuery, Same, TypeOK, accessVars, queryVars, workVars, stopVars
  <1>3. CASE Push(q)
    BY <1>3 DEF Push, Same, TypeOK, accessVars, queryVars, workVars, stopVars
  <1>4. CASE PushFails(q)
    BY <1>4 DEF PushFails, Same, TypeOK, accessVars, queryVars, workVars, stopVars
  <1>5. CASE CallDies(q)
    BY <1>5 DEF CallDies, Same, TypeOK, accessVars, queryVars, workVars, stopVars
  <1>6. CASE Claim(q)
    BY <1>6 DEF Claim, Leave, Same, TypeOK, accessVars, queryVars, workVars, stopVars
  <1>7. CASE Validate(q)
    BY <1>7 DEF Validate, Caught, Same, TypeOK, accessVars, queryVars, workVars,
       stopVars
  <1>8. CASE Connect(q)
    BY <1>8 DEF Connect, Caught, Same, TypeOK, accessVars, queryVars, workVars,
       stopVars
  <1>9. CASE Track(q)
    BY <1>9 DEF Track, Caught, Same, TypeOK, accessVars, queryVars, workVars, stopVars
  <1>10. CASE StartStatement(q)
    BY <1>10 DEF StartStatement, Same, TypeOK, accessVars, queryVars, workVars,
       stopVars
  <1>11. CASE StatementEnds(q)
    BY <1>11 DEF StatementEnds, Same, TypeOK, accessVars, queryVars, workVars,
       stopVars
  <1>12. CASE Answer(q)
    BY <1>12 DEF Answer, Caught, Same, TypeOK, accessVars, queryVars, workVars,
       stopVars
  <1>13. CASE Settle(q)
    BY <1>13 DEF Settle, Leave, Same, TypeOK, accessVars, queryVars, workVars,
       stopVars
  <1>14. CASE SaveOutcome(q)
    BY <1>14 DEF SaveOutcome, Same, TypeOK, accessVars, queryVars, workVars, stopVars
  <1>15. CASE StoreSnapshot(q)
    BY <1>15 DEF StoreSnapshot, Same, TypeOK, accessVars, queryVars, workVars,
       stopVars
  <1>16. CASE LinkOutcome(q)
    BY <1>16 DEF LinkOutcome, Leave, Same, TypeOK, accessVars, queryVars, workVars,
       stopVars
  <1>17. CASE Throw(q)
    BY <1>17 DEF Throw, Caught, Leave, Same, TypeOK, accessVars, queryVars, workVars,
       stopVars
  <1>18. CASE Timeout(q)
    BY <1>18 DEF Timeout, Leave, Same, TypeOK, accessVars, queryVars, workVars,
       stopVars
  <1>19. CASE Crash(q)
    BY <1>19 DEF Crash, Leave, Same, TypeOK, accessVars, queryVars, workVars, stopVars
  <1>20. CASE Redeliver(q)
    BY <1>20 DEF Redeliver, Leave, Same, TypeOK, accessVars, queryVars, workVars,
       stopVars
  <1>21. CASE CancelQuery(q)
    BY <1>21 DEF CancelQuery, CancelTransaction, Same, TypeOK, accessVars, queryVars,
       workVars, stopVars
  <1>22. CASE Kill(q)
    BY <1>22 DEF Kill, Killed, Same, TypeOK, accessVars, queryVars, workVars, stopVars
  <1>23. CASE Age(q)
    BY <1>23 DEF Age, Same, TypeOK, accessVars, queryVars, workVars, stopVars
  <1>24. CASE DispatchFailed(q)
    BY <1>24 DEF DispatchFailed, MarkDispatchFailed, Same, TypeOK, accessVars,
       queryVars, workVars, stopVars
  <1>25. CASE ReconcileQueued(q)
    BY <1>25 DEF ReconcileQueued, MarkDispatchFailed, Same, TypeOK, accessVars,
       queryVars, workVars, stopVars
  <1>26. CASE ReconcileActive(q)
    BY <1>26 DEF ReconcileActive, MarkInterrupted, Same, TypeOK, accessVars,
       queryVars, workVars, stopVars
  <1>27. CASE FailedHook(q)
    BY <1>27 DEF FailedHook, MarkInterrupted, Leave, Same, TypeOK, accessVars,
       queryVars, workVars, stopVars
  <1>28. ASSUME NEW c \in CloserKinds, CloserKills(c, q) PROVE Same(p)
    BY <1>28 DEF CloserKills, Killed, Same, TypeOK, accessVars, queryVars, workVars,
       stopVars
  <1>29. ASSUME NEW c \in CloserKinds, CloserSaves(c, q) PROVE Same(p)
    BY <1>29 DEF CloserSaves, Same, TypeOK, accessVars, queryVars, workVars, stopVars
  <1>30. ASSUME NEW c \in CloserKinds, CloserLinks(c, q) PROVE Same(p)
    BY <1>30 DEF CloserLinks, Same, TypeOK, accessVars, queryVars, workVars, stopVars
  <1>31. ASSUME NEW c \in CloserKinds, CloserDies(c, q) PROVE Same(p)
    BY <1>31 DEF CloserDies, Same, TypeOK, accessVars, queryVars, workVars, stopVars
  <1> QED
    BY <1>1, <1>2, <1>3, <1>4, <1>5, <1>6, <1>7, <1>8, <1>9, <1>10, <1>11, <1>12,
       <1>13, <1>14, <1>15, <1>16, <1>17, <1>18, <1>19, <1>20, <1>21, <1>22, <1>23,
       <1>24, <1>25, <1>26, <1>27, <1>28, <1>29, <1>30, <1>31 DEF QueryStep,
       QueueStep, WorkerStep, CloserStep, ReconcileStep, FaultStep

-----------------------------------------------------------------------------
(* What happens to the request and the session                             *)

\* cancelForSession() cancels one query.
LEMMA CancelForSessionInv ==
    ASSUME TypeOK, NEW e \in EnderKinds, NEW q \in Queries, CancelForSession(e, q),
           NEW p \in Queries, QueryInv(p)
    PROVE  QueryInv(p)'
  <1>1. CASE p = q
    BY <1>1 DEF CancelForSession, CancelTransaction, QueryInv, Fresh, Linked, Followed,
       Unsent, ShutOut, Stopped, TypeOK, Row, Active, Outcomes, workVars
  <1>2. CASE p # q
    <2>1. Same(p)
      BY <1>2 DEF CancelForSession, CancelTransaction, Same, TypeOK, workVars
    <2> QED
      BY <2>1, SameInv
  <1> QED
    BY <1>1, <1>2

\* Every other step of the request, the session and the processes that end it.
LEMMA AccessInv ==
    ASSUME TypeOK, AccessStep, NEW p \in Queries, QueryInv(p)
    PROVE  QueryInv(p)'
  <1>1. CASE ChangeSituation \/ Review \/ LoadExpired \/ CompleteRequest
    <2>1. Same(p)
      BY <1>1 DEF ChangeSituation, Review, LoadExpired, CompleteRequest, Same,
         queryVars, workVars, stopVars
    <2> QED
      BY <2>1, SameInv
  <1>2. ASSUME NEW e \in EnderKinds,
               ForgetSnapshots(e) \/ ListQueries(e) \/ QueriesCancelled(e) \/ EnderFails(e)
        PROVE  QueryInv(p)'
    <2>1. Same(p)
      BY <1>2 DEF ForgetSnapshots, ListQueries, QueriesCancelled, EnderFails, Same,
         queryVars, workVars, stopVars
    <2> QED
      BY <2>1, SameInv
  <1>3. CASE Start
    BY <1>3 DEF Start, QueryInv, Fresh, Linked, Followed, Unsent, ShutOut, Stopped,
       queryVars, workVars, stopVars
  <1>4. CASE Elapse
    BY <1>4 DEF Elapse, NotTakenUp, QueryInv, Fresh, Linked, Followed, Unsent, ShutOut,
       Stopped, queryVars, workVars, stopVars
  <1>5. CASE CancelRequest
    BY <1>5 DEF CancelRequest, NotTakenUp, QueryInv, Fresh, Linked, Followed, Unsent,
       ShutOut, Stopped, queryVars, workVars, stopVars
  <1>6. CASE EndExpired
    BY <1>6 DEF EndExpired, NotTakenUp, QueryInv, Fresh, Linked, Followed, Unsent,
       ShutOut, Stopped, queryVars, workVars, stopVars
  <1>7. ASSUME NEW e \in EnderKinds, NEW q \in Queries, CancelForSession(e, q)
        PROVE  QueryInv(p)'
    BY <1>7, CancelForSessionInv
  <1> QED
    BY <1>1, <1>2, <1>3, <1>4, <1>5, <1>6, <1>7 DEF AccessStep, EnderStep

-----------------------------------------------------------------------------
(* The invariant                                                           *)

Inv == TypeOK /\ \A q \in Queries : QueryInv(q)

\* Before anything has happened.
LEMMA InvInit == Init => Inv
  <1> SUFFICES ASSUME Init, NEW q \in Queries PROVE QueryInv(q)
    BY TypeInit DEF Inv
  <1> QED
    BY DEF Init, QueryInv, Fresh, Linked, Followed, Unsent, ShutOut, Stopped, AbsentRow,
       NoJob, NoCloser, Active

\* Every step keeps it.
LEMMA InvStep == Inv /\ [Next]_vars => Inv'
  <1> SUFFICES ASSUME Inv, [Next]_vars PROVE Inv'
    OBVIOUS
  <1>1. CASE UNCHANGED vars
    <2>1. TypeOK'
      BY <1>1 DEF Inv, TypeOK, vars
    <2>2. ASSUME NEW p \in Queries PROVE QueryInv(p)'
      <3>1. Same(p)
        BY <1>1 DEF Same, vars
      <3> QED
        BY <3>1, SameInv DEF Inv
    <2> QED
      BY <2>1, <2>2 DEF Inv
  <1>2. CASE AccessStep
    BY <1>2, TypeAccess, AccessInv DEF Inv
  <1>3. ASSUME NEW q \in Queries, QueryStep(q) PROVE Inv'
    <2>1. TypeOK'
      BY <1>3, TypeQuery DEF Inv
    <2>2. ASSUME NEW p \in Queries PROVE QueryInv(p)'
      <3>1. CASE p = q
        BY <1>3, <3>1, QueryStepInv DEF Inv
      <3>2. CASE p # q
        BY <1>3, <3>2, OtherQueries, SameInv DEF Inv
      <3> QED
        BY <3>1, <3>2
    <2> QED
      BY <2>1, <2>2 DEF Inv
  <1> QED
    BY <1>1, <1>2, <1>3 DEF Next

\* The invariant holds in every reachable state.
LEMMA Invariant == Spec => []Inv
  BY InvInit, InvStep, PTL DEF Spec

-----------------------------------------------------------------------------
(* The theorems                                                            *)

\* The execution shown with the request has the status of its query as long as the
\* query is active, whoever closes it and in whatever order the columns are saved.
THEOREM ExecutionFollows == Spec => []ExecutionFollowsQuery
  <1>1. Inv => ExecutionFollowsQuery
    BY DEF Inv, QueryInv, Followed, ExecutionFollowsQuery
  <1> QED
    BY Invariant, <1>1, PTL

\* A query that no worker had taken up when its session was ended or elapsed never
\* reaches the target.
THEOREM ClosedSessionIsQuiet == Spec => []ClosedSessionNeverRuns
  <1>1. Inv => ClosedSessionNeverRuns
    BY DEF Inv, QueryInv, ShutOut, ClosedSessionNeverRuns, TypeOK
  <1> QED
    BY Invariant, <1>1, PTL

\* A query that was cancelled before its connection was tracked never reaches the
\* target.
THEOREM EarlyCancellationHolds == Spec => []CancelledEarlyNeverRuns
  <1>1. Inv => CancelledEarlyNeverRuns
    BY DEF Inv, QueryInv, Stopped, CancelledEarlyNeverRuns, TypeOK
  <1> QED
    BY Invariant, <1>1, PTL

-----------------------------------------------------------------------------
(* How the status of a query moves                                         *)

\* What a step may do to the status of q: a closed query stays closed, and q becomes
\* active only when no query is, and alone.
Moves(q) ==
    /\ row[q].status \in Outcomes => row'[q].status \in Outcomes
    /\ row'[q].status \in Active =>
          \/ row[q].status \in Active
          \/ \A p \in Queries : row[p].status \notin Active /\ (p # q => row'[p] = row[p])

\* Nothing else in the life of a query writes its row.
LEMMA OtherRows ==
    ASSUME NEW q \in Queries, QueryStep(q),
           ~CreateQuery(q), ~Claim(q), ~Track(q), ~SaveOutcome(q), ~CancelQuery(q),
           \A c \in CloserKinds : ~CloserSaves(c, q)
    PROVE  row' = row
  <1>1. CASE \/ BeginQueue(q) \/ Push(q) \/ PushFails(q) \/ CallDies(q) \/ Validate(q)
             \/ Connect(q) \/ StartStatement(q) \/ StatementEnds(q) \/ Answer(q)
    BY <1>1 DEF BeginQueue, Push, PushFails, CallDies, Validate, Connect, StartStatement,
       StatementEnds, Answer, queryVars
  <1>2. CASE \/ Settle(q) \/ StoreSnapshot(q) \/ LinkOutcome(q) \/ Throw(q) \/ Timeout(q)
             \/ Crash(q) \/ Redeliver(q) \/ Kill(q) \/ Age(q)
    BY <1>2 DEF Settle, StoreSnapshot, LinkOutcome, Throw, Timeout, Crash, Redeliver,
       Kill, Age, queryVars
  <1>3. CASE \/ DispatchFailed(q) \/ ReconcileQueued(q) \/ ReconcileActive(q) \/ FailedHook(q)
    BY <1>3 DEF DispatchFailed, ReconcileQueued, ReconcileActive, FailedHook,
       MarkDispatchFailed, MarkInterrupted, queryVars
  <1>4. ASSUME NEW c \in CloserKinds, CloserKills(c, q) \/ CloserLinks(c, q) \/ CloserDies(c, q)
        PROVE  row' = row
    BY <1>4 DEF CloserKills, CloserLinks, CloserDies, queryVars
  <1> QED
    BY <1>1, <1>2, <1>3, <1>4
    DEF QueryStep, QueueStep, WorkerStep, CloserStep, ReconcileStep, FaultStep

\* The steps of a query.
LEMMA QueryMoves ==
    ASSUME TypeOK, NEW q \in Queries, QueryInv(q), QueryStep(q)
    PROVE  Moves(q)
  <1>1. CASE CreateQuery(q)
    BY <1>1 DEF CreateQuery, Moves, QueryInv, Fresh, TypeOK, Row, Active, Outcomes, queryVars
  <1>2. CASE Claim(q)
    BY <1>2 DEF Claim, Moves, TypeOK, Row, Active, Outcomes, queryVars
  <1>3. CASE Track(q)
    BY <1>3 DEF Track, Moves, TypeOK, Row
  <1>4. CASE SaveOutcome(q)
    BY <1>4, Rows DEF SaveOutcome, Moves, Row, Active, Outcomes
  <1>5. CASE CancelQuery(q)
    BY <1>5 DEF CancelQuery, CancelTransaction, Moves, TypeOK, Row, Active, Outcomes
  <1>6. ASSUME NEW c \in CloserKinds, CloserSaves(c, q) PROVE Moves(q)
    BY <1>6, Rows DEF CloserSaves, Moves, Row, Active, Outcomes
  <1>7. CASE row' = row
    BY <1>7 DEF Moves
  <1> QED
    BY <1>1, <1>2, <1>3, <1>4, <1>5, <1>6, <1>7, OtherRows

\* The steps of the request and the session: cancelForSession() is the only one.
LEMMA AccessMoves ==
    ASSUME TypeOK, AccessStep, NEW q \in Queries
    PROVE  Moves(q)
  <1>1. ASSUME NEW e \in EnderKinds, NEW p \in Queries, CancelForSession(e, p)
        PROVE  Moves(q)
    BY <1>1 DEF CancelForSession, CancelTransaction, Moves, TypeOK, Row, Active, Outcomes
  <1>2. CASE row' = row
    BY <1>2 DEF Moves
  <1>3. CASE \/ ChangeSituation \/ Review \/ Start \/ Elapse \/ CancelRequest \/ LoadExpired
             \/ EndExpired \/ CompleteRequest
    BY <1>2, <1>3 DEF ChangeSituation, Review, Start, Elapse, CancelRequest, LoadExpired,
       EndExpired, CompleteRequest, queryVars
  <1>4. ASSUME NEW e \in EnderKinds,
               ForgetSnapshots(e) \/ ListQueries(e) \/ QueriesCancelled(e) \/ EnderFails(e)
        PROVE  Moves(q)
    BY <1>2, <1>4 DEF ForgetSnapshots, ListQueries, QueriesCancelled, EnderFails, queryVars
  <1> QED
    BY <1>1, <1>3, <1>4 DEF AccessStep, EnderStep

\* Every step of the system.
LEMMA NextMoves == Inv /\ [Next]_vars => \A q \in Queries : Moves(q)
  <1> SUFFICES ASSUME Inv, [Next]_vars, NEW q \in Queries PROVE Moves(q)
    OBVIOUS
  <1>1. CASE UNCHANGED vars
    BY <1>1 DEF Moves, vars
  <1>2. CASE AccessStep
    BY <1>2, AccessMoves DEF Inv
  <1>3. ASSUME NEW p \in Queries, QueryStep(p) PROVE Moves(q)
    <2>1. CASE p = q
      BY <1>3, <2>1, QueryMoves DEF Inv
    <2>2. CASE p # q
      <3>1. Same(q)
        BY <1>3, <2>2, OtherQueries DEF Inv
      <3> QED
        BY <3>1 DEF Same, Moves
    <2> QED
      BY <2>1, <2>2
  <1> QED
    BY <1>1, <1>2, <1>3 DEF Next

\* A query that has an outcome never becomes active again, although four processes
\* save outcomes without locking the row.
THEOREM ClosedIsClosed == Spec => ClosedStaysClosed
  <1>1. Inv /\ [Next]_vars =>
           [\A q \in Queries : row[q].status \in Outcomes => row'[q].status \in Outcomes]_vars
    BY NextMoves DEF Moves
  <1> QED
    BY Invariant, <1>1, PTL DEF Spec, ClosedStaysClosed

\* At most one query of the session is active, for any number of overlapping
\* submissions.
THEOREM OneActive == Spec => []OneActiveQuery
  <1>1. Init => OneActiveQuery
    BY DEF Init, OneActiveQuery, AbsentRow, Active
  <1>2. Inv /\ OneActiveQuery /\ [Next]_vars => OneActiveQuery'
    <2> SUFFICES ASSUME Inv, OneActiveQuery, [Next]_vars,
                        NEW p \in Queries, NEW q \in Queries, p # q,
                        row'[p].status \in Active, row'[q].status \in Active
                 PROVE  FALSE
      BY DEF OneActiveQuery
    <2> QED
      BY NextMoves DEF Moves, OneActiveQuery
  <1> QED
    BY Invariant, <1>1, <1>2, PTL DEF Spec

====
