------------------------ MODULE DeploymentBatchSafety ------------------------
(***************************************************************************)
(* The safety properties of DeploymentBatch that need an invariant of      *)
(* their own, on top of the type correctness of DeploymentBatchProofs:     *)
(* who holds the overlap lock, what an executing worker holds still, what  *)
(* a recorded approval stands for, what the scheduler may dispatch, what   *)
(* still starts after a cancellation, and what starts once.                *)
(***************************************************************************)
EXTENDS DeploymentBatchProofs

-----------------------------------------------------------------------------
(* The overlap lock                                                        *)

\* A worker inside handle() owns the lock of its request.
LockInv ==
    \A w \in Workers : worker[w].phase \in Holding => lock[worker[w].req] = w

\* People and the control plane only free the locks of killed workers.
LEMMA RequestLock ==
    ASSUME NEW r \in Requests, UserStep(r) \/ ReviewStep(r) \/ SystemStep(r) \/ TimePasses(r)
    PROVE  UNCHANGED lock \/ (lock[r] = DeadWorker /\ lock' = [lock EXCEPT ![r] = None])
  <1>1. CASE UserStep(r)
    <2>1. ASSUME NEW u, NEW s, NEW n, NEW sched,
                 \/ Create(r, u, s, sched) \/ BeginUpdate(r, u, s, sched)
                 \/ CreateDraft(r, u, n, sched) \/ UpdateDraft(r, u, n, sched)
          PROVE  UNCHANGED lock
      BY <2>1, Zenon DEF Create, CreateDraft, BeginUpdate, UpdateDraft, jobVars
    <2>2. ASSUME NEW u, NEW new, RetryLinked(r, u, new)
          PROVE  UNCHANGED lock
      BY <2>2, Zenon DEF RetryLinked, jobVars
    <2>3. ASSUME NEW u, \/ Withdraw(r, u) \/ Dispatch(r, u) \/ Cancel(r, u)
                        \/ RetryInPlace(r, u) \/ ResolveFailure(r, u)
          PROVE  UNCHANGED lock
      BY <2>3, Zenon DEF Withdraw, DispatchTransaction, Dispatch, Cancel, RetryInPlace,
         ResolveFailure, jobVars
    <2> QED
      BY <1>1, <2>1, <2>2, <2>3, Zenon DEF UserStep
  <1>2. CASE ReviewStep(r)
    BY <1>2, Zenon DEF ReviewStep, OpenForReview, Approve, Reject, jobVars
  <1>3. CASE SystemStep(r)
    BY <1>3, Zenon DEF SystemStep, CommitUpdate, AbortUpdate, DispatchTransaction, DispatchDue,
       ExpireLock, Redeliver, jobVars
  <1>4. CASE TimePasses(r)
    BY <1>4, Zenon DEF TimePasses, jobVars
  <1> QED
    BY <1>1, <1>2, <1>3, <1>4

\* A worker takes a free lock, frees or abandons its own, or leaves the locks
\* alone, and then it does not enter handle().
LEMMA WorkerLock ==
    ASSUME TypeInv, NEW w \in Workers, WorkerStep(w) \/ FaultStep(w)
    PROVE  \/ /\ UNCHANGED lock
              /\ worker'[w].phase \in Holding =>
                    worker[w].phase \in Holding /\ worker'[w].req = worker[w].req
           \/ \E r \in Requests :
                 /\ lock[r] = None /\ lock' = [lock EXCEPT ![r] = w] /\ worker'[w].req = r
           \/ /\ worker[w].phase \in Holding /\ worker'[w].phase \notin Holding
              /\ \E x : lock' = [lock EXCEPT ![worker[w].req] = x]
  <1> USE DEF TypeInv, TypeOK
  <1>1. ASSUME worker' = [worker EXCEPT ![w] = IdleWorker]
        PROVE  worker'[w].phase \notin Holding
    BY <1>1 DEF IdleWorker, Holding
  <1>2. ASSUME NEW ph, worker' = [worker EXCEPT ![w].phase = ph]
        PROVE  worker'[w].phase = ph /\ worker'[w].req = worker[w].req
    BY <1>2 DEF Worker
  <1>3. ASSUME NEW r \in Requests, TakeJob(w, r)
        PROVE  lock[r] = None /\ lock' = [lock EXCEPT ![r] = w] /\ worker'[w].req = r
    BY <1>3 DEF TakeJob, IdleWorker
  <1>4. CASE \E r \in Requests : DropJob(w, r)
    BY <1>4, Zenon DEF DropJob
  <1>5. CASE \/ Load(w) \/ ReturnBlocked(w) \/ CheckCancelled(w) \/ StartStatement(w)
             \/ StatementFails(w) \/ RecordFailure(w) \/ RecordCompletion(w)
    <2>1. UNCHANGED lock /\ worker[w].phase \in Holding
      BY <1>5 DEF Load, ReturnBlocked, CheckCancelled, StartStatement, StatementFails,
         RecordFailure, RecordCompletion, Holding, Phases
    <2>2. PICK ph : worker' = [worker EXCEPT ![w].phase = ph]
      BY <1>5, Zenon DEF Load, ReturnBlocked, CheckCancelled, StartStatement, StatementFails,
         RecordFailure, RecordCompletion, Goto
    <2> QED
      BY <1>2, <2>1, <2>2
  <1>6. CASE Claim(w)
    <2>1. UNCHANGED lock /\ worker[w].phase \in Holding
      BY <1>6 DEF Claim, Holding, Phases
    <2>2. CASE Goto(w, "closing")
      BY <1>2, <2>1, <2>2 DEF Goto
    <2>3. CASE worker' = [worker EXCEPT ![w] = ClaimedRun(w)]
      BY <2>1, <2>3 DEF ClaimedRun, Worker
    <2> QED
      BY <1>6, <2>2, <2>3, Zenon DEF Claim
  <1>7. CASE StatementSucceeds(w)
    BY <1>7 DEF StatementSucceeds, Holding, Phases, Worker
  <1>8. CASE Close(w)
    BY <1>1, <1>8 DEF Close, Holding, Phases
  <1>9. CASE Throw(w)
    BY <1>2, <1>9 DEF Throw, Goto, Holding, Phases
  <1>10. CASE FailedHook(w)
    BY <1>1, <1>10 DEF FailedHook
  <1>11. CASE Timeout(w)
    BY <1>1, <1>11 DEF Timeout
  <1>12. CASE Crash(w)
    BY <1>1, <1>12 DEF Crash
  <1> QED
    BY <1>3, <1>4, <1>5, <1>6, <1>7, <1>8, <1>9, <1>10, <1>11, <1>12 DEF WorkerStep, FaultStep

\* The ownership of locks is preserved.
LEMMA LockInvStep ==
    ASSUME TypeInv, LockInv, [Next]_vars
    PROVE  LockInv'
  <1> USE BatchAssumption DEF TypeInv, TypeOK
  <1>1. CASE UNCHANGED <<worker, lock>>
    BY <1>1 DEF LockInv
  <1>2. ASSUME NEW r \in Requests, UserStep(r) \/ ReviewStep(r) \/ SystemStep(r) \/ TimePasses(r)
        PROVE  LockInv'
    <2>1. UNCHANGED worker
      BY <1>2, RequestFrame
    <2>2. UNCHANGED lock \/ (lock[r] = DeadWorker /\ lock' = [lock EXCEPT ![r] = None])
      BY <1>2, RequestLock
    <2>3. ASSUME NEW v \in Workers, worker[v].phase \in Holding
          PROVE  lock'[worker[v].req] = v
      <3>1. worker[v].req \in Requests /\ lock[worker[v].req] = v
        BY <2>3 DEF LockInv, WorkerInv, Holding
      <3> QED
        BY <2>2, <3>1
    <2> QED
      BY <2>1, <2>3 DEF LockInv
  <1>3. ASSUME NEW w \in Workers, WorkerStep(w) \/ FaultStep(w)
        PROVE  LockInv'
    <2>1. \A v \in Workers \ {w} : worker'[v] = worker[v]
      BY <1>3, WorkerFrame
    <2>2. \A v \in Workers : worker[v].phase \in Holding =>
              worker[v].req \in Requests /\ lock[worker[v].req] = v
      BY DEF LockInv, WorkerInv, Holding
    <2>3. CASE /\ UNCHANGED lock
               /\ worker'[w].phase \in Holding =>
                     worker[w].phase \in Holding /\ worker'[w].req = worker[w].req
      BY <2>1, <2>2, <2>3 DEF LockInv
    <2>4. ASSUME NEW r \in Requests, lock[r] = None, lock' = [lock EXCEPT ![r] = w],
                 worker'[w].req = r
          PROVE  LockInv'
      <3>1. lock'[r] = w /\ \A v \in Workers \ {w} :
                worker[v].phase \in Holding => lock'[worker[v].req] = v
        BY <2>2, <2>4
      <3> QED
        BY <2>1, <2>4, <3>1 DEF LockInv
    <2>5. CASE /\ worker[w].phase \in Holding /\ worker'[w].phase \notin Holding
               /\ \E x : lock' = [lock EXCEPT ![worker[w].req] = x]
      <3>1. \A v \in Workers \ {w} :
                worker[v].phase \in Holding => lock'[worker[v].req] = v
        BY <2>2, <2>5
      <3> QED
        BY <2>1, <2>5, <3>1 DEF LockInv
    <2> QED
      BY <1>3, <2>3, <2>4, <2>5, WorkerLock
  <1>4. CASE ChangePolicy \/ UNCHANGED vars
    BY <1>1, <1>4 DEF ChangePolicy, jobVars, vars
  <1> QED
    BY <1>2, <1>3, <1>4 DEF Next

\* No two workers execute the same batch at the same time: the lock excludes them,
\* also across timeouts, crashes and the expiry of a killed worker's lock.
THEOREM ExecutionIsExclusive == Spec => []OneExecutorPerBatch
  <1>1. Init => TypeInv /\ LockInv
    BY TypeInvInit DEF Init, LockInv, IdleWorker, Holding
  <1>2. TypeInv /\ LockInv /\ [Next]_vars => TypeInv' /\ LockInv'
    BY TypeInvStep, LockInvStep
  <1>3. LockInv => OneExecutorPerBatch
    BY DEF LockInv, OneExecutorPerBatch, Claimed, Holding, Phases
  <1> QED
    BY <1>1, <1>2, <1>3, PTL DEF Spec

-----------------------------------------------------------------------------
(* What an executing worker holds still                                    *)

\* A batch under execution is busy, in a status in which nobody can edit it, and
\* it still has the statements that were claimed.
ExecInv ==
    \A w \in Workers :
        worker[w].phase \in Claimed =>
            /\ Busy(worker[w].req)
            /\ req[worker[w].req].stamp = worker[w].stamp

\* People and the control plane leave a busy request busy.
LEMMA RequestBusy ==
    ASSUME TypeInv, NEW r \in Requests,
           UserStep(r) \/ ReviewStep(r) \/ SystemStep(r) \/ TimePasses(r)
    PROVE  \A x \in Requests : Busy(x) => Busy(x)'
  <1> USE DEF TypeInv, TypeOK
  <1>1. ASSUME UNCHANGED req
        PROVE  \A x \in Requests : Busy(x) => Busy(x)'
    BY <1>1 DEF Busy
  <1>2. ASSUME NEW y \in Requests, NEW q, ~Busy(y), req' = [req EXCEPT ![y] = q]
        PROVE  \A x \in Requests : Busy(x) => Busy(x)'
    BY <1>2 DEF Busy
  <1>3. ASSUME NEW st \in {"failed", "cancelled"}, req' = [req EXCEPT ![r].status = st]
        PROVE  \A x \in Requests : Busy(x) => Busy(x)'
    BY <1>3 DEF Busy, Request
  <1>4. CASE UserStep(r)
    <2>1. ASSUME NEW u, NEW s, NEW n, NEW sched,
                 \/ Create(r, u, s, sched)
                 \/ CreateDraft(r, u, n, sched) \/ UpdateDraft(r, u, n, sched)
          PROVE  \A x \in Requests : Busy(x) => Busy(x)'
      <3>1. req[r].status \in {"absent", "draft"}
        BY <2>1 DEF Create, CreateDraft, UpdateDraft
      <3>2. ~Busy(r)
        BY <3>1 DEF Busy
      <3>3. \E q : req' = [req EXCEPT ![r] = q]
        BY <2>1, Zenon DEF Create, CreateDraft, UpdateDraft
      <3> QED
        BY <1>2, <3>2, <3>3
    <2>2. ASSUME NEW u, NEW new \in Requests, RetryLinked(r, u, new)
          PROVE  \A x \in Requests : Busy(x) => Busy(x)'
      <3>1. req[new].status = "absent" /\ \E q : req' = [req EXCEPT ![new] = q]
        BY <2>2, Zenon DEF RetryLinked
      <3>2. ~Busy(new)
        BY <3>1 DEF Busy
      <3> QED
        BY <1>2, <3>1, <3>2
    <2>3. ASSUME NEW u, Withdraw(r, u) \/ Dispatch(r, u)
          PROVE  \A x \in Requests : Busy(x) => Busy(x)'
      <3>1. req[r].status \in {"pending_review", "approved"} /\ ~req[r].dispatched
        BY <2>3 DEF Withdraw, Dispatch, DispatchTransaction
      <3>2. ~Busy(r)
        BY <3>1 DEF Busy
      <3>3. \E q : req' = [req EXCEPT ![r] = q]
        BY <2>3, Zenon DEF Withdraw, Dispatch, DispatchTransaction
      <3> QED
        BY <1>2, <3>2, <3>3
    <2>4. ASSUME NEW u, Cancel(r, u)
          PROVE  \A x \in Requests : Busy(x) => Busy(x)'
      BY <1>3, <2>4 DEF Cancel
    <2>5. ASSUME NEW u, RetryInPlace(r, u)
          PROVE  \A x \in Requests : Busy(x) => Busy(x)'
      BY <2>5 DEF RetryInPlace, Busy, Request
    <2>6. ASSUME NEW u, ResolveFailure(r, u)
          PROVE  \A x \in Requests : Busy(x) => Busy(x)'
      BY <2>6 DEF ResolveFailure, Busy, Request
    <2>7. ASSUME NEW u, NEW s, NEW sched, BeginUpdate(r, u, s, sched)
          PROVE  \A x \in Requests : Busy(x) => Busy(x)'
      BY <1>1, <2>7 DEF BeginUpdate
    <2> QED
      BY <1>4, <2>1, <2>2, <2>3, <2>4, <2>5, <2>6, <2>7, Zenon DEF UserStep
  <1>5. CASE ReviewStep(r)
    <2>1. ASSUME NEW u, Approve(u, r) \/ Reject(u, r)
          PROVE  \A x \in Requests : Busy(x) => Busy(x)'
      <3>1. ~Busy(r)
        BY <2>1 DEF Approve, Reject, CanDecide, Busy
      <3>2. req'  = [req EXCEPT ![r] = req'[r]]
        BY <2>1 DEF Approve, Reject
      <3> QED
        BY <1>2, <3>1, <3>2
    <2>2. ASSUME NEW u, OpenForReview(u, r)
          PROVE  \A x \in Requests : Busy(x) => Busy(x)'
      BY <1>1, <2>2 DEF OpenForReview
    <2> QED
      BY <1>5, <2>1, <2>2, Zenon DEF ReviewStep
  <1>6. CASE SystemStep(r)
    <2>1. CASE CommitUpdate(r) \/ DispatchDue(r)
      <3>1. ~Busy(r)
        BY <2>1 DEF CommitUpdate, DispatchDue, IsEditable, Busy
      <3>2. \E q : req' = [req EXCEPT ![r] = q]
        BY <2>1, Zenon DEF CommitUpdate, DispatchDue, DispatchTransaction
      <3> QED
        BY <1>2, <3>1, <3>2
    <2>2. CASE AbortUpdate(r) \/ ExpireLock(r)
      BY <1>1, <2>2 DEF AbortUpdate, ExpireLock, requestVars
    <2>3. CASE Redeliver(r)
      BY <1>1, <1>3, <2>3 DEF Redeliver, AfterFailedHook
    <2> QED
      BY <1>6, <2>1, <2>2, <2>3, Zenon DEF SystemStep
  <1>7. CASE TimePasses(r)
    <2>1. CASE req' = [req EXCEPT ![r].sched = "past"]
      BY <2>1 DEF Busy, Request
    <2> QED
      BY <1>1, <1>7, <2>1, Zenon DEF TimePasses
  <1> QED
    BY <1>4, <1>5, <1>6, <1>7

\* So does a worker, except where it gives its own request back or completes it.
LEMMA WorkerBusy ==
    ASSUME TypeInv, NEW w \in Workers, WorkerStep(w) \/ FaultStep(w), NEW x \in Requests, Busy(x)
    PROVE  \/ Busy(x)'
           \/ worker[w].req = x /\ worker[w].phase \in {"blocked", "claiming", "finish"}
  <1> USE DEF TypeInv, TypeOK
  <1> DEFINE r == worker[w].req
  <1>1. ASSUME UNCHANGED req
        PROVE  Busy(x)'
    BY <1>1 DEF Busy
  <1>2. ASSUME worker[w].phase # "idle", NEW q, req' = [req EXCEPT ![r] = q], x # r
        PROVE  Busy(x)'
    BY <1>2 DEF Busy
  <1>3. CASE ReturnBlocked(w) \/ Claim(w) \/ RecordCompletion(w)
    <2>1. worker[w].phase \in {"blocked", "claiming", "finish"}
      BY <1>3 DEF ReturnBlocked, Claim, RecordCompletion
    <2>2. CASE x # r
      <3>1. UNCHANGED req \/ (\E q : req' = [req EXCEPT ![r] = q])
                          \/ (\E st : req' = [req EXCEPT ![r].status = st])
        BY <1>3, Zenon DEF ReturnBlocked, Claim, RecordCompletion
      <3>2. ASSUME NEW st, req' = [req EXCEPT ![r].status = st]
            PROVE  Busy(x)'
        BY <2>2, <3>2 DEF Busy
      <3> QED
        BY <1>1, <1>2, <2>1, <2>2, <3>1, <3>2
    <2> QED
      BY <2>1, <2>2
  <1>4. ASSUME req' = [req EXCEPT ![r].status = "failed"]
        PROVE  Busy(x)'
    BY <1>4 DEF Busy, Request
  <1>5. CASE RecordFailure(w)
    BY <1>1, <1>4, <1>5, Zenon DEF RecordFailure
  <1>6. CASE FailedHook(w) \/ Timeout(w)
    BY <1>1, <1>4, <1>6 DEF FailedHook, Timeout, AfterFailedHook
  <1>7. CASE UNCHANGED requestVars
    BY <1>1, <1>7 DEF requestVars
  <1>8. \/ ReturnBlocked(w) \/ Claim(w) \/ RecordCompletion(w) \/ RecordFailure(w)
        \/ FailedHook(w) \/ Timeout(w) \/ UNCHANGED requestVars
    BY Zenon DEF WorkerStep, FaultStep, TakeJob, DropJob, Load, CheckCancelled, StartStatement,
       StatementSucceeds, StatementFails, Close, Throw, Crash
  <1> QED
    BY <1>3, <1>5, <1>6, <1>7, <1>8, Zenon

\* A worker executes statements because it did before, or because the claim
\* transaction has just let it.
LEMMA WorkerClaims ==
    ASSUME TypeInv, NEW w \in Workers, WorkerStep(w) \/ FaultStep(w), worker'[w].phase \in Claimed
    PROVE  \/ /\ worker[w].phase \in Claimed \ {"finish"}
              /\ worker'[w].req = worker[w].req
              /\ worker'[w].stamp = worker[w].stamp
              /\ worker'[w].needed = worker[w].needed
           \/ /\ worker[w].phase = "claiming"
              /\ worker'[w] = ClaimedRun(w)
              /\ req[worker[w].req].status \in {"approved", "running"}
              /\ ~RequiresFreshApproval(worker[w].req)
              /\ req' = [req EXCEPT ![worker[w].req].status = "running"]
  <1> USE DEF TypeInv, TypeOK
  <1>1. ASSUME NEW ph, worker' = [worker EXCEPT ![w].phase = ph]
        PROVE  /\ worker'[w].phase = ph
               /\ worker'[w].req = worker[w].req
               /\ worker'[w].stamp = worker[w].stamp
               /\ worker'[w].needed = worker[w].needed
    BY <1>1 DEF Worker
  <1>2. worker' # [worker EXCEPT ![w] = IdleWorker]
    BY DEF IdleWorker, Claimed
  <1>3. ASSUME NEW r \in Requests, TakeJob(w, r)
        PROVE  FALSE
    BY <1>3 DEF TakeJob, IdleWorker, Claimed
  <1>4. ASSUME NEW r \in Requests, DropJob(w, r)
        PROVE  FALSE
    BY <1>4 DEF DropJob, Claimed
  <1>5. ASSUME Load(w) \/ ReturnBlocked(w) \/ Throw(w)
        PROVE  FALSE
    <2>1. \E ph \in {"closing", "blocked", "claiming", "failing"} : Goto(w, ph)
      BY <1>5 DEF Load, ReturnBlocked, Throw
    <2> QED
      BY <1>1, <2>1 DEF Goto, Claimed
  <1>6. CASE CheckCancelled(w) \/ StartStatement(w) \/ StatementFails(w)
    <2>1. worker[w].phase \in Claimed \ {"finish"}
      BY <1>6 DEF CheckCancelled, StartStatement, StatementFails, Claimed
    <2>2. \E ph : worker' = [worker EXCEPT ![w].phase = ph]
      BY <1>6, Zenon DEF CheckCancelled, StartStatement, StatementFails, Goto
    <2> QED
      BY <1>1, <2>1, <2>2
  <1>7. ASSUME RecordFailure(w) \/ RecordCompletion(w)
        PROVE  FALSE
    <2>1. \E ph \in {"closing", "throwing"} : Goto(w, ph)
      BY <1>7 DEF RecordFailure, RecordCompletion
    <2> QED
      BY <1>1, <2>1 DEF Goto, Claimed
  <1>8. CASE StatementSucceeds(w)
    <2>1. worker'[w] = [worker[w] EXCEPT
              !.phase = IF worker[w].pos = worker[w].last THEN "finish" ELSE "check",
              !.pos = worker[w].pos + 1]
      BY <1>8 DEF StatementSucceeds
    <2>2. worker[w] \in Worker /\ worker[w].phase = "executing"
      BY <1>8 DEF StatementSucceeds
    <2>3. /\ worker'[w].req = worker[w].req
          /\ worker'[w].stamp = worker[w].stamp
          /\ worker'[w].needed = worker[w].needed
      BY <2>1, <2>2 DEF Worker
    <2>4. worker[w].phase \in Claimed \ {"finish"}
      BY <2>2 DEF Claimed
    <2> QED
      BY <2>3, <2>4, Zenon
  <1>9. CASE Claim(w)
    <2>1. ASSUME Goto(w, "closing")
          PROVE  FALSE
      <3>1. worker'[w].phase = "closing"
        BY <1>1, <2>1 DEF Goto
      <3> QED
        BY <3>1 DEF Claimed
    <2>2. /\ worker' = [worker EXCEPT ![w] = ClaimedRun(w)]
          /\ req[worker[w].req].status \in {"approved", "running"}
          /\ ~RequiresFreshApproval(worker[w].req)
          /\ req' = [req EXCEPT ![worker[w].req].status = "running"]
      BY <1>9, <2>1, Zenon DEF Claim
    <2>3. worker'[w] = ClaimedRun(w)
      BY <2>2
    <2> QED
      BY <1>9, <2>2, <2>3 DEF Claim
  <1>10. ASSUME Close(w) \/ FailedHook(w) \/ Timeout(w) \/ Crash(w)
         PROVE  FALSE
    BY <1>2, <1>10 DEF Close, FailedHook, Timeout, Crash
  <1> QED
    BY <1>3, <1>4, <1>5, <1>6, <1>7, <1>8, <1>9, <1>10, Zenon DEF WorkerStep, FaultStep

\* What an executing worker holds still is preserved.
LEMMA ExecInvStep ==
    ASSUME TypeInv, LockInv, ExecInv, [Next]_vars
    PROVE  ExecInv'
  <1> USE DEF TypeInv, TypeOK
  <1>1. \A v \in Workers : worker[v].phase \in Claimed => worker[v].req \in Requests
    BY DEF WorkerInv, Claimed
  <1>2. \A x \in Requests : Busy(x) => req'[x].stamp = req[x].stamp
    BY Rows DEF RowStep
  <1>3. ASSUME UNCHANGED worker, \A x \in Requests : Busy(x) => Busy(x)'
        PROVE  ExecInv'
    <2> SUFFICES ASSUME NEW v \in Workers, worker'[v].phase \in Claimed
                 PROVE  (Busy(worker[v].req) /\ req[worker[v].req].stamp = worker[v].stamp)'
      BY DEF ExecInv
    <2>1. worker[v].req \in Requests /\ Busy(worker[v].req)
          /\ req[worker[v].req].stamp = worker[v].stamp
      BY <1>1, <1>3 DEF ExecInv
    <2> QED
      BY <1>2, <1>3, <2>1 DEF Busy
  <1>4. ASSUME NEW r \in Requests, UserStep(r) \/ ReviewStep(r) \/ SystemStep(r) \/ TimePasses(r)
        PROVE  ExecInv'
    BY <1>3, <1>4, RequestBusy, RequestFrame
  <1>5. ASSUME NEW w \in Workers, WorkerStep(w) \/ FaultStep(w)
        PROVE  ExecInv'
    <2> SUFFICES ASSUME NEW v \in Workers, worker'[v].phase \in Claimed
                 PROVE  (Busy(worker[v].req) /\ req[worker[v].req].stamp = worker[v].stamp)'
      BY DEF ExecInv
    <2>1. CASE v # w
      <3>1. worker'[v] = worker[v]
        BY <1>5, <2>1, WorkerFrame
      <3>2. /\ worker[v].req \in Requests /\ Busy(worker[v].req)
            /\ req[worker[v].req].stamp = worker[v].stamp /\ lock[worker[v].req] = v
        BY <1>1, <3>1 DEF ExecInv, LockInv, Claimed, Holding, Phases
      <3>3. ~(worker[w].req = worker[v].req
              /\ worker[w].phase \in {"blocked", "claiming", "finish"})
        BY <2>1, <3>2 DEF LockInv, Holding, Phases
      <3>4. Busy(worker[v].req) => \/ req'[worker[v].req].status \in {"running", "failed", "cancelled"}
                                   \/ req'[worker[v].req].status = "approved"
                                      /\ req'[worker[v].req].dispatched
        BY <1>5, <3>2, <3>3, WorkerBusy DEF Busy
      <3> QED
        BY <1>2, <3>1, <3>2, <3>4 DEF Busy
    <2>2. CASE v = w
      <3>1. CASE /\ worker[w].phase \in Claimed \ {"finish"}
                 /\ worker'[w].req = worker[w].req
                 /\ worker'[w].stamp = worker[w].stamp
        <4>1. /\ worker[w].req \in Requests /\ Busy(worker[w].req)
              /\ req[worker[w].req].stamp = worker[w].stamp
          BY <1>1, <3>1 DEF ExecInv
        <4>2. \/ req'[worker[w].req].status \in {"running", "failed", "cancelled"}
              \/ req'[worker[w].req].status = "approved" /\ req'[worker[w].req].dispatched
          BY <1>5, <3>1, <4>1, WorkerBusy DEF Busy, Claimed
        <4> QED
          BY <1>2, <2>2, <3>1, <4>1, <4>2 DEF Busy
      <3>2. CASE /\ worker[w].phase = "claiming"
                 /\ worker'[w] = ClaimedRun(w)
                 /\ req' = [req EXCEPT ![worker[w].req].status = "running"]
        <4>1. worker[w].req \in Requests
          BY <3>2 DEF WorkerInv
        <4>2. worker'[w].req = worker[w].req /\ worker'[w].stamp = req[worker[w].req].stamp
          BY <3>2 DEF ClaimedRun, Worker
        <4>3. /\ req'[worker[w].req].status = "running"
              /\ req'[worker[w].req].stamp = req[worker[w].req].stamp
          BY <3>2, <4>1 DEF Request
        <4> QED
          BY <2>2, <4>2, <4>3 DEF Busy
      <3> QED
        BY <1>5, <2>2, <3>1, <3>2, WorkerClaims
    <2> QED
      BY <2>1, <2>2
  <1>6. CASE ChangePolicy \/ UNCHANGED vars
    BY <1>3, <1>6 DEF ChangePolicy, requestVars, jobVars, vars, Busy
  <1> QED
    BY <1>4, <1>5, <1>6 DEF Next

\* The statements a worker executes are those of its request, from the claim to the
\* record of the outcome: no edit, retry or second job replaces them in between.
THEOREM ExecutionIsFrozen == Spec => []FrozenWhileExecuting
  <1> DEFINE Inv == TypeInv /\ LockInv /\ ExecInv
  <1>1. Init => Inv
    BY TypeInvInit DEF Init, LockInv, ExecInv, IdleWorker, Holding, Claimed
  <1>2. Inv /\ [Next]_vars => Inv'
    BY TypeInvStep, LockInvStep, ExecInvStep
  <1>3. Inv => FrozenWhileExecuting
    BY DEF ExecInv, FrozenWhileExecuting
  <1> QED
    BY <1>1, <1>2, <1>3, PTL DEF Spec

-----------------------------------------------------------------------------
(* What a recorded approval stands for, and what the scheduler may dispatch *)

\* The page of a reviewer is never ahead of the request, and one that shows the
\* current revision shows the current statements.
PageInv ==
    \A u \in Reviewers, r \in Requests :
        /\ page[u][r].revision <= req[r].revision
        /\ page[u][r].revision = req[r].revision => page[u][r].stamp = req[r].stamp

\* An approval that is not the requester's own is backed by somebody who stood
\* for the statements the request has now.
Vouched(x) ==
    req[x].approvedBy \notin {None, req[x].requester} =>
        <<req[x].approvedBy, req[x].stamp>> \in endorsed[x]

\* A batch that waits for its schedule, or that the scheduler has dispatched, was
\* ready before its time; one under review is not dispatched.
Punctual(x) ==
    /\ req[x].status = "scheduled" => early[x]
    /\ req[x].status = "pending_review" => ~req[x].dispatched
    /\ req[x].dispatched /\ req[x].dispatchedBy = None => early[x]

\* Both, of every request.
LedgerInv == \A x \in Requests : Vouched(x) /\ Punctual(x)

\* What a step does to the history of a request: nobody's word is taken back.
LedgerStep(x) ==
    /\ Vouched(x)' /\ Punctual(x)'
    /\ req[x].status # "absent" => endorsed[x] \subseteq endorsed'[x]

\* Pages are preserved: they only show what was there, and new statements come
\* with a new revision.
LEMMA PageInvStep ==
    ASSUME TypeInv, PageInv, [Next]_vars
    PROVE  PageInv'
  <1> USE BatchAssumption DEF TypeInv, TypeOK
  <1>1. CASE UNCHANGED page
    <2> SUFFICES ASSUME NEW u \in Reviewers, NEW r \in Requests
                 PROVE  /\ page[u][r].revision <= req'[r].revision
                        /\ page[u][r].revision = req'[r].revision =>
                              page[u][r].stamp = req'[r].stamp
      BY <1>1 DEF PageInv
    <2>1. /\ page[u][r].revision \in Nat /\ req[r].revision \in Nat
          /\ page[u][r].revision <= req[r].revision
          /\ page[u][r].revision = req[r].revision => page[u][r].stamp = req[r].stamp
      BY DEF PageInv, Page, Request
    <2>2. req'[r].revision \in Nat
      BY TypeInvStep DEF Request
    <2>3. /\ req[r].revision <= req'[r].revision
          /\ req'[r].stamp # req[r].stamp => req[r].revision < req'[r].revision
      BY Rows DEF RowStep
    <2> QED
      BY <2>1, <2>2, <2>3
  <1>2. ASSUME NEW v \in Reviewers, NEW r \in Requests, OpenForReview(v, r)
        PROVE  PageInv'
    <2>1. req' = req /\ req[r].revision \in Nat
      BY <1>2 DEF OpenForReview, Request
    <2>2. ASSUME NEW u \in Reviewers, NEW x \in Requests, u = v /\ x = r
          PROVE  page'[u][x] = [revision |-> req[r].revision, stamp |-> req[r].stamp]
      BY <1>2, <2>2 DEF OpenForReview
    <2>3. ASSUME NEW u \in Reviewers, NEW x \in Requests, ~(u = v /\ x = r)
          PROVE  page'[u][x] = page[u][x]
      BY <1>2, <2>3 DEF OpenForReview
    <2> SUFFICES ASSUME NEW u \in Reviewers, NEW x \in Requests
                 PROVE  /\ page'[u][x].revision <= req'[x].revision
                        /\ page'[u][x].revision = req'[x].revision =>
                              page'[u][x].stamp = req'[x].stamp
      BY DEF PageInv
    <2>4. CASE u = v /\ x = r
      BY <2>1, <2>2, <2>4
    <2>5. CASE ~(u = v /\ x = r)
      <3>1. page'[u][x] = page[u][x]
        BY <2>3, <2>5
      <3> QED
        BY <2>1, <3>1 DEF PageInv
    <2> QED
      BY <2>4, <2>5
  <1>3. ASSUME NEW r \in Requests, UserStep(r)
        PROVE  UNCHANGED page
    <2>1. ASSUME NEW u, NEW s, NEW n, NEW sched,
                 \/ Create(r, u, s, sched) \/ BeginUpdate(r, u, s, sched)
                 \/ CreateDraft(r, u, n, sched) \/ UpdateDraft(r, u, n, sched)
          PROVE  UNCHANGED page
      BY <2>1, Zenon DEF Create, CreateDraft, BeginUpdate, UpdateDraft
    <2>2. ASSUME NEW u, NEW new, RetryLinked(r, u, new)
          PROVE  UNCHANGED page
      BY <2>2, Zenon DEF RetryLinked
    <2>3. ASSUME NEW u, \/ Withdraw(r, u) \/ Dispatch(r, u) \/ Cancel(r, u)
                        \/ RetryInPlace(r, u) \/ ResolveFailure(r, u)
          PROVE  UNCHANGED page
      BY <2>3, Zenon DEF Withdraw, DispatchTransaction, Dispatch, Cancel, RetryInPlace,
         ResolveFailure
    <2> QED
      BY <1>3, <2>1, <2>2, <2>3, Zenon DEF UserStep
  <1>4. ASSUME NEW r \in Requests, SystemStep(r) \/ TimePasses(r)
        PROVE  UNCHANGED page
    BY <1>4, Zenon DEF SystemStep, CommitUpdate, AbortUpdate, DispatchTransaction, DispatchDue,
       ExpireLock, Redeliver, TimePasses, requestVars
  <1>5. ASSUME NEW r \in Requests, ReviewStep(r)
        PROVE  UNCHANGED page \/ \E u \in Reviewers : OpenForReview(u, r)
    BY <1>5, Zenon DEF ReviewStep, Approve, Reject
  <1>6. ASSUME NEW w \in Workers, WorkerStep(w) \/ FaultStep(w)
        PROVE  UNCHANGED page
    BY <1>6, Zenon DEF WorkerStep, FaultStep, TakeJob, DropJob, Load, ReturnBlocked, Claim,
       CheckCancelled, StartStatement, StatementSucceeds, StatementFails, RecordFailure,
       RecordCompletion, Close, Throw, FailedHook, Timeout, Crash, requestVars
  <1>7. CASE ChangePolicy \/ UNCHANGED vars
    BY <1>1, <1>7 DEF ChangePolicy, requestVars, vars
  <1> QED
    BY <1>1, <1>2, <1>3, <1>4, <1>5, <1>6, <1>7 DEF Next

\* The history stays right under what people and the control plane do.
LEMMA RequestLedger ==
    ASSUME TypeInv, PageInv, LedgerInv, NEW r \in Requests,
           UserStep(r) \/ ReviewStep(r) \/ SystemStep(r) \/ TimePasses(r)
    PROVE  \A x \in Requests : LedgerStep(x)
  <1> USE BatchAssumption DEF TypeInv, TypeOK
  <1>1. ASSUME NEW x \in Requests, req'[x] = req[x], endorsed'[x] = endorsed[x],
               early'[x] = early[x]
        PROVE  LedgerStep(x)
    BY <1>1 DEF LedgerInv, LedgerStep, Vouched, Punctual
  <1>2. ASSUME UNCHANGED <<req, endorsed, early>>
        PROVE  \A x \in Requests : LedgerStep(x)
    BY <1>1, <1>2
  <1>3. ASSUME NEW q, req' = [req EXCEPT ![r] = q], UNCHANGED <<endorsed, early>>,
               \/ q.approvedBy = None
               \/ /\ q.approvedBy = req[r].approvedBy
                  /\ q.requester = req[r].requester /\ q.stamp = req[r].stamp,
               q.status = "scheduled" => req[r].status = "scheduled",
               q.status = "pending_review" => ~q.dispatched,
               q.dispatched /\ q.dispatchedBy = None =>
                   \/ req[r].status = "scheduled"
                   \/ req[r].dispatched /\ req[r].dispatchedBy = None
        PROVE  \A x \in Requests : LedgerStep(x)
    <2>1. req'[r] = q
      BY <1>3
    <2>2. Vouched(r)'
      BY <1>3, <2>1 DEF LedgerInv, Vouched
    <2>3. Punctual(r)'
      BY <1>3, <2>1 DEF LedgerInv, Punctual
    <2>4. LedgerStep(r)
      BY <1>3, <2>2, <2>3 DEF LedgerStep
    <2>5. \A x \in Requests \ {r} : LedgerStep(x)
      BY <1>1, <1>3
    <2> QED
      BY <2>4, <2>5
  <1>4. ASSUME NEW st \in {"failed", "cancelled", "rejected"},
               req' = [req EXCEPT ![r].status = st], UNCHANGED <<endorsed, early>>
        PROVE  \A x \in Requests : LedgerStep(x)
    <2> DEFINE q == [req[r] EXCEPT !.status = st]
    <2>1. req' = [req EXCEPT ![r] = q]
      BY <1>4
    <2>2. /\ q.status = st /\ q.approvedBy = req[r].approvedBy /\ q.requester = req[r].requester
          /\ q.stamp = req[r].stamp /\ q.dispatched = req[r].dispatched
          /\ q.dispatchedBy = req[r].dispatchedBy
      BY DEF Request
    <2> HIDE DEF q
    <2> QED
      BY <1>3, <1>4, <2>1, <2>2
  <1>5. ASSUME NEW by \in Users \cup {None}, DispatchTransaction(r, by),
               by = None => req[r].status = "scheduled"
        PROVE  \A x \in Requests : LedgerStep(x)
    <2>0. UNCHANGED <<endorsed, early>>
      BY <1>5 DEF DispatchTransaction
    <2>1. CASE req' = [req EXCEPT ![r] = Undispatched(@)]
      <3>1. /\ Undispatched(req[r]).status = "approved" /\ ~Undispatched(req[r]).dispatched
            /\ Undispatched(req[r]).approvedBy = req[r].approvedBy
            /\ Undispatched(req[r]).requester = req[r].requester
            /\ Undispatched(req[r]).stamp = req[r].stamp
        BY DEF Undispatched, Request
      <3> QED
        BY <1>3, <2>0, <2>1, <3>1
    <2>2. CASE req' = [req EXCEPT ![r] = ReturnedToReview(@)]
      <3>1. ReturnedToReview(req[r]).approvedBy = None /\ ~ReturnedToReview(req[r]).dispatched
            /\ ReturnedToReview(req[r]).status = "pending_review"
        BY DEF ReturnedToReview, Request
      <3> QED
        BY <1>3, <2>0, <2>2, <3>1
    <2>3. CASE req' = [req EXCEPT ![r] = [@ EXCEPT !.status = "approved",
                                   !.dispatched = TRUE, !.dispatchedBy = by]]
      <3> DEFINE q == [req[r] EXCEPT !.status = "approved", !.dispatched = TRUE, !.dispatchedBy = by]
      <3>1. /\ q.status = "approved" /\ q.dispatchedBy = by
            /\ q.approvedBy = req[r].approvedBy /\ q.requester = req[r].requester
            /\ q.stamp = req[r].stamp
        BY DEF Request
      <3>2. req' = [req EXCEPT ![r] = q]
        BY <2>3
      <3> HIDE DEF q
      <3> QED
        BY <1>3, <1>5, <2>0, <3>1, <3>2
    <2> QED
      BY <1>5, <2>1, <2>2, <2>3, Zenon DEF DispatchTransaction
  <1>6. CASE UserStep(r)
    <2>1. ASSUME NEW u \in Users, NEW s \in Statements, NEW sched \in Schedules,
                 Create(r, u, s, sched)
          PROVE  \A x \in Requests : LedgerStep(x)
      <3>1. /\ req'[r].approvedBy \in {None, u} /\ req'[r].requester = u
            /\ req'[r].status = "scheduled" => sched = "future"
            /\ ~req'[r].dispatched /\ early'[r] = (sched = "future")
            /\ req[r].status = "absent"
        BY <2>1 DEF Create, AbsentRequest, ReadyStatus
      <3>2. LedgerStep(r)
        BY <3>1 DEF LedgerStep, Vouched, Punctual
      <3>3. \A x \in Requests \ {r} :
                req'[x] = req[x] /\ endorsed'[x] = endorsed[x] /\ early'[x] = early[x]
        BY <2>1 DEF Create
      <3> QED
        BY <1>1, <3>2, <3>3
    <2>2. ASSUME NEW u \in Users, NEW n \in Positions, NEW sched \in Schedules,
                 CreateDraft(r, u, n, sched)
          PROVE  \A x \in Requests : LedgerStep(x)
      <3> DEFINE q == [AbsentRequest EXCEPT !.status = "draft", !.requester = u, !.revision = 1,
                !.stamp = 1, !.stmts = [i \in 1 .. n |-> "write"], !.sched = sched]
      <3>1. q.approvedBy = None /\ q.status = "draft" /\ ~q.dispatched
        BY DEF AbsentRequest
      <3>2. req' = [req EXCEPT ![r] = q] /\ UNCHANGED <<endorsed, early>>
        BY <2>2 DEF CreateDraft
      <3> HIDE DEF q
      <3> QED
        BY <1>3, <3>1, <3>2
    <2>3. ASSUME NEW u \in Users, NEW n \in Positions, NEW sched \in Schedules,
                 UpdateDraft(r, u, n, sched)
          PROVE  \A x \in Requests : LedgerStep(x)
      <3> DEFINE q == req'[r]
      <3>1. q.approvedBy = None /\ q.status = "draft" /\ ~q.dispatched
        BY <2>3 DEF UpdateDraft, Request
      <3>2. req' = [req EXCEPT ![r] = q] /\ UNCHANGED <<endorsed, early>>
        BY <2>3 DEF UpdateDraft
      <3> QED
        BY <1>3, <3>1, <3>2
    <2>4. ASSUME NEW u \in Users, Withdraw(r, u)
          PROVE  \A x \in Requests : LedgerStep(x)
      <3> DEFINE q == req'[r]
      <3>1. q.approvedBy = None /\ q.status = "draft" /\ ~q.dispatched
        BY <2>4 DEF Withdraw, Request
      <3>2. req' = [req EXCEPT ![r] = q] /\ UNCHANGED <<endorsed, early>>
        BY <2>4 DEF Withdraw
      <3> QED
        BY <1>3, <3>1, <3>2
    <2>5. ASSUME NEW u \in Users, Dispatch(r, u)
          PROVE  \A x \in Requests : LedgerStep(x)
      BY <1>5, <2>5 DEF Dispatch
    <2>6. ASSUME NEW u \in Users, Cancel(r, u)
          PROVE  \A x \in Requests : LedgerStep(x)
      BY <1>4, <2>6 DEF Cancel
    <2>7. ASSUME NEW u \in Users, RetryInPlace(r, u)
          PROVE  \A x \in Requests : LedgerStep(x)
      <3> DEFINE q == [req[r] EXCEPT !.status = "approved", !.dispatched = TRUE, !.dispatchedBy = u]
      <3>1. /\ q.status = "approved" /\ q.dispatchedBy = u
            /\ q.approvedBy = req[r].approvedBy /\ q.requester = req[r].requester
            /\ q.stamp = req[r].stamp
        BY DEF Request
      <3>2. req' = [req EXCEPT ![r] = q] /\ UNCHANGED <<endorsed, early>>
        BY <2>7 DEF RetryInPlace
      <3> HIDE DEF q
      <3> QED
        BY <1>3, <3>1, <3>2
    <2>8. ASSUME NEW u \in Users, NEW new \in Requests, RetryLinked(r, u, new)
          PROVE  \A x \in Requests : LedgerStep(x)
      <3> DEFINE owner == req[r].requester
                 rest == SubSeq(req[r].stmts, RetryFrom(r), Len(req[r].stmts))
                 st == IF RequiresApproval(owner, rest) THEN "pending_review" ELSE "approved"
                 a == IF RequiresApproval(owner, rest) THEN None ELSE owner
                 row == [AbsentRequest EXCEPT !.status = st, !.requester = owner,
                            !.revision = 1, !.stamp = 1, !.stmts = rest,
                            !.queryType = req[r].queryType, !.approvedBy = a]
      <3>1. req' = [req EXCEPT ![new] = row] /\ req[new].status = "absent" /\ UNCHANGED early
        BY <2>8, Zenon DEF RetryLinked
      <3>2. /\ row.requester = owner /\ row.approvedBy = a
            /\ row.status = st /\ row.dispatched = FALSE
        <4> HIDE DEF owner, rest, st, a
        <4> QED
          BY DEF AbsentRequest
      <3>3. a \in {None, owner} /\ st # "scheduled"
        <4> HIDE DEF owner, rest
        <4> QED
          OBVIOUS
      <3>4. req'[new] = row /\ \A x \in Requests \ {new} : req'[x] = req[x]
        <4> HIDE DEF row
        <4> QED
          BY <3>1
      <3>5. \A x \in Requests \ {new} : endorsed'[x] = endorsed[x]
        BY <2>8 DEF RetryLinked
      <3>6. LedgerStep(new)
        <4> HIDE DEF row, owner, st, a
        <4> QED
          BY <3>1, <3>2, <3>3, <3>4 DEF LedgerStep, Vouched, Punctual
      <3> HIDE DEF row, owner, rest, st, a
      <3> QED
        BY <1>1, <3>1, <3>4, <3>5, <3>6
    <2>9. ASSUME NEW u \in Users, ResolveFailure(r, u)
          PROVE  \A x \in Requests : LedgerStep(x)
      <3> DEFINE q == [req[r] EXCEPT !.resolved = TRUE]
      <3>1. /\ q.status = req[r].status /\ q.dispatchedBy = req[r].dispatchedBy
            /\ q.approvedBy = req[r].approvedBy /\ q.requester = req[r].requester
            /\ q.stamp = req[r].stamp /\ q.dispatched = req[r].dispatched
        BY DEF Request
      <3>2. /\ req' = [req EXCEPT ![r] = q] /\ UNCHANGED <<endorsed, early>>
            /\ req[r].status = "failed"
        BY <2>9 DEF ResolveFailure
      <3> HIDE DEF q
      <3> QED
        BY <1>3, <3>1, <3>2
    <2>10. ASSUME NEW u, NEW s, NEW sched, BeginUpdate(r, u, s, sched)
           PROVE  \A x \in Requests : LedgerStep(x)
      BY <1>2, <2>10 DEF BeginUpdate
    <2> QED
      BY <1>6, <2>1, <2>2, <2>3, <2>4, <2>5, <2>6, <2>7, <2>8, <2>9, <2>10 DEF UserStep
  <1>7. CASE ReviewStep(r)
    <2>1. ASSUME NEW u \in Reviewers, Approve(u, r)
          PROVE  \A x \in Requests : LedgerStep(x)
      <3>1. page[u][r].stamp = req[r].stamp
        BY <2>1 DEF Approve, CanDecide, PageInv
      <3>2. /\ req'[r].approvedBy = u /\ req'[r].stamp = req[r].stamp
            /\ req'[r].status = ReadyStatus(req[r].sched) /\ req'[r].dispatched = req[r].dispatched
        BY <2>1 DEF Approve, Request
      <3>3. ~req[r].dispatched
        BY <2>1 DEF Approve, CanDecide, LedgerInv, Punctual
      <3>4. endorsed'[r] = endorsed[r] \cup {<<u, req[r].stamp>>}
        BY <2>1, <3>1 DEF Approve
      <3>5. early'[r] = (req[r].sched = "future")
        BY <2>1 DEF Approve
      <3>6. LedgerStep(r)
        BY <3>2, <3>3, <3>4, <3>5 DEF LedgerStep, Vouched, Punctual, ReadyStatus
      <3>7. \A x \in Requests \ {r} :
                req'[x] = req[x] /\ endorsed'[x] = endorsed[x] /\ early'[x] = early[x]
        BY <2>1 DEF Approve
      <3> QED
        BY <1>1, <3>6, <3>7
    <2>2. ASSUME NEW u \in Reviewers, Reject(u, r)
          PROVE  \A x \in Requests : LedgerStep(x)
      BY <1>4, <2>2 DEF Reject
    <2>3. ASSUME NEW u \in Reviewers, OpenForReview(u, r)
          PROVE  \A x \in Requests : LedgerStep(x)
      BY <1>2, <2>3 DEF OpenForReview
    <2> QED
      BY <1>7, <2>1, <2>2, <2>3 DEF ReviewStep
  <1>8. CASE SystemStep(r)
    <2>1. CASE CommitUpdate(r)
      <3> DEFINE e == edit[r]
                 next == req[r].revision + 1
      <3>1. /\ req'[r].approvedBy = IF e.requires THEN None ELSE e.by
            /\ req'[r].stamp = next /\ ~req'[r].dispatched
            /\ req'[r].status = IF e.requires THEN "pending_review" ELSE ReadyStatus(e.sched)
        BY <2>1 DEF CommitUpdate, Request
      <3>2. endorsed'[r] = IF e.requires THEN endorsed[r] ELSE endorsed[r] \cup {<<e.by, next>>}
        BY <2>1 DEF CommitUpdate
      <3>3. early'[r] = (e.sched = "future")
        BY <2>1 DEF CommitUpdate
      <3>4. LedgerStep(r)
        <4> HIDE DEF e, next
        <4> QED
          BY <3>1, <3>2, <3>3 DEF LedgerStep, Vouched, Punctual, ReadyStatus
      <3>5. \A x \in Requests \ {r} :
                req'[x] = req[x] /\ endorsed'[x] = endorsed[x] /\ early'[x] = early[x]
        BY <2>1 DEF CommitUpdate
      <3> QED
        BY <1>1, <3>4, <3>5
    <2>2. CASE AbortUpdate(r)
      BY <1>2, <2>2 DEF AbortUpdate
    <2>3. CASE DispatchDue(r)
      BY <1>5, <2>3 DEF DispatchDue
    <2>4. CASE ExpireLock(r)
      BY <1>2, <2>4 DEF ExpireLock, requestVars
    <2>5. CASE Redeliver(r)
      BY <1>2, <1>4, <2>5 DEF Redeliver, AfterFailedHook
    <2> QED
      BY <1>8, <2>1, <2>2, <2>3, <2>4, <2>5, Zenon DEF SystemStep
  <1>9. CASE TimePasses(r)
    <2>1. CASE req' = [req EXCEPT ![r].sched = "past"] /\ UNCHANGED <<endorsed, early>>
      <3> DEFINE q == [req[r] EXCEPT !.sched = "past"]
      <3>1. /\ q.status = req[r].status /\ q.dispatchedBy = req[r].dispatchedBy
            /\ q.approvedBy = req[r].approvedBy /\ q.requester = req[r].requester
            /\ q.stamp = req[r].stamp /\ q.dispatched = req[r].dispatched
        BY DEF Request
      <3>2. req' = [req EXCEPT ![r] = q]
        BY <2>1
      <3>3. req[r].status = "pending_review" => ~req[r].dispatched
        BY DEF LedgerInv, Punctual
      <3> HIDE DEF q
      <3> QED
        BY <1>3, <2>1, <3>1, <3>2, <3>3
    <2>2. \/ UNCHANGED <<req, endorsed, early>>
          \/ req' = [req EXCEPT ![r].sched = "past"] /\ UNCHANGED <<endorsed, early>>
      BY <1>9, Zenon DEF TimePasses
    <2> QED
      BY <1>2, <2>1, <2>2, Zenon
  <1> QED
    BY <1>6, <1>7, <1>8, <1>9

\* The history stays right under what workers do.
LEMMA WorkerLedger ==
    ASSUME TypeInv, LedgerInv, NEW w \in Workers, WorkerStep(w) \/ FaultStep(w)
    PROVE  \A x \in Requests : LedgerStep(x)
  <1> USE BatchAssumption DEF TypeInv, TypeOK
  <1> DEFINE r == worker[w].req
  <1>1. UNCHANGED <<endorsed, early>>
    BY Zenon DEF WorkerStep, FaultStep, TakeJob, DropJob, Load, ReturnBlocked, Claim,
       CheckCancelled, StartStatement, StatementSucceeds, StatementFails, RecordFailure,
       RecordCompletion, Close, Throw, FailedHook, Timeout, Crash, requestVars
  <1>2. ASSUME NEW x \in Requests, req'[x] = req[x]
        PROVE  LedgerStep(x)
    BY <1>1, <1>2 DEF LedgerInv, LedgerStep, Vouched, Punctual
  <1>3. ASSUME NEW q, NEW y \in Requests, req' = [req EXCEPT ![y] = q],
               \/ q.approvedBy = None
               \/ /\ q.approvedBy = req[y].approvedBy
                  /\ q.requester = req[y].requester /\ q.stamp = req[y].stamp,
               q.status # "scheduled",
               q.status = "pending_review" => ~q.dispatched,
               \/ ~q.dispatched
               \/ q.dispatched = req[y].dispatched /\ q.dispatchedBy = req[y].dispatchedBy
        PROVE  \A x \in Requests : LedgerStep(x)
    <2>1. req'[y] = q
      BY <1>3
    <2>2. Vouched(y)'
      BY <1>1, <1>3, <2>1 DEF LedgerInv, Vouched
    <2>3. Punctual(y)'
      BY <1>1, <1>3, <2>1 DEF LedgerInv, Punctual
    <2>4. LedgerStep(y)
      BY <1>1, <2>2, <2>3 DEF LedgerStep
    <2>5. \A x \in Requests \ {y} : LedgerStep(x)
      BY <1>2, <1>3
    <2> QED
      BY <2>4, <2>5
  <1>4. ASSUME NEW st \in {"running", "failed", "completed"}, r \in Requests,
               req' = [req EXCEPT ![r].status = st]
        PROVE  \A x \in Requests : LedgerStep(x)
    <2> DEFINE q == [req[r] EXCEPT !.status = st]
    <2>1. req' = [req EXCEPT ![r] = q]
      BY <1>4
    <2>2. /\ q.status = st /\ q.approvedBy = req[r].approvedBy /\ q.requester = req[r].requester
          /\ q.stamp = req[r].stamp /\ q.dispatched = req[r].dispatched
          /\ q.dispatchedBy = req[r].dispatchedBy
      BY <1>4 DEF Request
    <2> HIDE DEF q
    <2> QED
      BY <1>3, <1>4, <2>1, <2>2
  <1>5. ASSUME r \in Requests, \/ req' = [req EXCEPT ![r] = Undispatched(@)]
                               \/ req' = [req EXCEPT ![r] = ReturnedToReview(@)]
        PROVE  \A x \in Requests : LedgerStep(x)
    <2>1. CASE req' = [req EXCEPT ![r] = Undispatched(@)]
      <3>1. /\ Undispatched(req[r]).status = "approved" /\ ~Undispatched(req[r]).dispatched
            /\ Undispatched(req[r]).approvedBy = req[r].approvedBy
            /\ Undispatched(req[r]).requester = req[r].requester
            /\ Undispatched(req[r]).stamp = req[r].stamp
        BY <1>5 DEF Undispatched, Request
      <3> QED
        BY <1>3, <1>5, <2>1, <3>1
    <2>2. CASE req' = [req EXCEPT ![r] = ReturnedToReview(@)]
      <3>1. ReturnedToReview(req[r]).approvedBy = None /\ ~ReturnedToReview(req[r]).dispatched
            /\ ReturnedToReview(req[r]).status = "pending_review"
        BY <1>5 DEF ReturnedToReview, Request
      <3> QED
        BY <1>3, <1>5, <2>2, <3>1
    <2> QED
      BY <1>5, <2>1, <2>2
  <1>6. \/ UNCHANGED req
        \/ worker[w].phase # "idle" /\
              \/ req' = [req EXCEPT ![r] = Undispatched(@)]
              \/ req' = [req EXCEPT ![r] = ReturnedToReview(@)]
              \/ \E st \in {"running", "failed", "completed"} : req' = [req EXCEPT ![r].status = st]
    <2>1. CASE ReturnBlocked(w)
      BY <2>1 DEF ReturnBlocked
    <2>2. CASE Claim(w)
      <3>1. worker[w].phase # "idle"
        BY <2>2 DEF Claim
      <3> QED
        BY <2>2, <3>1, Zenon DEF Claim
    <2>3. CASE RecordFailure(w) \/ RecordCompletion(w)
      <3>1. worker[w].phase # "idle"
        BY <2>3 DEF RecordFailure, RecordCompletion
      <3>2. UNCHANGED req \/ \E st \in {"failed", "completed"} : req' = [req EXCEPT ![r].status = st]
        BY <2>3, Zenon DEF RecordFailure, RecordCompletion
      <3> QED
        BY <3>1, <3>2, Zenon
    <2>4. CASE FailedHook(w) \/ Timeout(w)
      <3>1. worker[w].phase # "idle"
        BY <2>4 DEF FailedHook, Timeout, Holding
      <3>2. UNCHANGED req \/ req' = [req EXCEPT ![r].status = "failed"]
        BY <2>4, Zenon DEF FailedHook, Timeout, AfterFailedHook
      <3> QED
        BY <3>1, <3>2, Zenon
    <2>5. CASE UNCHANGED requestVars
      BY <2>5 DEF requestVars
    <2>6. \/ ReturnBlocked(w) \/ Claim(w) \/ RecordCompletion(w) \/ RecordFailure(w)
          \/ FailedHook(w) \/ Timeout(w) \/ UNCHANGED requestVars
      BY Zenon DEF WorkerStep, FaultStep, TakeJob, DropJob, Load, CheckCancelled, StartStatement,
         StatementSucceeds, StatementFails, Close, Throw, Crash
    <2> QED
      BY <2>1, <2>2, <2>3, <2>4, <2>5, <2>6, Zenon
  <1>7. worker[w].phase # "idle" => r \in Requests
    BY DEF WorkerInv
  <1> QED
    BY <1>2, <1>4, <1>5, <1>6, <1>7

\* The history stays right.
LEMMA Ledger ==
    ASSUME TypeInv, PageInv, LedgerInv, [Next]_vars
    PROVE  \A x \in Requests : LedgerStep(x)
  <1>1. CASE UNCHANGED <<req, endorsed, early>>
    BY <1>1 DEF LedgerInv, LedgerStep, Vouched, Punctual
  <1>2. CASE ChangePolicy \/ UNCHANGED vars
    BY <1>1, <1>2 DEF ChangePolicy, requestVars, vars
  <1> QED
    BY <1>2, RequestLedger, WorkerLedger DEF Next

\* Endorsements of claimed work stay, because nobody's word is taken back and a
\* request never changes hands; a claim finds one, because it tests the policy
\* and the recorded approval in the transaction that reads the statements.
LEMMA EndorsedStep ==
    ASSUME TypeInv, PageInv, LedgerInv, OnlyEndorsedWorkRuns, [Next]_vars
    PROVE  OnlyEndorsedWorkRuns'
  <1> USE DEF TypeInv, TypeOK
  <1>1. \A x \in Requests : req[x].status # "absent" =>
            endorsed[x] \subseteq endorsed'[x] /\ req'[x].requester = req[x].requester
    BY Ledger, Rows DEF LedgerStep, RowStep
  <1>2. \A v \in Workers : worker[v].phase \in Claimed =>
            worker[v].req \in Requests /\ req[worker[v].req].status # "absent"
    BY DEF WorkerInv, Claimed
  <1> DEFINE Endorsed(v) ==
                \E u \in Users \ {req'[worker'[v].req].requester} :
                    <<u, worker'[v].stamp>> \in endorsed'[worker'[v].req]
  <1>3. ASSUME NEW v \in Workers, worker[v].phase \in Claimed, worker[v].needed,
               worker'[v].req = worker[v].req, worker'[v].stamp = worker[v].stamp
        PROVE  Endorsed(v)
    <2>1. PICK u \in Users \ {req[worker[v].req].requester} :
              <<u, worker[v].stamp>> \in endorsed[worker[v].req]
      BY <1>3 DEF OnlyEndorsedWorkRuns
    <2> QED
      BY <1>1, <1>2, <1>3, <2>1
  <1>4. ASSUME UNCHANGED worker
        PROVE  OnlyEndorsedWorkRuns'
    BY <1>3, <1>4 DEF OnlyEndorsedWorkRuns
  <1>5. ASSUME NEW w \in Workers, WorkerStep(w) \/ FaultStep(w)
        PROVE  OnlyEndorsedWorkRuns'
    <2> SUFFICES ASSUME NEW v \in Workers, worker'[v].phase \in Claimed, worker'[v].needed
                 PROVE  Endorsed(v)
      BY DEF OnlyEndorsedWorkRuns
    <2>1. CASE v # w
      <3>1. worker'[v] = worker[v]
        BY <1>5, <2>1, WorkerFrame
      <3> QED
        BY <1>3, <3>1
    <2>2. CASE v = w
      <3> DEFINE r == worker[w].req
      <3>1. CASE /\ worker[w].phase \in Claimed \ {"finish"}
                 /\ worker'[w].req = worker[w].req
                 /\ worker'[w].stamp = worker[w].stamp
                 /\ worker'[w].needed = worker[w].needed
        BY <1>3, <2>2, <3>1
      <3>2. CASE /\ worker[w].phase = "claiming"
                 /\ worker'[w] = ClaimedRun(w)
                 /\ req[worker[w].req].status \in {"approved", "running"}
                 /\ ~RequiresFreshApproval(worker[w].req)
        <4>1. r \in Requests /\ req[r].status # "absent"
          BY <3>2 DEF WorkerInv
        <4>2. /\ worker'[w].req = r /\ worker'[w].stamp = req[r].stamp
              /\ worker'[w].needed = RequiresApproval(req[r].requester, req[r].stmts)
          BY <3>2 DEF ClaimedRun, Worker
        <4>3. req[r].approvedBy \notin {None, req[r].requester}
          BY <2>2, <3>2, <4>2 DEF RequiresFreshApproval
        <4>4. req[r].approvedBy \in Users /\ <<req[r].approvedBy, req[r].stamp>> \in endorsed[r]
          BY <4>1, <4>3 DEF LedgerInv, Vouched, Request
        <4> QED
          BY <1>1, <2>2, <4>1, <4>2, <4>3, <4>4
      <3> QED
        BY <1>5, <2>2, <3>1, <3>2, WorkerClaims
    <2> QED
      BY <2>1, <2>2
  <1>6. CASE ChangePolicy \/ UNCHANGED vars
    BY <1>4, <1>6 DEF ChangePolicy, jobVars, vars
  <1> QED
    BY <1>4, <1>5, <1>6, RequestFrame DEF Next

\* A batch that needs an approval when it is claimed has been read and approved, or
\* written, by somebody other than its requester, in exactly the form that runs.
THEOREM WorkIsEndorsed == Spec => []OnlyEndorsedWorkRuns
  <1> DEFINE Inv == TypeInv /\ PageInv /\ LedgerInv /\ OnlyEndorsedWorkRuns
  <1>1. Init => Inv
    <2> SUFFICES ASSUME Init PROVE Inv
      OBVIOUS
    <2>1. PageInv
      BY DEF Init, PageInv, AbsentRequest
    <2>2. LedgerInv
      BY DEF Init, LedgerInv, Vouched, Punctual, AbsentRequest
    <2>3. OnlyEndorsedWorkRuns
      BY DEF Init, OnlyEndorsedWorkRuns, IdleWorker, Claimed
    <2> QED
      BY <2>1, <2>2, <2>3, TypeInvInit
  <1>2. Inv /\ [Next]_vars => Inv'
    <2> SUFFICES ASSUME Inv, [Next]_vars PROVE Inv'
      OBVIOUS
    <2>1. LedgerInv'
      BY Ledger DEF LedgerInv, LedgerStep
    <2> QED
      BY <2>1, TypeInvStep, PageInvStep, EndorsedStep
  <1>3. Inv => OnlyEndorsedWorkRuns
    OBVIOUS
  <1> QED
    BY <1>1, <1>2, <1>3, PTL DEF Spec

\* What the scheduler has dispatched on its own was ready before its time.
THEOREM SchedulerIsPunctual == Spec => []NoLateUnattendedRun
  <1> DEFINE Inv == TypeInv /\ PageInv /\ LedgerInv
  <1>1. Init => Inv
    <2> SUFFICES ASSUME Init PROVE Inv
      OBVIOUS
    <2>1. PageInv
      BY DEF Init, PageInv, AbsentRequest
    <2>2. LedgerInv
      BY DEF Init, LedgerInv, Vouched, Punctual, AbsentRequest
    <2> QED
      BY <2>1, <2>2, TypeInvInit
  <1>2. Inv /\ [Next]_vars => Inv'
    <2> SUFFICES ASSUME Inv, [Next]_vars PROVE Inv'
      OBVIOUS
    <2>1. LedgerInv'
      BY Ledger DEF LedgerInv, LedgerStep
    <2> QED
      BY <2>1, TypeInvStep, PageInvStep
  <1>3. Inv => NoLateUnattendedRun
    BY DEF LedgerInv, Punctual, NoLateUnattendedRun
  <1> QED
    BY <1>1, <1>2, <1>3, PTL DEF Spec

-----------------------------------------------------------------------------
(* What a cancellation stops                                               *)

\* Once a statement has started after the cancellation of its batch, no worker is
\* about to start another one.
LateInv ==
    \A x \in Requests :
        late[x] # 0 =>
            /\ late[x] = 1 /\ req[x].status = "cancelled"
            /\ \A w \in Workers : worker[w].phase = "start" => worker[w].req # x

\* Statements are started by workers only.
LEMMA LateFrame ==
    ASSUME NEW r \in Requests, UserStep(r) \/ ReviewStep(r) \/ SystemStep(r) \/ TimePasses(r)
    PROVE  UNCHANGED late
  <1>1. CASE UserStep(r)
    <2>1. ASSUME NEW u, NEW s, NEW n, NEW sched,
                 \/ Create(r, u, s, sched) \/ BeginUpdate(r, u, s, sched)
                 \/ CreateDraft(r, u, n, sched) \/ UpdateDraft(r, u, n, sched)
          PROVE  UNCHANGED late
      BY <2>1, Zenon DEF Create, CreateDraft, BeginUpdate, UpdateDraft, runVars
    <2>2. ASSUME NEW u, NEW new, RetryLinked(r, u, new)
          PROVE  UNCHANGED late
      BY <2>2, Zenon DEF RetryLinked, runVars
    <2>3. ASSUME NEW u, \/ Withdraw(r, u) \/ Dispatch(r, u) \/ Cancel(r, u)
                        \/ RetryInPlace(r, u) \/ ResolveFailure(r, u)
          PROVE  UNCHANGED late
      BY <2>3, Zenon DEF Withdraw, DispatchTransaction, Dispatch, Cancel, RetryInPlace,
         ResolveFailure, runVars
    <2> QED
      BY <1>1, <2>1, <2>2, <2>3, Zenon DEF UserStep
  <1>2. CASE ReviewStep(r)
    BY <1>2, Zenon DEF ReviewStep, OpenForReview, Approve, Reject, runVars
  <1>3. CASE SystemStep(r)
    BY <1>3, Zenon DEF SystemStep, CommitUpdate, AbortUpdate, DispatchTransaction, DispatchDue,
       ExpireLock, Redeliver, runVars
  <1>4. CASE TimePasses(r)
    BY <1>4, Zenon DEF TimePasses, runVars
  <1> QED
    BY <1>1, <1>2, <1>3, <1>4

\* A worker that is about to start a statement has just seen the batch not cancelled.
LEMMA StartFrame ==
    ASSUME TypeInv, NEW w \in Workers, WorkerStep(w) \/ FaultStep(w)
    PROVE  /\ UNCHANGED late \/ StartStatement(w)
           /\ worker'[w].phase = "start" =>
                 /\ UNCHANGED <<req, late>> /\ worker'[w].req = worker[w].req
                 /\ req[worker[w].req].status # "cancelled"
  <1> USE DEF TypeInv, TypeOK
  <1>1. UNCHANGED late \/ StartStatement(w)
    BY Zenon DEF WorkerStep, FaultStep, TakeJob, DropJob, Load, ReturnBlocked, Claim,
       CheckCancelled, StatementSucceeds, StatementFails, RecordFailure,
       RecordCompletion, Close, Throw, FailedHook, Timeout, Crash, runVars
  <1>2. ASSUME NEW ph, worker' = [worker EXCEPT ![w].phase = ph]
        PROVE  worker'[w].phase = ph /\ worker'[w].req = worker[w].req
    BY <1>2 DEF Worker
  <1>3. CASE CheckCancelled(w)
    <2>1. PICK ph : /\ worker' = [worker EXCEPT ![w].phase = ph]
                    /\ ph = IF req[worker[w].req].status = "cancelled" THEN "closing" ELSE "start"
      BY <1>3 DEF CheckCancelled, Goto
    <2> QED
      BY <1>1, <1>2, <1>3, <2>1 DEF CheckCancelled, requestVars, runVars
  <1>4. ASSUME \/ Load(w) \/ ReturnBlocked(w) \/ StartStatement(w) \/ StatementFails(w)
               \/ RecordFailure(w) \/ RecordCompletion(w) \/ Throw(w)
        PROVE  worker'[w].phase # "start"
    <2>1. PICK ph \in {"closing", "blocked", "claiming", "executing", "failure", "throwing",
                       "failing"} : Goto(w, ph)
      BY <1>4 DEF Load, ReturnBlocked, StartStatement, StatementFails, RecordFailure,
         RecordCompletion, Throw
    <2> QED
      BY <1>2, <2>1 DEF Goto
  <1>5. ASSUME Claim(w)
        PROVE  worker'[w].phase # "start"
    <2>1. CASE Goto(w, "closing")
      BY <1>2, <2>1 DEF Goto
    <2>2. CASE worker' = [worker EXCEPT ![w] = ClaimedRun(w)]
      BY <2>2 DEF ClaimedRun, Worker
    <2> QED
      BY <1>5, <2>1, <2>2, Zenon DEF Claim
  <1>6. ASSUME StatementSucceeds(w)
        PROVE  worker'[w].phase # "start"
    <2>1. worker'[w] = [worker[w] EXCEPT
              !.phase = IF worker[w].pos = worker[w].last THEN "finish" ELSE "check",
              !.pos = worker[w].pos + 1]
      BY <1>6 DEF StatementSucceeds
    <2> QED
      BY <2>1 DEF Worker
  <1>7. ASSUME Close(w) \/ FailedHook(w) \/ Timeout(w) \/ Crash(w)
        PROVE  worker'[w].phase # "start"
    BY <1>7 DEF Close, FailedHook, Timeout, Crash, IdleWorker
  <1>8. ASSUME NEW r \in Requests, TakeJob(w, r) \/ DropJob(w, r)
        PROVE  worker'[w].phase # "start"
    <2>1. CASE TakeJob(w, r)
      BY <2>1 DEF TakeJob, IdleWorker
    <2>2. CASE DropJob(w, r)
      BY <2>2 DEF DropJob
    <2> QED
      BY <1>8, <2>1, <2>2
  <1> QED
    BY <1>1, <1>3, <1>4, <1>5, <1>6, <1>7, <1>8, Zenon DEF WorkerStep, FaultStep

\* What is true after a late start stays true.
LEMMA LateInvStep ==
    ASSUME TypeInv, LockInv, LateInv, [Next]_vars
    PROVE  LateInv'
  <1> USE DEF TypeInv, TypeOK
  <1>1. \A x \in Requests : req[x].status = "cancelled" => req'[x].status = "cancelled"
    BY Rows DEF RowStep
  <1>2. ASSUME UNCHANGED <<worker, late>>
        PROVE  LateInv'
    BY <1>1, <1>2 DEF LateInv
  <1>3. ASSUME NEW w \in Workers, WorkerStep(w) \/ FaultStep(w)
        PROVE  LateInv'
    <2> SUFFICES ASSUME NEW x \in Requests, late'[x] # 0
                 PROVE  /\ late'[x] = 1 /\ req'[x].status = "cancelled"
                        /\ \A v \in Workers : worker'[v].phase = "start" => worker'[v].req # x
      BY DEF LateInv
    <2>1. \A v \in Workers \ {w} : worker'[v] = worker[v]
      BY <1>3, WorkerFrame
    <2>2. CASE late[x] # 0
      <3>1. /\ late[x] = 1 /\ req[x].status = "cancelled"
            /\ \A v \in Workers : worker[v].phase = "start" => worker[v].req # x
        BY <2>2 DEF LateInv
      <3>2. late'[x] = late[x]
        BY <1>3, <3>1, StartFrame DEF StartStatement
      <3>3. worker'[w].phase = "start" => worker'[w].req # x
        BY <1>3, <3>1, StartFrame
      <3> QED
        BY <1>1, <2>1, <3>1, <3>2, <3>3
    <2>3. CASE late[x] = 0
      <3>1. StartStatement(w)
        BY <1>3, <2>3, StartFrame
      <3>2. /\ worker[w].phase = "start" /\ worker[w].req = x /\ req[x].status = "cancelled"
            /\ late'[x] = 1
        BY <2>3, <3>1 DEF StartStatement
      <3>3. worker'[w].phase # "start"
        BY <3>1 DEF StartStatement, Goto
      <3>4. \A v \in Workers \ {w} : worker[v].phase = "start" => worker[v].req # x
        BY <3>2 DEF LockInv, Holding, Phases
      <3> QED
        BY <1>1, <2>1, <3>2, <3>3, <3>4
    <2> QED
      BY <2>2, <2>3
  <1>4. CASE ChangePolicy \/ UNCHANGED vars
    BY <1>2, <1>4 DEF ChangePolicy, jobVars, runVars, vars
  <1>5. ASSUME NEW r \in Requests, UserStep(r) \/ ReviewStep(r) \/ SystemStep(r) \/ TimePasses(r)
        PROVE  LateInv'
    BY <1>2, <1>5, RequestFrame, LateFrame
  <1> QED
    BY <1>3, <1>4, <1>5 DEF Next

\* A cancelled batch starts at most one more statement, whatever its length and
\* however many jobs and workers there are.
THEOREM CancellationStops == Spec => []CancellationStopsBatch
  <1> DEFINE Inv == TypeInv /\ LockInv /\ LateInv
  <1>1. Init => Inv
    BY TypeInvInit DEF Init, LockInv, LateInv, IdleWorker, Holding
  <1>2. Inv /\ [Next]_vars => Inv'
    BY TypeInvStep, LockInvStep, LateInvStep
  <1>3. Inv => CancellationStopsBatch
    <2> SUFFICES ASSUME LateInv, NEW x \in Requests
                 PROVE  late[x] <= 1
      BY DEF CancellationStopsBatch
    <2> QED
      BY DEF LateInv
  <1> QED
    BY <1>1, <1>2, <1>3, PTL DEF Spec

-----------------------------------------------------------------------------
(* What starts once                                                        *)

\* The batch is a write as it was submitted, or does not exist yet.
Original(x) ==
    /\ req[x].revision <= 1
    /\ req[x].status = "absent" \/ req[x].queryType = "write"

\* The phases of a worker whose job is about to be claimed, ...
Unclaimed == {"loaded", "blocked", "claiming"}

\* ... and of one that may still start a statement.
Live == Unclaimed \cup {"check", "start", "executing"}

\* What a worker on its way to the next statement of x leaves behind.
Ahead(x, w) ==
    /\ req[x].dispatched /\ queue[x] = <<>>
    /\ worker[w].phase \in Unclaimed => started[x] = {}
    /\ worker[w].phase \in {"check", "start"} => \A p \in started[x] : p < worker[w].pos
    /\ worker[w].phase = "executing" => \A p \in started[x] : p <= worker[w].pos

\* An original write has one job at a time, in the queue or in the hands of a worker, and
\* none unless it is dispatched; its dispatch is only taken back by a job that has not
\* started anything, and a job starts its statements one after the other.
Once(x) ==
    /\ Len(queue[x]) <= 1
    /\ ~req[x].dispatched => queue[x] = <<>> /\ started[x] = {}
    /\ queue[x] # <<>> => started[x] = {}
    /\ \A w \in Workers : worker[w].req = x /\ worker[w].phase \in Live => Ahead(x, w)

\* A request that exists has a revision.
Numbered == \A x \in Requests : req[x].status # "absent" => req[x].revision # 0

OnceInv == Numbered /\ \A x \in Requests : Original(x) => Once(x)

\* What people and the control plane do to an original write: nothing to its executions,
\* and a new job only with its dispatch.
OnceStep(x) ==
    /\ req'[x].status # "absent" => req'[x].revision # 0
    /\ Original(x)' =>
          /\ Original(x) /\ started'[x] = started[x]
          /\ \/ queue'[x] = queue[x] /\ req'[x].dispatched = req[x].dispatched
             \/ /\ ~req[x].dispatched /\ req'[x].dispatched
                /\ queue'[x] = queue[x] \/ queue'[x] = Append(queue[x], 1)

\* The parts of a row that decide whether it is an original write, and dispatched.
Kept(x) ==
    /\ req'[x].revision = req[x].revision /\ req'[x].queryType = req[x].queryType
    /\ req'[x].dispatched = req[x].dispatched
    /\ req[x].status = "absent" <=> req'[x].status = "absent"

\* Such a step keeps those parts, creates the request, or gives it a new revision.
LEMMA OnceCases ==
    ASSUME TypeInv, Numbered, NEW x \in Requests,
           \/ Kept(x) /\ queue'[x] = queue[x] /\ started'[x] = started[x]
           \/ /\ req[x].status = "absent" /\ req'[x].revision = 1 /\ req'[x].dispatched = FALSE
              /\ queue'[x] = queue[x] /\ started'[x] = started[x]
           \/ /\ req[x].status # "absent" /\ req'[x].status # "absent"
              /\ req'[x].revision = req[x].revision + 1
    PROVE  OnceStep(x)
  <1>1. req[x].revision \in Nat /\ (req[x].status = "absent" => req[x] = AbsentRequest)
    BY BatchAssumption DEF TypeInv, TypeOK, Request, QueueInv
  <1>2. CASE Kept(x) /\ queue'[x] = queue[x] /\ started'[x] = started[x]
    BY <1>2 DEF OnceStep, Original, Kept, Numbered
  <1>3. CASE /\ req[x].status = "absent" /\ req'[x].revision = 1 /\ req'[x].dispatched = FALSE
             /\ queue'[x] = queue[x] /\ started'[x] = started[x]
    <2>1. req[x].revision = 0 /\ req[x].dispatched = FALSE
      BY <1>1, <1>3 DEF AbsentRequest
    <2>2. Original(x)
      BY <1>3, <2>1 DEF Original
    <2>3. req'[x].dispatched = req[x].dispatched
      BY <1>3, <2>1, Zenon
    <2> QED
      BY <1>3, <2>2, <2>3 DEF OnceStep
  <1>4. CASE /\ req[x].status # "absent" /\ req'[x].status # "absent"
             /\ req'[x].revision = req[x].revision + 1
    <2>1. ~(req'[x].revision <= 1)
      BY <1>1, <1>4 DEF Numbered
    <2> QED
      BY <1>1, <1>4, <2>1 DEF OnceStep, Original
  <1> QED
    BY <1>2, <1>3, <1>4

\* A step on one request that leaves the queue and the executions alone.
LEMMA OnceQuiet ==
    ASSUME TypeInv, Numbered, UNCHANGED <<queue, started>>, NEW r \in Requests,
           NEW q, req' = [req EXCEPT ![r] = q],
           \/ /\ q.revision = req[r].revision /\ q.queryType = req[r].queryType
              /\ q.dispatched = req[r].dispatched /\ req[r].status # "absent" /\ q.status # "absent"
           \/ req[r].status = "absent" /\ q.revision = 1 /\ q.dispatched = FALSE
           \/ /\ req[r].status # "absent" /\ q.status # "absent"
              /\ q.revision = req[r].revision + 1
    PROVE  \A x \in Requests : OnceStep(x)
  <1>1. req'[r] = q /\ \A x \in Requests \ {r} : req'[x] = req[x]
    BY DEF TypeInv, TypeOK
  <1>2. \A x \in Requests \ {r} : OnceStep(x)
    BY <1>1, OnceCases DEF Kept
  <1>3. OnceStep(r)
    BY <1>1, OnceCases DEF Kept
  <1> QED
    BY <1>2, <1>3

\* The transaction of a dispatch marks the request and pushes its job, or neither.
LEMMA OnceDispatch ==
    ASSUME TypeInv, Numbered, NEW r \in Requests, NEW by, req[r].status # "absent",
           DispatchTransaction(r, by)
    PROVE  \A x \in Requests : OnceStep(x)
  <1> USE DEF TypeInv, TypeOK
  <1>1. req[r] \in Request /\ UNCHANGED started /\ ~req[r].dispatched
    BY DEF DispatchTransaction, runVars
  <1>2. CASE req' = [req EXCEPT ![r] = Undispatched(@)] /\ UNCHANGED queue
    <2>1. PICK q : q = Undispatched(req[r]) /\ req' = [req EXCEPT ![r] = q]
      BY <1>2, Zenon
    <2>2. /\ q.revision = req[r].revision /\ q.queryType = req[r].queryType
          /\ q.status # "absent"
      BY <1>1, <2>1 DEF Undispatched, Request
    <2>3. q.dispatched = FALSE /\ req[r].dispatched = FALSE
      BY <1>1, <2>1 DEF Undispatched, Request
    <2>4. q.dispatched = req[r].dispatched
      BY <2>3, Zenon
    <2> QED
      BY <1>1, <1>2, <2>1, <2>2, <2>4, OnceQuiet
  <1>3. CASE req' = [req EXCEPT ![r] = ReturnedToReview(@)] /\ UNCHANGED queue
    <2>1. PICK q : q = ReturnedToReview(req[r]) /\ req' = [req EXCEPT ![r] = q]
      BY <1>3, Zenon
    <2>2. q.revision = req[r].revision + 1 /\ q.status # "absent"
      BY <1>1, <2>1 DEF ReturnedToReview, Request
    <2> QED
      BY <1>1, <1>3, <2>1, <2>2, OnceQuiet
  <1>4. CASE /\ req' = [req EXCEPT ![r] = [@ EXCEPT !.status = "approved",
                                   !.dispatched = TRUE, !.dispatchedBy = by]]
             /\ Enqueue(r, 1)
    <2>1. PICK q : /\ q = [req[r] EXCEPT !.status = "approved", !.dispatched = TRUE,
                                         !.dispatchedBy = by]
                   /\ req' = [req EXCEPT ![r] = q]
      BY <1>4, Zenon
    <2>2. /\ q.revision = req[r].revision /\ q.queryType = req[r].queryType
          /\ q.status = "approved" /\ q.dispatched = TRUE
      BY <1>1, <2>1 DEF Request
    <2>3. /\ req'[r] = q /\ \A x \in Requests \ {r} : req'[x] = req[x]
      BY <2>1
    <2>4. /\ queue'[r] = queue[r] \/ queue'[r] = Append(queue[r], 1)
          /\ \A x \in Requests \ {r} : queue'[x] = queue[x]
      BY <1>4 DEF Enqueue
    <2>5. \A x \in Requests \ {r} : OnceStep(x)
      BY <1>1, <2>3, <2>4, OnceCases DEF Kept
    <2>6. Original(r)' => Original(r)
      BY <2>2, <2>3 DEF Original
    <2>7. OnceStep(r)
      BY <1>1, <2>2, <2>3, <2>4, <2>6 DEF OnceStep, Numbered
    <2> QED
      BY <2>5, <2>7
  <1> QED
    BY <1>2, <1>3, <1>4, Zenon DEF DispatchTransaction

\* What people and the control plane do to original writes.
LEMMA OnceRequest ==
    ASSUME TypeInv, Numbered, NEW r \in Requests,
           UserStep(r) \/ ReviewStep(r) \/ SystemStep(r) \/ TimePasses(r)
    PROVE  \A x \in Requests : OnceStep(x)
  <1> USE DEF TypeInv, TypeOK
  <1>t. req[r] \in Request
    OBVIOUS
  <1>0. ASSUME UNCHANGED <<req, queue, started>>
        PROVE  \A x \in Requests : OnceStep(x)
    BY <1>0, OnceCases DEF Kept
  <1>1. ASSUME NEW u \in Users, NEW s \in Statements, NEW sched \in Schedules,
               Create(r, u, s, sched)
        PROVE  \A x \in Requests : OnceStep(x)
    <2>1. PICK st, t, a : req' = [req EXCEPT ![r] = [AbsentRequest EXCEPT
              !.status = st, !.requester = u, !.revision = 1, !.stamp = 1, !.stmts = s,
              !.queryType = t, !.sched = sched, !.approvedBy = a]]
      BY <1>1, Zenon DEF Create
    <2>2. PICK q : /\ q = [AbsentRequest EXCEPT
                        !.status = st, !.requester = u, !.revision = 1, !.stamp = 1, !.stmts = s,
                        !.queryType = t, !.sched = sched, !.approvedBy = a]
                   /\ req' = [req EXCEPT ![r] = q]
      BY <2>1, Zenon
    <2>3. q.revision = 1 /\ q.dispatched = FALSE
      BY <2>2 DEF AbsentRequest
    <2>4. UNCHANGED <<queue, started>> /\ req[r].status = "absent"
      BY <1>1, Zenon DEF Create, jobVars, runVars
    <2> QED
      BY <2>2, <2>3, <2>4, OnceQuiet
  <1>2. ASSUME NEW u \in Users, NEW n \in Positions, NEW sched \in Schedules,
               CreateDraft(r, u, n, sched)
        PROVE  \A x \in Requests : OnceStep(x)
    <2>1. PICK s : s = [i \in 1 .. n |-> "write"]
      OBVIOUS
    <2>2. PICK q : /\ q = [AbsentRequest EXCEPT !.status = "draft", !.requester = u,
                        !.revision = 1, !.stamp = 1, !.stmts = s, !.sched = sched]
                   /\ req' = [req EXCEPT ![r] = q]
      BY <1>2, <2>1, Zenon DEF CreateDraft
    <2>3. q.revision = 1 /\ q.dispatched = FALSE
      BY <2>2 DEF AbsentRequest
    <2>4. UNCHANGED <<queue, started>> /\ req[r].status = "absent"
      BY <1>2, Zenon DEF CreateDraft, jobVars, runVars
    <2> QED
      BY <2>2, <2>3, <2>4, OnceQuiet
  <1>3. ASSUME NEW u \in Users, NEW n \in Positions, NEW sched \in Schedules,
               UpdateDraft(r, u, n, sched)
        PROVE  \A x \in Requests : OnceStep(x)
    <2>1. /\ UNCHANGED queue /\ req[r].status # "absent"
          /\ \A x \in Requests \ {r} : req'[x] = req[x] /\ started'[x] = started[x]
      BY <1>3 DEF UpdateDraft, jobVars
    <2>2. req'[r].revision = req[r].revision + 1 /\ req'[r].status # "absent"
      BY <1>3, <1>t DEF UpdateDraft, Request
    <2>3. OnceStep(r)
      BY <2>1, <2>2, OnceCases
    <2>4. \A x \in Requests \ {r} : OnceStep(x)
      BY <2>1, OnceCases DEF Kept
    <2> QED
      BY <2>3, <2>4
  <1>4. ASSUME NEW u \in Users, Withdraw(r, u)
        PROVE  \A x \in Requests : OnceStep(x)
    <2>1. PICK q : /\ q = [req[r] EXCEPT !.status = "draft", !.approvedBy = None,
                        !.dispatched = FALSE, !.dispatchedBy = None,
                        !.revision = req[r].revision + 1]
                   /\ req' = [req EXCEPT ![r] = q]
      BY <1>4, Zenon DEF Withdraw
    <2>2. q.revision = req[r].revision + 1 /\ q.status # "absent" /\ req[r].status # "absent"
      BY <1>4, <1>t, <2>1 DEF Withdraw, Request
    <2>3. UNCHANGED <<queue, started>>
      BY <1>4, Zenon DEF Withdraw, jobVars, runVars
    <2> QED
      BY <2>1, <2>2, <2>3, OnceQuiet
  <1>5. ASSUME NEW u \in Users, Dispatch(r, u)
        PROVE  \A x \in Requests : OnceStep(x)
    <2>1. req[r].status # "absent" /\ DispatchTransaction(r, u)
      BY <1>5 DEF Dispatch
    <2> QED
      BY <2>1, OnceDispatch
  <1>6. ASSUME NEW st \in Status \ {"absent"}, req[r].status # "absent",
               req' = [req EXCEPT ![r].status = st], UNCHANGED <<queue, started>>
        PROVE  \A x \in Requests : OnceStep(x)
    <2>1. PICK q : q = [req[r] EXCEPT !.status = st] /\ req' = [req EXCEPT ![r] = q]
      BY <1>6, Zenon
    <2>2. /\ q.revision = req[r].revision /\ q.queryType = req[r].queryType
          /\ q.dispatched = req[r].dispatched /\ q.status # "absent"
      BY <1>6, <1>t, <2>1 DEF Request
    <2> QED
      BY <1>6, <2>1, <2>2, OnceQuiet
  <1>7. ASSUME NEW u \in Users, Cancel(r, u)
        PROVE  \A x \in Requests : OnceStep(x)
    BY <1>6, <1>7 DEF Cancel, Status, jobVars, runVars
  <1>8. ASSUME NEW u \in Users, RetryInPlace(r, u)
        PROVE  \A x \in Requests : OnceStep(x)
    <2>1. /\ req'[r].queryType = "read" /\ req'[r].status = "approved"
          /\ req'[r].revision = req[r].revision /\ req[r].status = "failed"
          /\ \A x \in Requests \ {r} : req'[x] = req[x]
      BY <1>8, <1>t DEF RetryInPlace, CanRetry, Request
    <2>2. UNCHANGED started /\ \A x \in Requests \ {r} : queue'[x] = queue[x]
      BY <1>8 DEF RetryInPlace, Enqueue, runVars
    <2>3. OnceStep(r)
      BY <2>1 DEF OnceStep, Original, Numbered
    <2>4. \A x \in Requests \ {r} : OnceStep(x)
      BY <2>1, <2>2, OnceCases DEF Kept
    <2> QED
      BY <2>3, <2>4
  <1>9. ASSUME NEW u \in Users, NEW new \in Requests, RetryLinked(r, u, new)
        PROVE  \A x \in Requests : OnceStep(x)
    <2>1. PICK st, owner, s, t, a : req' = [req EXCEPT ![new] = [AbsentRequest EXCEPT
              !.status = st, !.requester = owner, !.revision = 1, !.stamp = 1, !.stmts = s,
              !.queryType = t, !.approvedBy = a]]
      <3> DEFINE o == req[r].requester
                 rest == SubSeq(req[r].stmts, RetryFrom(r), Len(req[r].stmts))
                 needed == RequiresApproval(o, rest)
      <3>1. req' = [req EXCEPT ![new] = [AbsentRequest EXCEPT
                !.status = IF needed THEN "pending_review" ELSE "approved", !.requester = o,
                !.revision = 1, !.stamp = 1, !.stmts = rest, !.queryType = req[r].queryType,
                !.approvedBy = IF needed THEN None ELSE o]]
        BY <1>9, Zenon DEF RetryLinked
      <3> HIDE DEF o, rest, needed
      <3> QED
        BY <3>1, Zenon
    <2>2. PICK q : /\ q = [AbsentRequest EXCEPT
                        !.status = st, !.requester = owner, !.revision = 1, !.stamp = 1, !.stmts = s,
                        !.queryType = t, !.approvedBy = a]
                   /\ req' = [req EXCEPT ![new] = q]
      BY <2>1, Zenon
    <2>3. q.revision = 1 /\ q.dispatched = FALSE
      BY <2>2 DEF AbsentRequest
    <2>4. UNCHANGED <<queue, started>> /\ req[new].status = "absent"
      BY <1>9, Zenon DEF RetryLinked, jobVars, runVars
    <2> QED
      BY <2>2, <2>3, <2>4, OnceQuiet
  <1>10. ASSUME NEW u \in Users, ResolveFailure(r, u)
         PROVE  \A x \in Requests : OnceStep(x)
    <2>1. PICK q : q = [req[r] EXCEPT !.resolved = TRUE] /\ req' = [req EXCEPT ![r] = q]
      BY <1>10, Zenon DEF ResolveFailure
    <2>2. /\ q.revision = req[r].revision /\ q.queryType = req[r].queryType
          /\ q.dispatched = req[r].dispatched /\ q.status # "absent" /\ req[r].status # "absent"
      BY <1>10, <1>t, <2>1 DEF Request, ResolveFailure
    <2>3. UNCHANGED <<queue, started>>
      BY <1>10, Zenon DEF ResolveFailure, jobVars, runVars
    <2> QED
      BY <2>1, <2>2, <2>3, OnceQuiet
  <1>11. ASSUME NEW u \in Users, NEW s \in Statements, NEW sched \in Schedules,
                BeginUpdate(r, u, s, sched)
         PROVE  \A x \in Requests : OnceStep(x)
    BY <1>0, <1>11 DEF BeginUpdate, jobVars, runVars
  <1>12. CASE UserStep(r)
    BY <1>12, <1>1, <1>2, <1>3, <1>4, <1>5, <1>7, <1>8, <1>9, <1>10, <1>11, Zenon DEF UserStep
  <1>13. ASSUME NEW u \in Reviewers, Approve(u, r)
         PROVE  \A x \in Requests : OnceStep(x)
    <2>1. PICK st : st = ReadyStatus(req[r].sched)
      OBVIOUS
    <2>2. PICK q : /\ q = [req[r] EXCEPT !.status = st, !.approvedBy = u]
                   /\ req' = [req EXCEPT ![r] = q]
      BY <1>13, <2>1, Zenon DEF Approve
    <2>3. /\ q.revision = req[r].revision /\ q.queryType = req[r].queryType
          /\ q.dispatched = req[r].dispatched /\ q.status # "absent"
      BY <1>t, <2>1, <2>2 DEF Request, ReadyStatus
    <2>4. UNCHANGED <<queue, started>> /\ req[r].status # "absent"
      BY <1>13 DEF Approve, CanDecide, jobVars, runVars
    <2> QED
      BY <2>2, <2>3, <2>4, OnceQuiet
  <1>14. ASSUME NEW u \in Reviewers, Reject(u, r)
         PROVE  \A x \in Requests : OnceStep(x)
    BY <1>6, <1>14 DEF Reject, CanDecide, Status, jobVars, runVars
  <1>15. ASSUME NEW u \in Reviewers, OpenForReview(u, r)
         PROVE  \A x \in Requests : OnceStep(x)
    BY <1>0, <1>15 DEF OpenForReview, jobVars, runVars
  <1>16. CASE ReviewStep(r)
    BY <1>16, <1>13, <1>14, <1>15, Zenon DEF ReviewStep
  <1>17. CASE CommitUpdate(r)
    <2>1. /\ UNCHANGED queue /\ req[r].status # "absent"
          /\ \A x \in Requests \ {r} : req'[x] = req[x] /\ started'[x] = started[x]
      BY <1>17 DEF CommitUpdate, IsEditable, jobVars
    <2>2. req'[r].revision = req[r].revision + 1 /\ req'[r].status # "absent"
      BY <1>17, <1>t DEF CommitUpdate, Request, ReadyStatus
    <2>3. OnceStep(r)
      BY <2>1, <2>2, OnceCases
    <2>4. \A x \in Requests \ {r} : OnceStep(x)
      BY <2>1, OnceCases DEF Kept
    <2> QED
      BY <2>3, <2>4
  <1>18. CASE AbortUpdate(r)
    BY <1>0, <1>18 DEF AbortUpdate, jobVars, runVars
  <1>19. CASE DispatchDue(r)
    <2>1. req[r].status # "absent" /\ DispatchTransaction(r, None)
      BY <1>19 DEF DispatchDue
    <2> QED
      BY <2>1, OnceDispatch
  <1>20. CASE ExpireLock(r)
    BY <1>0, <1>20 DEF ExpireLock, requestVars, runVars
  <1>21. CASE Redeliver(r)
    <2>1. UNCHANGED <<queue, started>> /\ req[r].status # "absent"
      BY <1>21 DEF Redeliver, runVars, QueueInv
    <2>2. CASE UNCHANGED req
      BY <1>0, <2>1, <2>2
    <2>3. CASE req' = [req EXCEPT ![r].status = "failed"]
      BY <1>6, <2>1, <2>3 DEF Status
    <2> QED
      BY <1>21, <2>2, <2>3, Zenon DEF Redeliver, AfterFailedHook
  <1>22. CASE SystemStep(r)
    BY <1>22, <1>17, <1>18, <1>19, <1>20, <1>21, Zenon DEF SystemStep
  <1>23. CASE TimePasses(r)
    <2>1. UNCHANGED <<queue, started>>
      BY <1>23, Zenon DEF TimePasses, jobVars, runVars
    <2>2. CASE UNCHANGED req
      BY <1>0, <2>1, <2>2
    <2>3. CASE req[r].sched = "future" /\ req' = [req EXCEPT ![r].sched = "past"]
      <3>1. PICK q : q = [req[r] EXCEPT !.sched = "past"] /\ req' = [req EXCEPT ![r] = q]
        BY <2>3, Zenon
      <3>2. req[r].status # "absent"
        BY <2>3 DEF AbsentRequest, QueueInv
      <3>3. /\ q.revision = req[r].revision /\ q.queryType = req[r].queryType
            /\ q.dispatched = req[r].dispatched /\ q.status # "absent"
        BY <1>t, <3>1, <3>2 DEF Request
      <3> QED
        BY <2>1, <3>1, <3>2, <3>3, OnceQuiet
    <2> QED
      BY <1>23, <2>2, <2>3, Zenon DEF TimePasses
  <1> QED
    BY <1>12, <1>16, <1>22, <1>23

\* A worker takes a dispatch back only with a job it has not claimed and then closes.
LEMMA OnceRow ==
    ASSUME TypeInv, Numbered, NEW w \in Workers, WorkerStep(w) \/ FaultStep(w),
           NEW x \in Requests, Original(x)'
    PROVE  /\ Original(x)
           /\ \/ req'[x].dispatched = req[x].dispatched
              \/ /\ worker[w].req = x /\ worker[w].phase \in {"blocked", "claiming"}
                 /\ worker'[w].phase = "closing" /\ UNCHANGED <<queue, started>>
  <1> USE DEF TypeInv, TypeOK
  <1>1. ASSUME UNCHANGED req
        PROVE  Original(x) /\ req'[x].dispatched = req[x].dispatched
    BY <1>1 DEF Original
  <1>2. ASSUME NEW r \in Requests, req[r].status # "absent", NEW st,
               req' = [req EXCEPT ![r].status = st]
        PROVE  Original(x) /\ req'[x].dispatched = req[x].dispatched
    <2>1. req[r] \in Request
      OBVIOUS
    <2>2. /\ req'[x].revision = req[x].revision /\ req'[x].queryType = req[x].queryType
          /\ req'[x].dispatched = req[x].dispatched
      BY <1>2, <2>1 DEF Request
    <2>3. x # r => req'[x] = req[x]
      BY <1>2
    <2>4. x = r => req[x].status # "absent" /\ (req'[x].status # "absent" => Original(x))
      BY <1>2, <2>2 DEF Original
    <2>5. req'[x].status # "absent" \/ x # r
      BY <1>2, Rows DEF RowStep, Next
    <2> QED
      BY <2>2, <2>3, <2>4, <2>5 DEF Original
  <1>3. worker[w].phase # "idle" => worker[w].req \in Requests /\ req[worker[w].req].status # "absent"
    BY DEF WorkerInv
  <1>4. ASSUME worker[w].phase \in {"blocked", "claiming"}, UNCHANGED <<queue, started>>,
               Goto(w, "closing"), req' = [req EXCEPT ![worker[w].req] = Undispatched(@)]
        PROVE  /\ Original(x)
               /\ \/ req'[x].dispatched = req[x].dispatched
                  \/ /\ worker[w].req = x /\ worker[w].phase \in {"blocked", "claiming"}
                     /\ worker'[w].phase = "closing" /\ UNCHANGED <<queue, started>>
    <2>1. CASE x # worker[w].req
      <3>1. req'[x] = req[x]
        BY <1>3, <1>4, <2>1
      <3> QED
        BY <3>1 DEF Original
    <2>2. CASE x = worker[w].req
      <3>1. req[x] \in Request /\ req[x].status # "absent" /\ req'[x] = Undispatched(req[x])
        BY <1>3, <1>4, <2>2
      <3>2. /\ req'[x].revision = req[x].revision /\ req'[x].queryType = req[x].queryType
            /\ req'[x].status # "absent"
        BY <3>1 DEF Undispatched, Request
      <3>3. worker'[w].phase = "closing"
        BY <1>4 DEF Goto, Worker
      <3> QED
        BY <1>4, <2>2, <3>2, <3>3 DEF Original
    <2> QED
      BY <2>1, <2>2
  <1>5. ASSUME worker[w].phase # "idle", req' = [req EXCEPT ![worker[w].req] = ReturnedToReview(@)]
        PROVE  Original(x) /\ req'[x].dispatched = req[x].dispatched
    <2>1. CASE x # worker[w].req
      <3>1. req'[x] = req[x]
        BY <1>3, <1>5, <2>1
      <3> QED
        BY <3>1 DEF Original
    <2>2. CASE x = worker[w].req
      <3>1. req[x] \in Request /\ req[x].status # "absent" /\ req'[x] = ReturnedToReview(req[x])
        BY <1>3, <1>5, <2>2
      <3>2. req'[x].revision = req[x].revision + 1
        BY <3>1 DEF ReturnedToReview, Request
      <3>3. req[x].revision \in 0 .. MaxRevision /\ MaxRevision \in Nat
        BY <3>1, BatchAssumption DEF Request
      <3>4. req[x].revision # 0
        BY <3>1 DEF Numbered
      <3> QED
        BY <3>2, <3>3, <3>4 DEF Original
    <2> QED
      BY <2>1, <2>2
  <1>6. CASE \/ \E r \in Requests : TakeJob(w, r) \/ DropJob(w, r)
             \/ Load(w) \/ CheckCancelled(w) \/ StartStatement(w) \/ StatementSucceeds(w)
             \/ StatementFails(w) \/ Close(w) \/ Throw(w) \/ Crash(w)
    <2>1. UNCHANGED req
      BY <1>6, Zenon DEF TakeJob, DropJob, Load, CheckCancelled, StartStatement,
         StatementSucceeds, StatementFails, Close, Throw, Crash, requestVars
    <2> QED
      BY <1>1, <2>1
  <1>7. CASE ReturnBlocked(w)
    <2>1. /\ worker[w].phase = "blocked" /\ UNCHANGED <<queue, started>> /\ Goto(w, "closing")
          /\ UNCHANGED req \/ req' = [req EXCEPT ![worker[w].req] = Undispatched(@)]
      BY <1>7, Zenon DEF ReturnBlocked, runVars
    <2> QED
      BY <1>1, <1>4, <2>1
  <1>8. CASE Claim(w)
    <2>1. worker[w].phase = "claiming" /\ UNCHANGED <<queue, started>>
      BY <1>8, Zenon DEF Claim, runVars
    <2>2. \/ UNCHANGED req
          \/ Goto(w, "closing") /\ req' = [req EXCEPT ![worker[w].req] = Undispatched(@)]
          \/ req' = [req EXCEPT ![worker[w].req] = ReturnedToReview(@)]
          \/ req' = [req EXCEPT ![worker[w].req].status = "running"]
      BY <1>8, Zenon DEF Claim
    <2> QED
      BY <1>1, <1>2, <1>3, <1>4, <1>5, <2>1, <2>2
  <1>9. CASE RecordFailure(w) \/ RecordCompletion(w) \/ FailedHook(w) \/ Timeout(w)
    <2>1. worker[w].phase # "idle"
      BY <1>9 DEF RecordFailure, RecordCompletion, FailedHook, Timeout, Holding
    <2>2. UNCHANGED req \/ \E st : req' = [req EXCEPT ![worker[w].req].status = st]
      BY <1>9, Zenon DEF RecordFailure, RecordCompletion, FailedHook, Timeout, AfterFailedHook
    <2> QED
      BY <1>1, <1>2, <1>3, <2>1, <2>2
  <1> QED
    BY <1>6, <1>7, <1>8, <1>9, Zenon DEF WorkerStep, FaultStep

\* A worker takes a job, drops it, starts a statement, or moves on towards the next one.
LEMMA OnceWorker ==
    ASSUME TypeInv, NEW w \in Workers, WorkerStep(w) \/ FaultStep(w)
    PROVE  \/ \E r \in Requests : TakeJob(w, r) \/ DropJob(w, r)
           \/ StartStatement(w)
           \/ /\ UNCHANGED <<queue, started>>
              /\ worker'[w].phase \in Live =>
                    /\ worker[w].phase \in Live /\ worker'[w].req = worker[w].req
                    /\ \/ worker[w].phase \in Unclaimed /\ worker'[w].phase \in Unclaimed
                       \/ worker[w].phase \in Unclaimed /\ worker'[w].phase = "check"
                       \/ /\ worker[w].phase = "check" /\ worker'[w].phase = "start"
                          /\ worker'[w].pos = worker[w].pos
                       \/ /\ worker[w].phase = "executing" /\ worker'[w].phase = "check"
                          /\ worker'[w].pos = worker[w].pos + 1
  <1> USE DEF TypeInv, TypeOK
  <1>1. ASSUME NEW ph, Goto(w, ph)
        PROVE  /\ worker'[w].phase = ph /\ worker'[w].req = worker[w].req
               /\ worker'[w].pos = worker[w].pos
    BY <1>1 DEF Goto, Worker
  <1>2. CASE Load(w)
    <2>1. PICK ph \in {"closing", "blocked", "claiming"} : Goto(w, ph)
      BY <1>2 DEF Load
    <2>2. worker[w].phase = "loaded" /\ UNCHANGED <<queue, started>>
      BY <1>2, Zenon DEF Load, runVars
    <2> QED
      BY <1>1, <2>1, <2>2 DEF Live, Unclaimed
  <1>3. CASE CheckCancelled(w)
    <2>1. PICK ph \in {"closing", "start"} : Goto(w, ph)
      BY <1>3 DEF CheckCancelled
    <2>2. worker[w].phase = "check" /\ UNCHANGED <<queue, started>>
      BY <1>3, Zenon DEF CheckCancelled, runVars
    <2> QED
      BY <1>1, <2>1, <2>2 DEF Live, Unclaimed
  <1>4. CASE ReturnBlocked(w) \/ StatementFails(w) \/ RecordFailure(w) \/ RecordCompletion(w)
             \/ Throw(w)
    <2>1. PICK ph \in {"closing", "failure", "throwing", "failing"} : Goto(w, ph)
      BY <1>4 DEF ReturnBlocked, StatementFails, RecordFailure, RecordCompletion, Throw
    <2>2. UNCHANGED <<queue, started>>
      BY <1>4, Zenon DEF ReturnBlocked, StatementFails, RecordFailure, RecordCompletion, Throw,
         runVars
    <2> QED
      BY <1>1, <2>1, <2>2 DEF Live, Unclaimed
  <1>5. CASE Claim(w)
    <2>1. worker[w].phase = "claiming" /\ UNCHANGED <<queue, started>>
      BY <1>5, Zenon DEF Claim, runVars
    <2>2. CASE Goto(w, "closing")
      BY <1>1, <2>1, <2>2 DEF Live, Unclaimed
    <2>3. CASE worker' = [worker EXCEPT ![w] = ClaimedRun(w)]
      <3>1. worker'[w].phase = "check" /\ worker'[w].req = worker[w].req
        BY <2>3 DEF ClaimedRun, Worker
      <3> QED
        BY <2>1, <3>1 DEF Live, Unclaimed
    <2> QED
      BY <1>5, <2>2, <2>3, Zenon DEF Claim
  <1>6. CASE StatementSucceeds(w)
    <2>1. worker'[w] = [worker[w] EXCEPT
              !.phase = IF worker[w].pos = worker[w].last THEN "finish" ELSE "check",
              !.pos = worker[w].pos + 1]
      BY <1>6 DEF StatementSucceeds
    <2>2. /\ worker'[w].phase \in {"finish", "check"} /\ worker'[w].req = worker[w].req
          /\ worker'[w].pos = worker[w].pos + 1
      BY <2>1 DEF Worker
    <2>3. worker[w].phase = "executing" /\ UNCHANGED <<queue, started>>
      BY <1>6, Zenon DEF StatementSucceeds
    <2> QED
      BY <2>2, <2>3 DEF Live, Unclaimed
  <1>7. CASE Close(w) \/ FailedHook(w) \/ Timeout(w) \/ Crash(w)
    <2>1. UNCHANGED <<queue, started>>
      BY <1>7, Zenon DEF Close, FailedHook, Timeout, Crash, runVars
    <2>2. worker'[w].phase = "idle"
      BY <1>7 DEF Close, FailedHook, Timeout, Crash, IdleWorker
    <2> QED
      BY <2>1, <2>2 DEF Live, Unclaimed
  <1> QED
    BY <1>2, <1>3, <1>4, <1>5, <1>6, <1>7, Zenon DEF WorkerStep, FaultStep

\* Workers neither create requests nor take their revisions away.
LEMMA NumberedWorker ==
    ASSUME TypeInv, Numbered, NEW w \in Workers, WorkerStep(w) \/ FaultStep(w)
    PROVE  Numbered'
  <1> USE DEF TypeInv, TypeOK
  <1> SUFFICES ASSUME NEW x \in Requests, req'[x].status # "absent"
               PROVE  req'[x].revision # 0
    BY DEF Numbered
  <1>1. CASE req[x].status # "absent"
    <2>1. req[x].revision <= req'[x].revision /\ req[x].revision \in Nat
      BY Rows, BatchAssumption DEF RowStep, Request, Next
    <2>2. req'[x].revision \in Nat
      BY WorkerStepType, BatchAssumption DEF Request
    <2> QED
      BY <1>1, <2>1, <2>2 DEF Numbered
  <1>2. CASE req[x].status = "absent"
    <2>1. \/ UNCHANGED req
          \/ /\ worker[w].phase # "idle"
             /\ \/ \E q : req' = [req EXCEPT ![worker[w].req] = q]
                \/ \E st : req' = [req EXCEPT ![worker[w].req].status = st]
      BY Zenon DEF WorkerStep, FaultStep, TakeJob, DropJob, Load, ReturnBlocked, Claim,
         CheckCancelled, StartStatement, StatementSucceeds, StatementFails, RecordFailure,
         RecordCompletion, Close, Throw, FailedHook, Timeout, Crash, AfterFailedHook,
         Holding, requestVars
    <2>2. worker[w].phase # "idle" => worker[w].req # x
      BY <1>2 DEF WorkerInv
    <2>3. req'[x] = req[x]
      BY <2>1, <2>2
    <2> QED
      BY <1>2, <2>3
  <1> QED
    BY <1>1, <1>2

\* An original write has at most one job under way, and that starts each statement once.
LEMMA OnceInvStep ==
    ASSUME TypeInv, TypeInv', LockInv, OnceInv, [Next]_vars
    PROVE  OnceInv'
  <1> USE DEF TypeInv, TypeOK
  <1>0. Numbered
    BY DEF OnceInv
  <1>1. ASSUME UNCHANGED worker, \A x \in Requests : OnceStep(x)
        PROVE  OnceInv'
    <2> SUFFICES ASSUME NEW x \in Requests, Original(x)'
                 PROVE  Once(x)'
      BY <1>1 DEF OnceInv, OnceStep, Numbered
    <2>1. /\ Once(x) /\ started'[x] = started[x]
          /\ \/ queue'[x] = queue[x] /\ req'[x].dispatched = req[x].dispatched
             \/ /\ ~req[x].dispatched /\ req'[x].dispatched
                /\ queue'[x] = queue[x] \/ queue'[x] = Append(queue[x], 1)
      BY <1>1 DEF OnceStep, OnceInv
    <2>2. CASE queue'[x] = queue[x] /\ req'[x].dispatched = req[x].dispatched
      BY <1>1, <2>1, <2>2 DEF Once, Ahead
    <2>3. CASE /\ ~req[x].dispatched /\ req'[x].dispatched
               /\ queue'[x] = queue[x] \/ queue'[x] = Append(queue[x], 1)
      <3>1. /\ queue[x] = <<>> /\ started[x] = {}
            /\ \A w \in Workers : ~(worker[w].req = x /\ worker[w].phase \in Live)
        BY <2>1, <2>3 DEF Once, Ahead
      <3>2. Len(queue'[x]) <= 1
        <4>1. Len(queue[x]) = 0 /\ queue[x] \in Seq(Positions)
          BY <3>1
        <4>2. Len(Append(queue[x], 1)) = 1
          <5> HIDE DEF TypeInv, TypeOK
          <5> QED
            BY <4>1
        <4>3. Len(queue'[x]) = 0 \/ Len(queue'[x]) = 1
          BY <2>3, <4>1, <4>2, Zenon
        <4>4. PICK n : n = Len(queue'[x])
          OBVIOUS
        <4>5. n = 0 \/ n = 1
          BY <4>3, <4>4, Zenon
        <4>6. n <= 1
          BY <4>5
        <4> QED
          BY <4>4, <4>6, Zenon
      <3> QED
        BY <1>1, <2>1, <2>3, <3>1, <3>2 DEF Once
    <2> QED
      BY <2>1, <2>2, <2>3
  <1>2. ASSUME NEW r \in Requests, UserStep(r) \/ ReviewStep(r) \/ SystemStep(r) \/ TimePasses(r)
        PROVE  OnceInv'
    BY <1>0, <1>1, <1>2, RequestFrame, OnceRequest
  <1>3. CASE ChangePolicy \/ UNCHANGED vars
    <2>1. UNCHANGED <<req, queue, started, worker>>
      BY <1>3 DEF ChangePolicy, vars, requestVars, jobVars, runVars
    <2>2. \A x \in Requests : OnceStep(x)
      BY <1>0, <2>1 DEF OnceStep, Original, Numbered
    <2> QED
      BY <1>1, <2>1, <2>2
  <1>4. ASSUME NEW w \in Workers, WorkerStep(w) \/ FaultStep(w)
        PROVE  OnceInv'
    <2> SUFFICES ASSUME NEW x \in Requests, Original(x)'
                 PROVE  Once(x)'
      BY <1>0, <1>4, NumberedWorker DEF OnceInv
    <2>1. /\ Original(x)
          /\ \/ req'[x].dispatched = req[x].dispatched
             \/ /\ worker[w].req = x /\ worker[w].phase \in {"blocked", "claiming"}
                /\ worker'[w].phase = "closing" /\ UNCHANGED <<queue, started>>
      BY <1>0, <1>4, OnceRow
    <2>2. Once(x)
      BY <2>1 DEF OnceInv
    <2>3. \A v \in Workers \ {w} : worker'[v] = worker[v]
      BY <1>4, WorkerFrame
    <2>4. ASSUME worker[w].req = x, worker[w].phase \in Live
          PROVE  \A v \in Workers \ {w} : ~(worker[v].req = x /\ worker[v].phase \in Live)
      BY <2>4 DEF LockInv, Live, Unclaimed, Holding, Phases
    <2>5. CASE /\ worker[w].req = x /\ worker[w].phase \in {"blocked", "claiming"}
               /\ worker'[w].phase = "closing" /\ UNCHANGED <<queue, started>>
      <3>1. worker[w].phase \in Live /\ worker[w].phase \in Unclaimed
        BY <2>5 DEF Live, Unclaimed
      <3>2. queue[x] = <<>> /\ started[x] = {}
        BY <2>2, <2>5, <3>1 DEF Once, Ahead
      <3>3. \A v \in Workers : ~(worker'[v].req = x /\ worker'[v].phase \in Live)
        BY <2>3, <2>4, <2>5, <3>1 DEF Live, Unclaimed
      <3> QED
        BY <2>5, <3>2, <3>3 DEF Once
    <2>6. CASE req'[x].dispatched = req[x].dispatched
      <3>1. ASSUME NEW r \in Requests, TakeJob(w, r)
            PROVE  Once(x)'
        <4>1. /\ queue' = [queue EXCEPT ![r] = Tail(@)] /\ queue[r] # <<>> /\ UNCHANGED started
              /\ worker'[w].req = r /\ worker'[w].phase = "loaded"
          BY <3>1 DEF TakeJob, IdleWorker, runVars
        <4>2. CASE r = x
          <5>1. /\ queue[x] # <<>> /\ Len(queue[x]) <= 1 /\ queue[x] \in Seq(Positions)
                /\ started[x] = {} /\ req[x].dispatched
            BY <2>2, <4>1, <4>2 DEF Once
          <5>2. queue'[x] = <<>>
            BY <4>1, <4>2, <5>1
          <5>3. \A v \in Workers \ {w} : ~(worker'[v].req = x /\ worker'[v].phase \in Live)
            BY <2>2, <2>3, <5>1 DEF Once, Ahead
          <5>4. Ahead(x, w)'
            BY <2>6, <4>1, <5>1, <5>2 DEF Ahead
          <5> QED
            BY <2>6, <4>1, <5>1, <5>2, <5>3, <5>4 DEF Once
        <4>3. CASE r # x
          <5>1. queue'[x] = queue[x]
            BY <4>1, <4>3
          <5> QED
            BY <2>2, <2>3, <2>6, <4>1, <4>3, <5>1 DEF Once, Ahead
        <4> QED
          BY <4>2, <4>3
      <3>2. ASSUME NEW r \in Requests, DropJob(w, r)
            PROVE  Once(x)'
        <4>1. /\ queue' = [queue EXCEPT ![r] = Tail(@)] /\ queue[r] # <<>>
              /\ UNCHANGED <<started, worker>>
          BY <3>2 DEF DropJob, runVars
        <4>2. CASE r = x
          <5>1. /\ queue[x] # <<>> /\ Len(queue[x]) <= 1 /\ queue[x] \in Seq(Positions)
                /\ started[x] = {} /\ req[x].dispatched
            BY <2>2, <4>1, <4>2 DEF Once
          <5>2. queue'[x] = <<>>
            BY <4>1, <4>2, <5>1
          <5>3. \A v \in Workers : ~(worker'[v].req = x /\ worker'[v].phase \in Live)
            BY <2>2, <4>1, <5>1 DEF Once, Ahead
          <5> QED
            BY <2>6, <4>1, <5>1, <5>2, <5>3 DEF Once
        <4>3. CASE r # x
          <5>1. queue'[x] = queue[x]
            BY <4>1, <4>3
          <5> QED
            BY <2>2, <2>6, <4>1, <5>1 DEF Once, Ahead
        <4> QED
          BY <4>2, <4>3
      <3>3. CASE StartStatement(w)
        <4>1. /\ worker[w].phase = "start" /\ worker[w].req \in Requests
              /\ worker'[w].phase = "executing" /\ worker'[w].req = worker[w].req
              /\ worker'[w].pos = worker[w].pos /\ UNCHANGED queue
              /\ started' = [started EXCEPT ![worker[w].req] = @ \cup {worker[w].pos}]
          BY <3>3 DEF StartStatement, Goto, Worker, WorkerInv
        <4>2. worker[w].phase \in Live /\ worker'[w].phase \notin Unclaimed
          BY <4>1 DEF Live, Unclaimed
        <4>3. CASE worker[w].req = x
          <5>1. Ahead(x, w)
            BY <2>2, <4>2, <4>3 DEF Once
          <5>2. \A p \in started'[x] : p <= worker'[w].pos
            <6>1. worker[w].pos \in Int /\ started[x] \subseteq Int
              BY BatchAssumption DEF Worker, Positions
            <6> QED
              BY <4>1, <4>3, <5>1, <6>1 DEF Ahead
          <5>3. Ahead(x, w)'
            BY <2>6, <4>1, <4>2, <5>1, <5>2 DEF Ahead
          <5>4. queue'[x] = <<>> /\ req'[x].dispatched
            BY <2>6, <4>1, <5>1 DEF Ahead
          <5>5. \A v \in Workers \ {w} : ~(worker'[v].req = x /\ worker'[v].phase \in Live)
            BY <2>3, <2>4, <4>2, <4>3
          <5>6. Len(queue'[x]) <= 1
            BY <5>4
          <5> QED
            BY <5>3, <5>4, <5>5, <5>6 DEF Once
        <4>4. CASE worker[w].req # x
          <5>1. started'[x] = started[x] /\ queue'[x] = queue[x]
            BY <4>1, <4>4
          <5> QED
            BY <2>2, <2>3, <2>6, <4>1, <4>4, <5>1 DEF Once, Ahead
        <4> QED
          BY <4>3, <4>4
      <3>4. CASE /\ UNCHANGED <<queue, started>>
                 /\ worker'[w].phase \in Live =>
                       /\ worker[w].phase \in Live /\ worker'[w].req = worker[w].req
                       /\ \/ worker[w].phase \in Unclaimed /\ worker'[w].phase \in Unclaimed
                          \/ worker[w].phase \in Unclaimed /\ worker'[w].phase = "check"
                          \/ /\ worker[w].phase = "check" /\ worker'[w].phase = "start"
                             /\ worker'[w].pos = worker[w].pos
                          \/ /\ worker[w].phase = "executing" /\ worker'[w].phase = "check"
                             /\ worker'[w].pos = worker[w].pos + 1
        <4>1. ASSUME worker'[w].req = x, worker'[w].phase \in Live
              PROVE  Ahead(x, w)'
          <5>1. Ahead(x, w)
            BY <2>2, <3>4, <4>1 DEF Once
          <5>2. worker[w].pos \in Int /\ started[x] \subseteq Int
            BY BatchAssumption DEF Worker, Positions
          <5> QED
            BY <2>6, <3>4, <4>1, <5>1, <5>2 DEF Ahead, Unclaimed
        <4>2. \A v \in Workers \ {w} : worker'[v].req = x /\ worker'[v].phase \in Live => Ahead(x, v)'
          BY <2>2, <2>3, <2>6, <3>4 DEF Once, Ahead
        <4> QED
          BY <2>2, <2>6, <3>4, <4>1, <4>2 DEF Once
      <3> QED
        BY <1>4, <3>1, <3>2, <3>3, <3>4, OnceWorker
    <2> QED
      BY <2>1, <2>5, <2>6
  <1> QED
    BY <1>2, <1>3, <1>4 DEF Next

\* A batch that writes, as it was submitted, never starts a statement twice: whatever is
\* lost, dropped, killed, redelivered or dispatched again, it has one job that can start
\* anything, and there is no second one once a statement has started.
THEOREM WritesAreNotRepeated == Spec => WritesStartOnce
  <1> DEFINE Inv == TypeInv /\ LockInv /\ OnceInv
  <1>1. Init => Inv
    BY TypeInvInit DEF Init, LockInv, OnceInv, Numbered, Original, Once, Ahead, AbsentRequest,
       IdleWorker, Holding, Live, Unclaimed
  <1>2. Inv /\ [Next]_vars => Inv'
    BY TypeInvStep, LockInvStep, OnceInvStep
  <1>3. Inv => \A w \in Workers :
                   /\ worker[w].phase = "start" /\ worker'[w].phase = "executing"
                   /\ req[worker[w].req].queryType = "write" /\ req[worker[w].req].revision = 1
                   => worker[w].pos \notin started[worker[w].req]
    <2> SUFFICES ASSUME Inv, NEW w \in Workers, worker[w].phase = "start",
                        req[worker[w].req].queryType = "write", req[worker[w].req].revision = 1
                 PROVE  worker[w].pos \notin started[worker[w].req]
      OBVIOUS
    <2>1. worker[w].req \in Requests /\ Original(worker[w].req)
      BY DEF TypeInv, WorkerInv, Original
    <2>2. Ahead(worker[w].req, w)
      BY <2>1 DEF OnceInv, Once, Live
    <2>3. worker[w].pos \in Int
      BY BatchAssumption DEF TypeInv, TypeOK, Worker, Positions
    <2> QED
      BY <2>2, <2>3 DEF Ahead
  <1>4. Inv /\ [Next]_vars =>
            [\A w \in Workers :
                /\ worker[w].phase = "start" /\ worker'[w].phase = "executing"
                /\ req[worker[w].req].queryType = "write" /\ req[worker[w].req].revision = 1
                => worker[w].pos \notin started[worker[w].req]]_vars
    BY <1>3
  <1> QED
    BY <1>1, <1>2, <1>4, PTL DEF Spec, WritesStartOnce
=============================================================================
