------------------------ MODULE OperationEngineProofs ------------------------
(***************************************************************************)
(* Proofs about operation engine v2, for every set of operations, targets, *)
(* nodes and workers, every plan and every number of retries and faults.   *)
(***************************************************************************)
EXTENDS OperationEngine, TLAPS, WellFoundedInduction

-----------------------------------------------------------------------------
(***************************************************************************)
(* Facts about the controller's pure functions (Reducer).                  *)
(***************************************************************************)
\* A nonempty set of naturals has a least element.
LEMMA LeastNatural ==
    ASSUME NEW T, T \subseteq Nat, T # {}
    PROVE  \E m \in T : \A k \in T : m <= k
<1> DEFINE R == OpToRel(<, Nat)
<1>1. IsWellFoundedOn(R, Nat)
  BY NatLessThanWellFounded
<1> HIDE DEF R
<1>2. PICK m \in T : \A k \in T : ~(<<k, m>> \in R)
  BY <1>1, WFMin
<1>3. \A k \in T : k < m => <<k, m>> \in R
  BY DEF R, OpToRel
<1>4. \A k \in T : ~(k < m)
  BY <1>2, <1>3
<1>5. \A k \in T : m <= k
  BY <1>4
<1> QED
  BY <1>5

\* A nonempty bounded set of naturals has a greatest element.
LEMMA GreatestNatural ==
    ASSUME NEW T, T \subseteq Nat, T # {}, NEW b \in Nat, \A k \in T : k <= b
    PROVE  \E m \in T : \A k \in T : k <= m
<1> DEFINE U == {x \in Nat : \A k \in T : k <= x}
<1>1. PICK m \in U : \A x \in U : m <= x
  <2>1. U \subseteq Nat /\ U # {}
    OBVIOUS
  <2> QED
    BY <2>1, LeastNatural
<1>2. CASE m \in T
  BY <1>1, <1>2
<1>3. CASE m \notin T
  <2>1. m # 0
    <3>1. PICK k \in T : TRUE
      OBVIOUS
    <3>2. k \in Nat /\ k <= m /\ k # m /\ m \in Nat
      BY <1>1, <1>3, <3>1
    <3> QED
      BY <3>2
  <2>2. m - 1 \in U
    BY <1>1, <1>3, <2>1
  <2> QED
    BY <1>1, <2>2
<1> QED
  BY <1>2, <1>3

-----------------------------------------------------------------------------
\* The attempt numbers in a task list have an upper bound.  (A list is finite;
\* a bound is all the controller's arithmetic needs.)
AttemptsBounded(view) == \E b \in Nat : \A t \in DOMAIN view : t.attempt <= b

\* A plan is a function from step numbers, which are naturals.
LEMMA PlanType ==
    ASSUME NEW o \in Ops
    PROVE  /\ DOMAIN Plan[o] \subseteq Nat
           /\ \A s \in DOMAIN Plan[o] : Plan[o][s] \in OperationStep
<1>1. Plan[o] \in Seq(OperationStep)
  BY PlanAssumption
<1> QED
  BY <1>1

\* currentStepFacts finds a step of the plan unless every step is complete.
LEMMA CurrentStepType ==
    ASSUME NEW o \in Ops, NEW view, ~Complete(o, view)
    PROVE  /\ CurrentStep(o, view) \in DOMAIN Plan[o]
           /\ CurrentStep(o, view) \in Nat
<1>1. IncompleteSteps(o, view) \subseteq DOMAIN Plan[o] /\ DOMAIN Plan[o] \subseteq Nat
  BY PlanType DEF IncompleteSteps
<1>2. \E s \in IncompleteSteps(o, view) : \A r \in IncompleteSteps(o, view) : s <= r
  BY <1>1, LeastNatural DEF Complete
<1>3. CurrentStep(o, view) \in IncompleteSteps(o, view)
  BY <1>2 DEF CurrentStep
<1> QED
  BY <1>1, <1>3

\* latestTask returns one of the node's attempts.
LEMMA LatestTaskType ==
    ASSUME NEW view, IsTaskMap(view), AttemptsBounded(view), NEW s, NEW n,
           NodeTasks(view, s, n) # {}
    PROVE  LatestTask(view, s, n) \in NodeTasks(view, s, n)
<1> DEFINE mine == NodeTasks(view, s, n)
           T == {t.attempt : t \in mine}
<1>1. mine \subseteq DOMAIN view /\ mine \subseteq TaskId
  BY DEF NodeTasks, StepTasks, IsTaskMap
<1>2. T \subseteq Nat /\ T # {}
  BY <1>1 DEF TaskId
<1>3. PICK b \in Nat : \A t \in DOMAIN view : t.attempt <= b
  BY DEF AttemptsBounded
<1>4. \A k \in T : k <= b
  BY <1>1, <1>3
<1>5. PICK m \in T : \A k \in T : k <= m
  <2> HIDE DEF T
  <2> QED
    BY <1>2, <1>4, GreatestNatural
<1>6. \E t \in mine : \A u \in mine : u.attempt <= t.attempt
  BY <1>5
<1> QED
  BY <1>6 DEF LatestTask

\* nextAttempt's number is a natural.
LEMMA NextAttemptType ==
    ASSUME NEW view, IsTaskMap(view), AttemptsBounded(view), NEW s, NEW n
    PROVE  NextAttempt(view, s, n) \in Nat
<1>1. CASE NodeTasks(view, s, n) = {}
  BY <1>1 DEF NextAttempt
<1>2. CASE NodeTasks(view, s, n) # {}
  <2>1. LatestTask(view, s, n) \in NodeTasks(view, s, n)
    BY <1>2, LatestTaskType
  <2>2. LatestTask(view, s, n).attempt \in Nat
    BY <2>1 DEF NodeTasks, StepTasks, IsTaskMap, TaskId
  <2> QED
    BY <1>2, <2>2 DEF NextAttempt
<1> QED
  BY <1>1, <1>2

-----------------------------------------------------------------------------
(***************************************************************************)
(* Type correctness.  The number of the next attempt is a natural because  *)
(* the numbers in the list it is computed from are bounded.                *)
(***************************************************************************)
WorkerTyped(w) == WorkerOK(w) /\ AttemptsBounded(w.view)

TypeInv ==
    /\ TypeOK
    /\ AttemptsBounded(tasks)
    /\ \A c \in Ctrls : AttemptsBounded(ctl[c].view)

\* A task map stays one, with bounded attempts, when one task is created ...
LEMMA CreateTaskTyped ==
    ASSUME StoreTypeOK, AttemptsBounded(tasks), NEW t \in TaskId,
           NEW d \in Nat \cup {NoDeadline}, CreateTask(t, d)
    PROVE  IsTaskMap(tasks') /\ AttemptsBounded(tasks')
<1>1. CASE t \in DOMAIN tasks
  BY <1>1 DEF CreateTask, StoreTypeOK
<1>2. CASE t \notin DOMAIN tasks
  <2>1. /\ tasks' = [u \in DOMAIN tasks \cup {t} |->
                        IF u = t THEN NewTask(d) ELSE tasks[u]]
        /\ DOMAIN tasks' = DOMAIN tasks \cup {t}
    BY <1>2 DEF CreateTask
  <2>2. NewTask(d) \in OperationTask
    BY DEF NewTask, OperationTask, Phases, ActivePhases
  <2>3. IsTaskMap(tasks')
    BY <2>1, <2>2 DEF IsTaskMap, StoreTypeOK
  <2>4. PICK b \in Nat : \A u \in DOMAIN tasks : u.attempt <= b
    BY DEF AttemptsBounded
  <2>5. t.attempt \in Nat /\ \A u \in DOMAIN tasks : u.attempt \in Nat
    BY DEF TaskId, StoreTypeOK, IsTaskMap
  <2>6. b + t.attempt \in Nat /\ \A u \in DOMAIN tasks' : u.attempt <= b + t.attempt
    BY <2>1, <2>4, <2>5
  <2> QED
    BY <2>3, <2>6 DEF AttemptsBounded
<1> QED
  BY <1>1, <1>2

\* ... or changes its phase ...
LEMMA UpdateTaskTyped ==
    ASSUME StoreTypeOK, AttemptsBounded(tasks), NEW t \in DOMAIN tasks,
           NEW phase \in Phases, NEW out \in BOOLEAN, UpdateTask(t, phase, out)
    PROVE  IsTaskMap(tasks') /\ AttemptsBounded(tasks')
<1>1. tasks' = [tasks EXCEPT ![t].phase = phase, ![t].out = out]
  BY DEF UpdateTask
<1>2. DOMAIN tasks' = DOMAIN tasks
  BY <1>1
<1>3. tasks[t] \in OperationTask
  BY DEF StoreTypeOK, IsTaskMap
<1>4. tasks'[t] \in OperationTask
  BY <1>1, <1>3 DEF OperationTask
<1>5. \A u \in DOMAIN tasks : u # t => tasks'[u] = tasks[u]
  BY <1>1
<1>6. tasks' = [u \in DOMAIN tasks' |-> tasks'[u]]
  BY <1>1
<1>7. IsTaskMap(tasks')
  BY <1>2, <1>4, <1>5, <1>6 DEF IsTaskMap, StoreTypeOK
<1> QED
  BY <1>2, <1>7 DEF AttemptsBounded

\* ... and so does the part of it that belongs to one operation.
LEMMA TasksOfTyped ==
    ASSUME StoreTypeOK, AttemptsBounded(tasks), NEW o
    PROVE  /\ IsTaskMap(TasksOf(o)) /\ AttemptsBounded(TasksOf(o))
           /\ DOMAIN TasksOf(o) = {u \in DOMAIN tasks : u.op = o}
<1>1. DOMAIN TasksOf(o) = {u \in DOMAIN tasks : u.op = o}
  BY DEF TasksOf
<1>2. \A t \in DOMAIN TasksOf(o) : TasksOf(o)[t] = tasks[t]
  BY DEF TasksOf
<1>3. TasksOf(o) = [t \in DOMAIN TasksOf(o) |-> TasksOf(o)[t]]
  BY DEF TasksOf
<1>4. IsTaskMap(TasksOf(o))
  BY <1>1, <1>2, <1>3 DEF IsTaskMap, StoreTypeOK
<1> QED
  BY <1>1, <1>4 DEF AttemptsBounded

\* The write of a well-formed operation.
LEMMA WriteOperationTyped ==
    ASSUME StoreTypeOK, NEW o \in Ops, NEW op \in Operation, WriteOperation(o, op)
    PROVE  /\ ops' \in [Ops -> Operation] /\ opRev' \in Nat
           /\ ops' = [ops EXCEPT ![o] = [op EXCEPT !.rv = opRev + 1]]
<1>1. [op EXCEPT !.rv = opRev + 1] \in Operation
  BY DEF Operation, StoreTypeOK
<1> QED
  BY <1>1 DEF WriteOperation, StoreTypeOK

\* An idle worker is well-formed.
LEMMA IdleTyped == WorkerTyped(IdleWorker)
<1>1. AbsentOperation \in Operation
  BY DEF AbsentOperation, Operation, Reasons, NoDeadline
<1>2. IsTaskMap(NoTasks) /\ AttemptsBounded(NoTasks)
  BY DEF NoTasks, IsTaskMap, AttemptsBounded
<1>3. NoGoal \in Goal
  BY DEF NoGoal, Goal, Reasons
<1> QED
  BY <1>1, <1>2, <1>3 DEF WorkerTyped, WorkerOK, IdleWorker, Pcs

\* A worker that becomes well-formed leaves all of them well-formed.
LEMMA BecomeTyped ==
    ASSUME ControllerTypeOK, \A d \in Ctrls : AttemptsBounded(ctl[d].view),
           NEW c \in Ctrls, NEW w, WorkerTyped(w), Become(c, w)
    PROVE  ControllerTypeOK' /\ \A d \in Ctrls : AttemptsBounded(ctl'[d].view)
<1>1. DOMAIN ctl' = Ctrls /\ \A d \in Ctrls : ctl'[d] = IF d = c THEN w ELSE ctl[d]
  BY DEF Become, ControllerTypeOK
<1> QED
  BY <1>1 DEF ControllerTypeOK, WorkerTyped

-----------------------------------------------------------------------------
(***************************************************************************)
(* What every decision of reconcileLockedOperation looks like.             *)
(***************************************************************************)
DecisionPcs == {"idle", "relist", "start", "cancel", "timeout", "create", "finishList"}

DecisionSound(o, op, view, now, d) ==
    /\ d.pc \in DecisionPcs
    /\ \A t \in d.todo : t \in TaskId /\ (t.op = o \/ t \in DOMAIN view)
    /\ d.goal \in Goal
    /\ d.pc = "relist" => RetryRequested(op)
    /\ d.pc = "start" => op.phase = "Pending"
    /\ d.pc \in {"create", "timeout", "finishList"} => op.phase = "Running"
    /\ d.pc = "timeout" => now >= 2
    /\ d.pc = "finishList" => d.goal.phase \in TerminalPhases

\* Returning promises nothing.
LEMMA ReturnSound ==
    ASSUME NEW o, NEW op, NEW view, NEW now
    PROVE  DecisionSound(o, op, view, now, Return)
BY DEF DecisionSound, DecisionPcs, Return, NoGoal, Goal, Reasons

\* A loop over pending or running tasks of the list.
LEMMA TaskLoopSound ==
    ASSUME NEW o, NEW op, op.phase = "Running", NEW view, IsTaskMap(view), NEW now,
           NEW todo \in SUBSET DOMAIN view,
           NEW pc \in {"cancel", "timeout"}, pc = "timeout" => now >= 2
    PROVE  DecisionSound(o, op, view, now, Loop(pc, todo))
BY DEF DecisionSound, DecisionPcs, Loop, NoGoal, Goal, Reasons, IsTaskMap

\* Finishing a running operation has a terminal goal.
LEMMA FinishSound ==
    ASSUME NEW o, NEW op, op.phase = "Running", NEW view, NEW now,
           NEW phase \in TerminalPhases, NEW reason \in Reasons
    PROVE  DecisionSound(o, op, view, now, Finish(phase, reason))
BY DEF DecisionSound, DecisionPcs, Finish, Goal

\* failInvalidFacts waits, cancels pending tasks or fails the operation.
LEMMA FailInvalidFactsSound ==
    ASSUME NEW o, NEW op, op.phase = "Running", NEW view, IsTaskMap(view), NEW now
    PROVE  DecisionSound(o, op, view, now, FailInvalidFacts(view))
<1>1. DecisionSound(o, op, view, now, Loop("cancel", PendingTasks(view)))
  <2>1. PendingTasks(view) \in SUBSET DOMAIN view
    BY DEF PendingTasks, TasksIn
  <2> QED
    BY <2>1, TaskLoopSound
<1>2. DecisionSound(o, op, view, now, Finish("Failed", "InvalidExecutionFacts"))
  BY FinishSound DEF TerminalPhases, Reasons
<1> QED
  BY <1>1, <1>2, ReturnSound DEF FailInvalidFacts

\* The common end of the cancel and deadline branches.
LEMMA ConcludeSound ==
    ASSUME NEW o, NEW op, op.phase = "Running", NEW view, IsTaskMap(view), NEW now,
           NEW phase \in TerminalPhases, NEW reason \in Reasons
    PROVE  DecisionSound(o, op, view, now, Conclude(o, op, view, phase, reason))
<1>1. DecisionSound(o, op, view, now, Finish("Succeeded", ""))
  BY FinishSound DEF TerminalPhases, Reasons
<1> QED
  BY <1>1, FailInvalidFactsSound, FinishSound DEF Conclude

\* reconcileCancellation.
LEMMA ReconcileCancellationSound ==
    ASSUME NEW o, NEW op, op.phase = "Running", NEW view, IsTaskMap(view), NEW now
    PROVE  DecisionSound(o, op, view, now, ReconcileCancellation(o, op, view))
<1>1. DecisionSound(o, op, view, now, Loop("cancel", PendingTasks(view)))
  <2>1. PendingTasks(view) \in SUBSET DOMAIN view
    BY DEF PendingTasks, TasksIn
  <2> QED
    BY <2>1, TaskLoopSound
<1>2. DecisionSound(o, op, view, now,
                    Conclude(o, op, view, "Canceled", "CancelledByRequest"))
  BY ConcludeSound DEF TerminalPhases, Reasons
<1> QED
  BY <1>1, <1>2, ReturnSound DEF ReconcileCancellation

\* reconcileDeadline times tasks out only when the grace period is over.
LEMMA ReconcileDeadlineSound ==
    ASSUME NEW o, NEW op, op.phase = "Running", NEW view, IsTaskMap(view),
           NEW now \in 0..2
    PROVE  DecisionSound(o, op, view, now, ReconcileDeadline(o, op, view, now))
<1>1. DecisionSound(o, op, view, now, Loop("cancel", PendingTasks(view)))
  <2>1. PendingTasks(view) \in SUBSET DOMAIN view
    BY DEF PendingTasks, TasksIn
  <2> QED
    BY <2>1, TaskLoopSound
<1>2. now >= 2 => DecisionSound(o, op, view, now, Loop("timeout", RunningTasks(view)))
  <2>1. RunningTasks(view) \in SUBSET DOMAIN view
    BY DEF RunningTasks, TasksIn
  <2> QED
    BY <2>1, TaskLoopSound
<1>3. DecisionSound(o, op, view, now,
                    Conclude(o, op, view, "Canceled", "CancelledByRequest"))
  BY ConcludeSound DEF TerminalPhases, Reasons
<1>4. DecisionSound(o, op, view, now,
                    Conclude(o, op, view, "TimedOut", "DeadlineExceeded"))
  BY ConcludeSound DEF TerminalPhases, Reasons
<1>5. ~(now < 2) => now >= 2
  OBVIOUS
<1> QED
  BY <1>1, <1>2, <1>3, <1>4, <1>5, ReturnSound DEF ReconcileDeadline

\* createAttempts names tasks of its own operation and step.
LEMMA CreateAttemptsSound ==
    ASSUME NEW o \in Ops, NEW op \in Operation, op.phase = "Running",
           NEW view, IsTaskMap(view), AttemptsBounded(view), NEW now,
           ~Complete(o, view)
    PROVE  DecisionSound(o, op, view, now,
                         CreateAttempts(o, op, view, CurrentStep(o, view)))
<1> DEFINE s == CurrentStep(o, view)
           todo == {TaskName(o, op.gen, s, n, NextAttempt(view, s, n)) :
                        n \in Incomplete(o, view, s)}
<1>1. s \in DOMAIN Plan[o] /\ s \in Nat
  BY CurrentStepType
<1>2. Incomplete(o, view, s) \subseteq Nodes
  BY <1>1, PlanType DEF Incomplete, OperationStep
<1> HIDE DEF s
<1>3. \A n \in Incomplete(o, view, s) :
         /\ TaskName(o, op.gen, s, n, NextAttempt(view, s, n)) \in TaskId
         /\ TaskName(o, op.gen, s, n, NextAttempt(view, s, n)).op = o
  <2> TAKE n \in Incomplete(o, view, s)
  <2>1. NextAttempt(view, s, n) \in Nat
    BY NextAttemptType
  <2>2. op.gen \in Nat /\ n \in Nodes
    BY <1>2 DEF Operation
  <2> QED
    BY <1>1, <2>1, <2>2 DEF TaskName, TaskId
<1>4. DecisionSound(o, op, view, now, Loop("create", todo))
  BY <1>3 DEF DecisionSound, DecisionPcs, Loop, NoGoal, Goal, Reasons
<1>5. DecisionSound(o, op, view, now, Finish("Failed", "StepFailed"))
  BY FinishSound DEF TerminalPhases, Reasons
<1>6. DecisionSound(o, op, view, now, FailInvalidFacts(view))
  BY FailInvalidFactsSound
<1>7. DecisionSound(o, op, view, now, CreateAttempts(o, op, view, s))
  BY <1>4, <1>5, <1>6 DEF CreateAttempts
<1> QED
  BY <1>7 DEF s

\* reconcileRunningOperation.
LEMMA ReconcileRunningSound ==
    ASSUME NEW o \in Ops, NEW op \in Operation, op.phase = "Running",
           NEW view, IsTaskMap(view), AttemptsBounded(view), NEW now
    PROVE  DecisionSound(o, op, view, now, ReconcileRunning(o, op, view))
<1> DEFINE s == CurrentStep(o, view)
           pending == StepTasks(view, s) \cap PendingTasks(view)
<1>1. DecisionSound(o, op, view, now, FailInvalidFacts(view))
  BY FailInvalidFactsSound
<1>2. DecisionSound(o, op, view, now, Finish("Succeeded", ""))
  BY FinishSound DEF TerminalPhases, Reasons
<1>3. DecisionSound(o, op, view, now, ReconcileCancellation(o, op, view))
  BY ReconcileCancellationSound
<1>4. DecisionSound(o, op, view, now, Loop("cancel", pending))
  <2>1. pending \in SUBSET DOMAIN view
    BY DEF StepTasks
  <2> HIDE DEF pending
  <2> QED
    BY <2>1, TaskLoopSound
<1>5. ~Complete(o, view) => DecisionSound(o, op, view, now, CreateAttempts(o, op, view, s))
  BY CreateAttemptsSound
<1> QED
  BY <1>1, <1>2, <1>3, <1>4, <1>5, ReturnSound DEF ReconcileRunning

\* reconcileLockedOperation as a whole.
LEMMA ReconcileLockedSound ==
    ASSUME NEW o \in Ops, NEW op \in Operation, NEW view, IsTaskMap(view),
           AttemptsBounded(view), NEW now \in 0..2
    PROVE  DecisionSound(o, op, view, now, ReconcileLocked(o, op, view, now))
<1>1. RetryRequested(op) => DecisionSound(o, op, view, now, Loop("relist", {}))
  BY DEF DecisionSound, DecisionPcs, Loop, NoGoal, Goal, Reasons
<1>2. op.phase = "Pending" => DecisionSound(o, op, view, now, Loop("start", {}))
  BY DEF DecisionSound, DecisionPcs, Loop, NoGoal, Goal, Reasons
<1>3. op.phase = "Running" =>
         /\ DecisionSound(o, op, view, now, FailInvalidFacts(view))
         /\ DecisionSound(o, op, view, now, ReconcileDeadline(o, op, view, now))
         /\ DecisionSound(o, op, view, now, ReconcileRunning(o, op, view))
  BY FailInvalidFactsSound, ReconcileDeadlineSound, ReconcileRunningSound
<1> QED
  BY <1>1, <1>2, <1>3, ReturnSound DEF ReconcileLocked

-----------------------------------------------------------------------------
(***************************************************************************)
(* The worker's moves keep the workers well-formed.                        *)
(***************************************************************************)
WorkersTyped == ControllerTypeOK /\ \A d \in Ctrls : AttemptsBounded(ctl[d].view)

\* A busy worker has an operation.
LEMMA BusyWorkerTyped ==
    ASSUME WorkersTyped, NEW c \in Ctrls, ctl[c].pc # "idle"
    PROVE  /\ WorkerTyped(ctl[c])
           /\ ctl[c].op \in Ops /\ ctl[c].snap \in Operation
           /\ \A t \in ctl[c].todo : t \in TaskId
BY DEF WorkersTyped, ControllerTypeOK, WorkerTyped, WorkerOK

\* Returning ...
LEMMA DoneTyped ==
    ASSUME WorkersTyped, NEW c \in Ctrls, Done(c)
    PROVE  WorkersTyped'
BY IdleTyped, BecomeTyped DEF Done, WorkersTyped

\* ... moving on ...
LEMMA GotoTyped ==
    ASSUME WorkersTyped, NEW c \in Ctrls, ctl[c].pc # "idle",
           NEW pc \in Pcs \ {"idle"}, Goto(c, pc)
    PROVE  WorkersTyped'
<1>1. WorkerTyped([ctl[c] EXCEPT !.pc = pc])
  BY BusyWorkerTyped DEF WorkerTyped, WorkerOK
<1> QED
  BY <1>1, BecomeTyped DEF Goto, WorkersTyped

\* ... following a decision ...
LEMMA FollowTyped ==
    ASSUME WorkersTyped, NEW c \in Ctrls, NEW w, WorkerTyped(w), w.op \in Ops,
           NEW d, d.pc \in Pcs, \A t \in d.todo : t \in TaskId, d.goal \in Goal,
           Follow(c, w, d)
    PROVE  WorkersTyped'
<1> DEFINE next == IF d.pc = "idle" THEN IdleWorker
                   ELSE [w EXCEPT !.pc = d.pc, !.todo = d.todo, !.goal = d.goal,
                                  !.view = NoTasks]
<1>1. IsTaskMap(NoTasks) /\ AttemptsBounded(NoTasks)
  BY DEF NoTasks, IsTaskMap, AttemptsBounded
<1>2. d.pc # "idle" =>
         WorkerTyped([w EXCEPT !.pc = d.pc, !.todo = d.todo, !.goal = d.goal,
                               !.view = NoTasks])
  BY <1>1, ConstantsAssumption DEF WorkerTyped, WorkerOK
<1>3. WorkerTyped(next)
  BY <1>2, IdleTyped
<1>4. Become(c, next)
  BY DEF Follow
<1> HIDE DEF next
<1> QED
  BY <1>3, <1>4, BecomeTyped DEF WorkersTyped

\* ... and taking the next task of a loop keep the workers well-formed.
LEMMA NextOfTyped ==
    ASSUME WorkersTyped, NEW c \in Ctrls, ctl[c].pc # "idle", NEW t, NextOf(c, t)
    PROVE  WorkersTyped'
<1>1. WorkerTyped([ctl[c] EXCEPT !.todo = @ \ {t}])
  BY BusyWorkerTyped DEF WorkerTyped, WorkerOK
<1>2. CASE ctl[c].todo = {t}
  BY <1>2, DoneTyped DEF NextOf
<1>3. CASE ctl[c].todo # {t}
  BY <1>1, <1>3, BecomeTyped DEF NextOf, WorkersTyped
<1> QED
  BY <1>2, <1>3

StoreTyped == StoreTypeOK /\ AttemptsBounded(tasks)

\* A status write, applied or refused, keeps the store well-formed.
LEMMA WriteStatusTyped ==
    ASSUME StoreTyped, NEW c \in Ctrls, ctl[c].op \in Ops,
           NEW new \in Operation, WriteStatus(c, new), clock' \in [Ops -> 0..2]
    PROVE  StoreTyped'
<1>1. CASE CanUpdateStatus(ctl[c].op, ctl[c].snap, new)
  <2>1. WriteOperation(ctl[c].op, new) /\ UNCHANGED <<tasks, lock>>
    BY <1>1 DEF WriteStatus, UpdateOperationStatus
  <2> QED
    BY <2>1, WriteOperationTyped DEF StoreTyped, StoreTypeOK
<1>2. CASE ~CanUpdateStatus(ctl[c].op, ctl[c].snap, new)
  BY <1>2 DEF WriteStatus, storeVars, StoreTyped, StoreTypeOK
<1> QED
  BY <1>1, <1>2

\* Acquiring or releasing a lock keeps the store well-formed.
LEMMA LockWriteTyped ==
    ASSUME StoreTyped, NEW o \in Ops, NEW uid \in Nat, UNCHANGED clock,
           AcquireLock(o) \/ ReleaseLock(o, uid)
    PROVE  StoreTyped'
<1>1. TargetOf[o] \in Targets
  BY ConstantsAssumption
<1>2. lock' \in [Targets -> Lock]
  BY <1>1 DEF StoreTyped, StoreTypeOK, AcquireLock, ReleaseLock, Lock
<1> QED
  BY <1>2 DEF StoreTyped, StoreTypeOK, AcquireLock, ReleaseLock

-----------------------------------------------------------------------------
\* Every step of a Reconcile keeps the store and the workers well-formed.
LEMMA ReconcileStepTyped ==
    ASSUME StoreTyped, WorkersTyped, NEW c \in Ctrls, ReconcileStep(c)
    PROVE  StoreTyped' /\ WorkersTyped'
<1> DEFINE w == ctl[c]
<1> USE DEF At
<1>u. UNCHANGED <<storeVars, clock>> => StoreTyped'
  BY DEF storeVars, StoreTyped, StoreTypeOK
<1>b. ctl[c].pc # "idle" =>
         /\ WorkerTyped(w) /\ w.op \in Ops /\ w.snap \in Operation /\ w.goal \in Goal
         /\ w.lockUID \in Nat /\ \A t \in w.todo : t \in TaskId
  BY BusyWorkerTyped DEF WorkerTyped, WorkerOK
<1>1. CASE ListTasks(c)
  <2> DEFINE v == [ctl[c] EXCEPT !.view = TasksOf(ctl[c].op)]
             d == IF ActiveTasks(v.view) # {} THEN Return ELSE Loop("getLock", {})
  <2>1. w.pc = "listTasks" /\ WorkerTyped(w) /\ w.op \in Ops
    BY <1>1, <1>b DEF ListTasks
  <2>2. WorkerTyped(v) /\ v.op \in Ops
    BY <2>1, TasksOfTyped DEF WorkerTyped, WorkerOK, StoreTyped
  <2>3. WorkerTyped([v EXCEPT !.pc = "listOps"])
    BY <2>1, <2>2 DEF WorkerTyped, WorkerOK, Pcs
  <2>4. d.pc \in Pcs /\ (\A t \in d.todo : t \in TaskId) /\ d.goal \in Goal
    BY DEF Return, Loop, NoGoal, Goal, Reasons, Pcs
  <2>5. Follow(c, v, d) \/ Become(c, [v EXCEPT !.pc = "listOps"])
    BY <1>1 DEF ListTasks
  <2> HIDE DEF v, d
  <2>6. WorkersTyped'
    BY <2>2, <2>3, <2>4, <2>5, FollowTyped, BecomeTyped DEF WorkersTyped
  <2> QED
    BY <1>1, <1>u, <2>6 DEF ListTasks
<1>2. CASE ListOperations(c)
  <2> DEFINE d1 == Loop("skipRetry", {})
             d2 == Finish("Canceled", "CancelledByRequest")
  <2>1. w.pc = "listOps" /\ WorkerTyped(w) /\ w.op \in Ops
    BY <1>2, <1>b DEF ListOperations
  <2>2. /\ d1.pc \in Pcs /\ d1.goal \in Goal /\ \A t \in d1.todo : t \in TaskId
        /\ d2.pc \in Pcs /\ d2.goal \in Goal /\ \A t \in d2.todo : t \in TaskId
    BY DEF Finish, Loop, NoGoal, Goal, Reasons, Pcs, TerminalPhases
  <2>3. Follow(c, w, d1) \/ Follow(c, w, d2) \/ Done(c) \/ Goto(c, "acquire")
    BY <1>2 DEF ListOperations
  <2> HIDE DEF d1, d2
  <2>4. "acquire" \in Pcs \ {"idle"}
    BY DEF Pcs
  <2>5. WorkersTyped'
    BY <2>1, <2>2, <2>3, <2>4, FollowTyped, DoneTyped, GotoTyped
  <2> QED
    BY <1>2, <1>u, <2>5 DEF ListOperations
<1>3. CASE AcquireLockStep(c)
  <2>1. w.pc = "acquire" /\ WorkerTyped(w) /\ w.op \in Ops /\ w.snap \in Operation
    BY <1>3, <1>b DEF AcquireLockStep
  <2>2. CASE CanAcquireLock(w.op)
    <3> DEFINE v == [ctl[c] EXCEPT !.lockUID = lock'[TargetOf[ctl[c].op]].uid]
               d == ReconcileLocked(v.op, v.snap, v.view, clock[v.op])
    <3>1. AcquireLock(w.op) /\ UNCHANGED clock /\ Follow(c, v, d)
      BY <1>3, <2>2 DEF AcquireLockStep
    <3>2. StoreTyped'
      BY <2>1, <3>1, LockWriteTyped, 0 \in Nat
    <3>3. lock'[TargetOf[w.op]].uid \in Nat
      BY <2>1, <3>2, ConstantsAssumption DEF StoreTyped, StoreTypeOK, Lock
    <3>4. WorkerTyped(v) /\ v.op = w.op /\ v.snap = w.snap /\ v.view = w.view
      BY <2>1, <3>3 DEF WorkerTyped, WorkerOK
    <3>5. IsTaskMap(w.view) /\ AttemptsBounded(w.view) /\ clock[w.op] \in 0..2
      BY <2>1 DEF WorkerTyped, WorkerOK, StoreTyped, StoreTypeOK
    <3>6. DecisionSound(w.op, w.snap, w.view, clock[w.op], d)
      BY <2>1, <3>4, <3>5, ReconcileLockedSound
    <3>7. d.pc \in Pcs /\ (\A t \in d.todo : t \in TaskId) /\ d.goal \in Goal
      BY <3>6 DEF DecisionSound, DecisionPcs, Pcs
    <3> HIDE DEF v, d
    <3> QED
      BY <2>1, <3>1, <3>2, <3>4, <3>7, FollowTyped
  <2>3. CASE ~CanAcquireLock(w.op)
    BY <1>3, <2>3, <1>u, DoneTyped DEF AcquireLockStep
  <2> QED
    BY <2>2, <2>3
<1>4. CASE RetryStillLatest(c)
  <2>1. w.pc # "idle" /\ (Goto(c, "reopen") \/ Goto(c, "unlock"))
    BY <1>4 DEF RetryStillLatest
  <2> QED
    BY <1>4, <1>u, <2>1, GotoTyped DEF RetryStillLatest, Pcs
<1>5. CASE UnlockSkippedRetry(c)
  <2>1. w.pc # "idle" /\ (Goto(c, "skipRetry") \/ Done(c))
    BY <1>5 DEF UnlockSkippedRetry
  <2>2. WorkersTyped'
    BY <2>1, GotoTyped, DoneTyped DEF Pcs
  <2> QED
    BY <1>5, <1>b, <2>1, <2>2, LockWriteTyped DEF UnlockSkippedRetry
<1>6. CASE SkipRetry(c)
  <2>1. [w.snap EXCEPT !.observed = w.snap.gen] \in Operation
    BY <1>6, <1>b DEF SkipRetry, Operation
  <2> QED
    BY <1>6, <1>b, <2>1, WriteStatusTyped, DoneTyped
       DEF SkipRetry, StoreTyped, StoreTypeOK
<1>7. CASE ReopenForRetry(c)
  <2>1. [w.snap EXCEPT !.phase = "Pending", !.reason = "",
                       !.observed = w.snap.gen, !.deadline = NoDeadline] \in Operation
    BY <1>7, <1>b DEF ReopenForRetry, Operation, Phases, ActivePhases, Reasons
  <2> QED
    BY <1>7, <1>b, <2>1, WriteStatusTyped, DoneTyped
       DEF ReopenForRetry, StoreTyped, StoreTypeOK
<1>8. CASE StartOperation(c)
  <2>1. [w.snap EXCEPT !.phase = "Running", !.observed = w.snap.gen,
                       !.deadline = w.snap.gen, !.reason = ""] \in Operation
    BY <1>8, <1>b DEF StartOperation, Operation, Phases, ActivePhases, Reasons
  <2>2. clock' \in [Ops -> 0..2]
    BY <1>8, <1>b DEF StartOperation, StoreTyped, StoreTypeOK
  <2> QED
    BY <1>8, <1>b, <2>1, <2>2, WriteStatusTyped, DoneTyped DEF StartOperation
<1>9. ASSUME NEW t \in ctl[c].todo, NEW pc \in {"cancel", "timeout"}, NEW expected,
             NEW phase \in {"Canceled", "TimedOut"},
             TerminateTask(c, t, pc, expected, phase)
      PROVE  StoreTyped' /\ WorkersTyped'
  <2>1. w.pc # "idle"
    BY <1>9 DEF TerminateTask
  <2>2. CASE CanUpdateTask(t, expected)
    <3>1. UpdateTask(t, phase, FALSE) /\ NextOf(c, t) /\ UNCHANGED clock
      BY <1>9, <2>2 DEF TerminateTask
    <3>2. IsTaskMap(tasks') /\ AttemptsBounded(tasks')
      BY <2>2, <3>1, UpdateTaskTyped DEF CanUpdateTask, StoreTyped, Phases, TerminalPhases
    <3> QED
      BY <2>1, <3>1, <3>2, NextOfTyped DEF UpdateTask, StoreTyped, StoreTypeOK
  <2>3. CASE ~CanUpdateTask(t, expected)
    BY <1>9, <2>3, <1>u, DoneTyped DEF TerminateTask
  <2> QED
    BY <2>2, <2>3
<1>10. CASE \E t \in ctl[c].todo : CancelPendingTask(c, t)
  BY <1>10, <1>9 DEF CancelPendingTask
<1>11. CASE \E t \in ctl[c].todo : TimeoutRunningTask(c, t)
  BY <1>11, <1>9 DEF TimeoutRunningTask
<1>12. CASE \E t \in ctl[c].todo : CreateAttempt(c, t)
  <2>1. PICK t \in ctl[c].todo : CreateAttempt(c, t)
    BY <1>12
  <2>2. /\ w.pc # "idle" /\ CreateTask(t, w.snap.deadline) /\ NextOf(c, t)
        /\ UNCHANGED clock
    BY <2>1 DEF CreateAttempt
  <2>3. t \in TaskId /\ w.snap.deadline \in Nat \cup {NoDeadline}
    BY <1>b, <2>2 DEF Operation
  <2>4. IsTaskMap(tasks') /\ AttemptsBounded(tasks')
    BY <2>2, <2>3, CreateTaskTyped DEF StoreTyped
  <2> QED
    BY <2>2, <2>4, NextOfTyped DEF CreateTask, StoreTyped, StoreTypeOK
<1>13. CASE FinishList(c)
  <2>1. w.pc # "idle" /\ (Goto(c, "finishWrite") \/ Done(c))
    BY <1>13 DEF FinishList
  <2> QED
    BY <1>13, <1>u, <2>1, GotoTyped, DoneTyped DEF FinishList, Pcs
<1>14. CASE FinishWrite(c)
  <2> DEFINE new == [w.snap EXCEPT !.phase = w.goal.phase, !.reason = w.goal.reason,
                                   !.observed = w.snap.gen]
  <2>1. /\ w.pc = "finishWrite" /\ WriteStatus(c, new) /\ UNCHANGED clock
        /\ Goto(c, "release") \/ Done(c)
    BY <1>14 DEF FinishWrite
  <2>2. WorkersTyped'
    BY <2>1, GotoTyped, DoneTyped DEF Pcs
  <2>3. CASE w.goal.phase \in TerminalPhases
    <3>1. new \in Operation
      BY <1>b, <2>1, <2>3 DEF Operation, Goal, Phases
    <3> HIDE DEF new
    <3> QED
      BY <1>b, <2>1, <2>2, <3>1, WriteStatusTyped DEF StoreTyped, StoreTypeOK
  <2>4. CASE w.goal.phase \notin TerminalPhases
    <3>1. new.phase = "" /\ new.phase \notin TerminalPhases
      BY <1>b, <2>1, <2>4 DEF Goal, Operation
    <3>2. ~CanUpdateStatus(w.op, w.snap, new)
      BY <3>1 DEF CanUpdateStatus, ValidPhaseTransition, IsRetryReopen, TerminalPhases
    <3> QED
      BY <2>1, <2>2, <3>2, <1>u DEF WriteStatus
  <2> QED
    BY <2>3, <2>4
<1>15. CASE GetLock(c)
  <2>1. w.pc = "getLock" /\ WorkerTyped(w) /\ w.op \in Ops
    BY <1>15, <1>b DEF GetLock
  <2>2. lock[TargetOf[w.op]].uid \in Nat
    BY <2>1, ConstantsAssumption DEF StoreTyped, StoreTypeOK, Lock
  <2>3. WorkerTyped([ctl[c] EXCEPT !.pc = "release", !.lockUID = lock[TargetOf[w.op]].uid])
    BY <2>1, <2>2 DEF WorkerTyped, WorkerOK, Pcs
  <2>4. \/ Become(c, [ctl[c] EXCEPT !.pc = "release", !.lockUID = lock[TargetOf[w.op]].uid])
        \/ Done(c)
    BY <1>15 DEF GetLock
  <2>5. WorkersTyped'
    BY <2>3, <2>4, BecomeTyped, DoneTyped DEF WorkersTyped
  <2> QED
    BY <1>15, <1>u, <2>5 DEF GetLock
<1>16. CASE ReleaseTerminalLock(c)
  BY <1>16, <1>b, LockWriteTyped, DoneTyped DEF ReleaseTerminalLock
<1> QED
  BY <1>1, <1>2, <1>3, <1>4, <1>5, <1>6, <1>7, <1>8, <1>10, <1>11, <1>12, <1>13,
     <1>14, <1>15, <1>16 DEF ReconcileStep

\* A new Reconcile starts well-formed.
LEMMA GetOperationTyped ==
    ASSUME StoreTyped, WorkersTyped, NEW c \in Ctrls, NEW o \in Ops, GetOperation(c, o)
    PROVE  StoreTyped' /\ WorkersTyped'
<1> DEFINE w == [IdleWorker EXCEPT !.pc = "listTasks", !.op = o, !.snap = ops[o]]
<1>1. ops[o] \in Operation
  BY DEF StoreTyped, StoreTypeOK
<1>2. WorkerTyped(w)
  BY <1>1, IdleTyped, ConstantsAssumption DEF WorkerTyped, WorkerOK, IdleWorker, Pcs
<1>3. Become(c, w)
  BY DEF GetOperation
<1> HIDE DEF w
<1>4. WorkersTyped'
  BY <1>2, <1>3, BecomeTyped DEF WorkersTyped
<1> QED
  BY <1>4 DEF GetOperation, storeVars, StoreTyped, StoreTypeOK

\* The API handlers keep the store and their own state well-formed ...
LEMMA APIStepTyped ==
    ASSUME StoreTyped, APITypeOK, NEW o \in Ops, APIStep(o), UNCHANGED clock
    PROVE  StoreTyped' /\ APITypeOK'
<1>t. ops[o] \in Operation
  BY DEF StoreTyped, StoreTypeOK
<1>1. CASE CreateOperation(o)
  <2>1. PICK second \in UNION {{ops[p].created, ops[p].created + 1} : p \in Ops} :
            WriteOperation(o, [AbsentOperation EXCEPT !.phase = "Pending",
                                                      !.created = second])
    BY <1>1 DEF CreateOperation
  <2>2. second \in Nat
    BY DEF StoreTyped, StoreTypeOK, Operation
  <2>3. [AbsentOperation EXCEPT !.phase = "Pending", !.created = second] \in Operation
    BY <2>2 DEF AbsentOperation, Operation, Phases, ActivePhases, Reasons
  <2> QED
    BY <1>1, <2>1, <2>3, WriteOperationTyped
       DEF CreateOperation, StoreTyped, StoreTypeOK, APITypeOK
<1>2. CASE CancelOperation(o)
  <2>1. [ops[o] EXCEPT !.desired = "Canceled"] \in Operation
    BY <1>t DEF Operation
  <2> QED
    BY <1>2, <2>1, WriteOperationTyped
       DEF CancelOperation, StoreTyped, StoreTypeOK, APITypeOK
<1>3. CASE LoadRetryableOperation(o)
  BY <1>3, <1>t
     DEF LoadRetryableOperation, storeVars, StoreTyped, StoreTypeOK, APITypeOK, Operation
<1>4. CASE RetryOperation(o)
  <2>1. [ops[o] EXCEPT !.desired = "Active", !.gen = ops[o].gen + 1] \in Operation
    <3>1. \A op \in Operation, g \in Nat :
             [op EXCEPT !.desired = "Active", !.gen = g] \in Operation
      BY DEF Operation
    <3>2. ops[o].gen + 1 \in Nat
      BY <1>t DEF Operation
    <3> QED
      BY <1>t, <3>1, <3>2
  <2>2. APITypeOK' /\ UNCHANGED <<tasks, lock>>
    BY <1>4 DEF RetryOperation, APITypeOK
  <2>3. \/ WriteOperation(o, [ops[o] EXCEPT !.desired = "Active", !.gen = ops[o].gen + 1])
        \/ UNCHANGED <<ops, opRev>>
    BY <1>4 DEF RetryOperation
  <2>4. ops' \in [Ops -> Operation] /\ opRev' \in Nat
    BY <2>1, <2>3, WriteOperationTyped DEF StoreTyped, StoreTypeOK
  <2> QED
    BY <2>2, <2>4 DEF StoreTyped, StoreTypeOK
<1> QED
  BY <1>1, <1>2, <1>3, <1>4 DEF APIStep

\* ... and so do the agents.
LEMMA AgentStepTyped ==
    ASSUME StoreTyped, AgentTypeOK, NEW n \in Nodes, UNCHANGED clock,
           AgentStep(n) \/ StopAgent(n) \/ \E t \in DOMAIN tasks : StartResponseLost(n, t)
    PROVE  StoreTyped' /\ AgentTypeOK'
<1>t. \A t \in DOMAIN tasks : t \in TaskId
  BY DEF StoreTyped, StoreTypeOK, IsTaskMap
<1>u. ASSUME NEW t, NEW expected, CanUpdateTask(t, expected),
             NEW phase \in Phases, NEW out \in BOOLEAN, UpdateTask(t, phase, out)
      PROVE  StoreTyped'
  <2>1. IsTaskMap(tasks') /\ AttemptsBounded(tasks')
    BY <1>u, UpdateTaskTyped DEF CanUpdateTask, StoreTyped
  <2> QED
    BY <1>u, <2>1 DEF UpdateTask, StoreTyped, StoreTypeOK
<1>s. UNCHANGED storeVars => StoreTyped'
  BY DEF storeVars, StoreTyped, StoreTypeOK
<1>e. \/ UNCHANGED exec
      \/ \E t \in DOMAIN tasks : exec' = [exec EXCEPT ![n] = {t}]
      \/ exec' = [exec EXCEPT ![n] = {}]
      => AgentTypeOK'
  BY <1>t DEF AgentTypeOK
<1>p. {"Running", "Succeeded", "Failed", "TimedOut"} \subseteq Phases
  BY DEF Phases, ActivePhases, TerminalPhases
<1>1. ASSUME NEW t \in DOMAIN tasks, StartPendingTask(n, t) \/ StartResponseLost(n, t)
      PROVE  StoreTyped' /\ AgentTypeOK'
  BY <1>1, <1>u, <1>e, <1>p DEF StartPendingTask, StartResponseLost
<1>2. ASSUME NEW t \in DOMAIN tasks, ResumeTask(n, t)
      PROVE  StoreTyped' /\ AgentTypeOK'
  BY <1>2, <1>s, <1>e DEF ResumeTask
<1>3. ASSUME NEW t \in DOMAIN tasks, ReportExpired(n, t)
      PROVE  StoreTyped' /\ AgentTypeOK'
  BY <1>3, <1>u, <1>e, <1>p DEF ReportExpired
<1>4. ASSUME NEW t \in exec[n], FinishTask(n, t)
      PROVE  StoreTyped' /\ AgentTypeOK'
  BY <1>4, <1>u, <1>s, <1>e, <1>p DEF FinishTask
<1>5. CASE StopAgent(n)
  BY <1>5, <1>s, <1>e DEF StopAgent
<1> QED
  BY <1>1, <1>2, <1>3, <1>4, <1>5 DEF AgentStep

\* TypeInv is the conjunction of the parts above.
LEMMA TypeInvParts ==
    TypeInv <=> /\ StoreTyped /\ WorkersTyped /\ APITypeOK /\ AgentTypeOK
                /\ faults \in 0..MaxFaults
BY DEF TypeInv, TypeOK, StoreTyped, WorkersTyped

\* TypeInv holds initially ...
LEMMA TypeInit == Init => TypeInv
<1> SUFFICES ASSUME Init PROVE TypeInv
  OBVIOUS
<1>1. AbsentOperation \in Operation
  BY DEF AbsentOperation, Operation, Reasons, NoDeadline
<1>2. IsTaskMap(NoTasks) /\ AttemptsBounded(NoTasks)
  BY DEF NoTasks, IsTaskMap, AttemptsBounded
<1>3. StoreTyped
  BY <1>1, <1>2 DEF Init, StoreInit, StoreTyped, StoreTypeOK, Lock
<1>4. WorkersTyped
  BY IdleTyped DEF Init, ControllerInit, WorkersTyped, ControllerTypeOK, WorkerTyped
<1>5. APITypeOK /\ AgentTypeOK /\ faults \in 0..MaxFaults
  BY MaxFaultsAssumption DEF Init, APIInit, APITypeOK, AgentInit, AgentTypeOK
<1> QED
  BY <1>3, <1>4, <1>5, TypeInvParts

\* ... and every step preserves it.
LEMMA TypeStep == TypeInv /\ [Next]_vars => TypeInv'
<1> SUFFICES ASSUME TypeInv, [Next]_vars PROVE TypeInv'
  OBVIOUS
<1>p. /\ StoreTyped /\ WorkersTyped /\ APITypeOK /\ AgentTypeOK
      /\ faults \in 0..MaxFaults
  BY TypeInvParts
<1>q. ASSUME StoreTyped', WorkersTyped', APITypeOK', AgentTypeOK', faults' \in 0..MaxFaults
      PROVE  TypeInv'
  BY <1>q DEF TypeInv, TypeOK, StoreTyped, WorkersTyped
<1>w. UNCHANGED ctl => WorkersTyped'
  BY <1>p DEF WorkersTyped, ControllerTypeOK
<1>a. UNCHANGED retrying => APITypeOK'
  BY <1>p DEF APITypeOK
<1>x. UNCHANGED exec => AgentTypeOK'
  BY <1>p DEF AgentTypeOK
<1>1. CASE \E c \in Ctrls : ControllerNext(c)
  <2>1. PICK c \in Ctrls : ControllerNext(c)
    BY <1>1
  <2>2. StoreTyped' /\ WorkersTyped'
    BY <1>p, <2>1, ReconcileStepTyped, GetOperationTyped DEF ControllerNext
  <2> QED
    BY <1>p, <1>q, <1>a, <1>x, <2>1, <2>2 DEF ControllerNext
<1>2. CASE \E o \in Ops : APINext(o)
  <2>1. PICK o \in Ops : APINext(o)
    BY <1>2
  <2>2. StoreTyped' /\ APITypeOK'
    BY <1>p, <2>1, APIStepTyped DEF APINext
  <2> QED
    BY <1>p, <1>q, <1>w, <1>x, <2>1, <2>2 DEF APINext
<1>3. CASE \E n \in Nodes : AgentNext(n)
  <2>1. PICK n \in Nodes : AgentNext(n)
    BY <1>3
  <2>2. StoreTyped' /\ AgentTypeOK'
    BY <1>p, <2>1, AgentStepTyped DEF AgentNext
  <2> QED
    BY <1>p, <1>q, <1>w, <1>a, <2>1, <2>2 DEF AgentNext
<1>4. CASE \E o \in Ops : DeadlineReached(o) \/ GraceOver(o)
  <2>1. StoreTyped'
    BY <1>p, <1>4 DEF DeadlineReached, GraceOver, storeVars, StoreTyped, StoreTypeOK
  <2> QED
    BY <1>p, <1>q, <1>w, <1>a, <1>x, <1>4, <2>1 DEF DeadlineReached, GraceOver
<1>5. CASE Fault
  <2>1. faults' \in 0..MaxFaults /\ UNCHANGED retrying
    BY <1>p, <1>5, MaxFaultsAssumption DEF Fault
  <2>2. CASE \E c \in Ctrls : Abort(c) /\ UNCHANGED exec
    <3>1. StoreTyped' /\ WorkersTyped' /\ UNCHANGED exec
      BY <1>p, <2>2, DoneTyped DEF Abort, storeVars, StoreTyped, StoreTypeOK
    <3> QED
      BY <1>q, <1>a, <1>x, <2>1, <3>1
  <2>3. CASE \E n \in Nodes :
                /\ \/ \E t \in DOMAIN tasks : StartResponseLost(n, t)
                   \/ StopAgent(n)
                /\ UNCHANGED <<ctl, clock>>
    <3>1. StoreTyped' /\ AgentTypeOK' /\ UNCHANGED ctl
      BY <1>p, <2>3, AgentStepTyped
    <3> QED
      BY <1>q, <1>a, <1>w, <2>1, <3>1
  <2> QED
    BY <1>5, <2>2, <2>3 DEF Fault
<1>6. CASE UNCHANGED vars
  <2>1. StoreTyped'
    BY <1>p, <1>6 DEF vars, StoreTyped, StoreTypeOK
  <2> QED
    BY <1>p, <1>q, <1>w, <1>a, <1>x, <1>6, <2>1 DEF vars
<1> QED
  BY <1>1, <1>2, <1>3, <1>4, <1>5, <1>6 DEF Next

\* The engine never leaves its types, whoever leads and whatever fails: in
\* particular every task name a worker is about to create is well-formed.
THEOREM TypeCorrect == Spec => []TypeOK
<1>1. TypeInv => TypeOK
  BY DEF TypeInv
<1> QED
  BY TypeInit, TypeStep, <1>1, PTL DEF Spec

-----------------------------------------------------------------------------
(***************************************************************************)
(* With one leader, the ExecutionLock does its work: LockInvariant is      *)
(* inductive, and the exclusion of operations of one target follows.       *)
(***************************************************************************)
Busy(c) == ctl[c].pc # "idle"

\* What a step of worker c leaves alone: everything of the operations that are
\* not the worker's, and every lock that another operation holds.
OnlyOwnOperation(c) ==
    /\ \A d \in Ctrls \ {c} : ctl'[d] = ctl[d]
    /\ ctl'[c] = IdleWorker \/ ctl'[c].op = ctl[c].op
    /\ \A p \in Ops \ {ctl[c].op} :
          /\ ops'[p] = ops[p] /\ clock'[p] = clock[p]
          /\ \A g \in Targets : lock[g].holder = p => lock'[g].holder = p
          /\ \A t \in DOMAIN tasks' : t.op = p => t \in DOMAIN tasks /\ tasks'[t] = tasks[t]

\* Then the other workers know what they knew, and no operation gets a second
\* worker.
LEMMA OthersKnow ==
    ASSUME TypeInv, LockInvariant, NEW c \in Ctrls, Busy(c), OnlyOwnOperation(c)
    PROVE  /\ OneWorkerPerOperation'
           /\ \A d \in Ctrls \ {c} : WorkerKnows(ctl[d])'
<1>t. WorkersTyped /\ ctl[c].op \in Ops
  BY TypeInvParts, BusyWorkerTyped DEF Busy
<1>o. \A d \in Ctrls \ {c} : ctl[d].op # ctl[c].op
  BY DEF LockInvariant, OneWorkerPerOperation, At, Busy
<1>n. \A d \in Ctrls : ctl[d].pc # "idle" => ctl[d].op \in Ops
  BY <1>t, BusyWorkerTyped
<1>1. OneWorkerPerOperation'
  <2> SUFFICES ASSUME NEW a \in Ctrls, NEW b \in Ctrls, a # b, ctl'[a].pc # "idle"
               PROVE  ctl'[a].op # ctl'[b].op
    BY DEF OneWorkerPerOperation, At
  <2>1. CASE a # c /\ b # c
    BY <2>1 DEF OnlyOwnOperation, LockInvariant, OneWorkerPerOperation, At
  <2>2. CASE a = c
    <3>1. ctl'[a].op = ctl[c].op /\ ctl'[b] = ctl[b]
      BY <2>2 DEF OnlyOwnOperation, IdleWorker
    <3> QED
      BY <1>o, <2>2, <3>1
  <2>3. CASE b = c
    <3>1. ctl'[a] = ctl[a] /\ ctl[a].op \in Ops /\ ctl[a].op # ctl[c].op
      BY <1>o, <1>n, <2>3 DEF OnlyOwnOperation
    <3>2. ctl'[b].op \in {NoOp, ctl[c].op}
      BY <2>3 DEF OnlyOwnOperation, IdleWorker
    <3> QED
      BY <3>1, <3>2, ConstantsAssumption
  <2> QED
    BY <2>1, <2>2, <2>3
<1>2. ASSUME NEW d \in Ctrls \ {c}
      PROVE  WorkerKnows(ctl[d])'
  <2>1. ctl'[d] = ctl[d] /\ WorkerKnows(ctl[d])
    BY DEF OnlyOwnOperation, LockInvariant
  <2>2. CASE ctl[d].pc = "idle"
    BY <2>1, <2>2 DEF WorkerKnows
  <2>3. CASE ctl[d].pc # "idle"
    <3> DEFINE p == ctl[d].op
    <3>1. p \in Ops \ {ctl[c].op} /\ TargetOf[p] \in Targets
      BY <1>o, <1>n, <2>3, ConstantsAssumption
    <3>2. /\ ops'[p] = ops[p] /\ clock'[p] = clock[p]
          /\ lock[TargetOf[p]].holder = p => lock'[TargetOf[p]].holder = p
      BY <3>1 DEF OnlyOwnOperation
    <3>3. ActiveTasksOf(p) = {} => \A t \in DOMAIN tasks' :
                                      t.op = p => tasks'[t].phase \notin ActivePhases
      BY <3>1 DEF OnlyOwnOperation, ActiveTasksOf, Active
    <3> QED
      BY <2>1, <2>3, <3>2, <3>3 DEF WorkerKnows, Terminal, ActiveTasksOf, Active
  <2> QED
    BY <2>2, <2>3
<1> QED
  BY <1>1, <1>2

-----------------------------------------------------------------------------
(***************************************************************************)
(* The kinds of steps a worker takes.                                      *)
(***************************************************************************)

\* The store does not change; the worker moves on with its operation.
LEMMA MoveKeeps ==
    ASSUME TypeInv, LockInvariant, NEW c \in Ctrls, Busy(c),
           UNCHANGED <<storeVars, clock, retrying, exec>>,
           NEW w, Become(c, w), w = IdleWorker \/ w.op = ctl[c].op, WorkerKnows(w)
    PROVE  LockInvariant'
<1>1. ctl'[c] = w /\ \A d \in Ctrls \ {c} : ctl'[d] = ctl[d]
  BY TypeInvParts DEF Become, WorkersTyped, ControllerTypeOK
<1>2. OnlyOwnOperation(c)
  BY <1>1 DEF OnlyOwnOperation, storeVars
<1>3. WorkerKnows(ctl[c])'
  BY <1>1 DEF WorkerKnows, storeVars, Terminal, ActiveTasksOf, Active
<1>4. (\A d \in Ctrls : WorkerKnows(ctl[d])) /\ OneWorkerPerOperation'
      /\ \A d \in Ctrls : WorkerKnows(ctl[d])'
  BY <1>2, <1>3, OthersKnow DEF LockInvariant
<1>5. RetryRevisions' /\ ActiveOnlyWhileRunning' /\ RunningHoldsLock' /\ CommandsInStep'
  BY DEF LockInvariant, storeVars, RetryRevisions, ActiveOnlyWhileRunning,
         RunningHoldsLock, CommandsInStep, Terminal, Active, Executing
<1> QED
  BY <1>4, <1>5 DEF LockInvariant

\* The fields of an idle worker that WorkerKnows speaks of.
LEMMA IdleFields ==
    /\ IdleWorker.pc = "idle" /\ IdleWorker.todo = {} /\ DOMAIN IdleWorker.view = {}
    /\ ~RetryRequested(IdleWorker.snap)
<1>1. DOMAIN NoTasks = {}
  BY DEF NoTasks
<1>2. ~RetryRequested(AbsentOperation)
  BY DEF RetryRequested, AbsentOperation
<1> QED
  BY <1>1, <1>2 DEF IdleWorker

\* An idle worker relies on nothing.
LEMMA IdleKnows == WorkerKnows(IdleWorker)
BY IdleFields DEF WorkerKnows

\* The worker acquires the lock of its operation's target.
LEMMA AcquireKeeps ==
    ASSUME TypeInv, LockInvariant, NEW c \in Ctrls, Busy(c),
           UNCHANGED <<clock, retrying, exec>>,
           CanAcquireLock(ctl[c].op), AcquireLock(ctl[c].op),
           NEW w, Become(c, w), w = IdleWorker \/ w.op = ctl[c].op,
           w = IdleWorker \/ lock'[TargetOf[w.op]].holder = w.op => WorkerKnows(w)'
    PROVE  LockInvariant'
<1> DEFINE o == ctl[c].op
           g == TargetOf[o]
<1>t. o \in Ops /\ g \in Targets /\ lock \in [Targets -> Lock]
  BY TypeInvParts, BusyWorkerTyped, ConstantsAssumption DEF Busy, StoreTyped, StoreTypeOK
<1>1. ctl'[c] = w /\ \A d \in Ctrls \ {c} : ctl'[d] = ctl[d]
  BY TypeInvParts DEF Become, WorkersTyped, ControllerTypeOK
<1>2. /\ UNCHANGED <<ops, tasks, opRev>>
      /\ lock'[g].holder = o
      /\ lock[g].holder \in {NoOp, o}
      /\ \A h \in Targets : h # g => lock'[h] = lock[h]
  BY <1>t DEF AcquireLock, CanAcquireLock, Lock
<1>3. OnlyOwnOperation(c)
  BY <1>t, <1>1, <1>2, ConstantsAssumption DEF OnlyOwnOperation
<1>4. WorkerKnows(ctl[c])'
  BY <1>1, <1>2 DEF WorkerKnows
<1>5. OneWorkerPerOperation' /\ \A d \in Ctrls : WorkerKnows(ctl[d])'
  BY <1>3, <1>4, OthersKnow
<1>6. RetryRevisions' /\ ActiveOnlyWhileRunning' /\ CommandsInStep'
  BY <1>2 DEF LockInvariant, RetryRevisions, ActiveOnlyWhileRunning,
              CommandsInStep, Terminal, Active, Executing
<1>7. RunningHoldsLock'
  BY <1>t, <1>2, ConstantsAssumption DEF LockInvariant, RunningHoldsLock
<1> QED
  BY <1>5, <1>6, <1>7 DEF LockInvariant

\* The worker releases the lock of its operation, which is not running.
LEMMA ReleaseKeeps ==
    ASSUME TypeInv, LockInvariant, NEW c \in Ctrls, Busy(c),
           UNCHANGED <<clock, retrying, exec>>,
           NEW uid, ReleaseLock(ctl[c].op, uid), ops[ctl[c].op].phase # "Running",
           NEW w, Become(c, w), w = IdleWorker \/ w.op = ctl[c].op,
           w.pc # "start", WorkerKnows(w)
    PROVE  LockInvariant'
<1> DEFINE o == ctl[c].op
           g == TargetOf[o]
<1>t. o \in Ops /\ g \in Targets /\ lock \in [Targets -> Lock]
  BY TypeInvParts, BusyWorkerTyped, ConstantsAssumption DEF Busy, StoreTyped, StoreTypeOK
<1>1. ctl'[c] = w /\ \A d \in Ctrls \ {c} : ctl'[d] = ctl[d]
  BY TypeInvParts DEF Become, WorkersTyped, ControllerTypeOK
<1>2. /\ UNCHANGED <<ops, tasks, opRev>>
      /\ lock'[g] = lock[g] \/ lock[g].holder = o
      /\ \A h \in Targets : h # g => lock'[h] = lock[h]
  BY <1>t DEF ReleaseLock, HoldsLock, Lock
<1>3. OnlyOwnOperation(c)
  BY <1>t, <1>1, <1>2 DEF OnlyOwnOperation
<1>4. WorkerKnows(ctl[c])'
  BY <1>1, <1>2 DEF WorkerKnows, Terminal, ActiveTasksOf, Active
<1>5. OneWorkerPerOperation' /\ \A d \in Ctrls : WorkerKnows(ctl[d])'
  BY <1>3, <1>4, OthersKnow
<1>6. RetryRevisions' /\ ActiveOnlyWhileRunning' /\ CommandsInStep'
  BY <1>2 DEF LockInvariant, RetryRevisions, ActiveOnlyWhileRunning,
              CommandsInStep, Terminal, Active, Executing
<1>7. RunningHoldsLock'
  BY <1>t, <1>2, ConstantsAssumption DEF LockInvariant, RunningHoldsLock
<1> QED
  BY <1>5, <1>6, <1>7 DEF LockInvariant

\* The worker writes the status of its operation.
LEMMA StatusKeeps ==
    ASSUME TypeInv, LockInvariant, NEW c \in Ctrls, Busy(c), UNCHANGED <<retrying, exec>>,
           NEW new \in Operation, new.gen = new.observed,
           UpdateOperationStatus(ctl[c].op, new),
           clock' = clock \/ clock' = [clock EXCEPT ![ctl[c].op] = 0],
           new.phase = "Running" => /\ lock[TargetOf[ctl[c].op]].holder = ctl[c].op
                                    /\ clock'[ctl[c].op] = 0,
           new.phase # "Running" => ActiveTasksOf(ctl[c].op) = {},
           \/ Done(c)
           \/ Goto(c, "release") /\ new.phase \in TerminalPhases
    PROVE  LockInvariant'
<1> DEFINE o == ctl[c].op
<1>t. /\ o \in Ops /\ ops \in [Ops -> Operation] /\ clock \in [Ops -> 0..2]
      /\ opRev \in Nat /\ retrying \in [Ops -> Nat] /\ StoreTypeOK
  BY TypeInvParts, BusyWorkerTyped DEF Busy, StoreTyped, StoreTypeOK, APITypeOK
<1>1. UNCHANGED <<tasks, lock>> /\ opRev' = opRev + 1
      /\ ops' = [ops EXCEPT ![o] = [new EXCEPT !.rv = opRev + 1]]
  BY DEF UpdateOperationStatus, WriteOperation
<1>2. /\ \A p \in Ops \ {o} : ops'[p] = ops[p] /\ clock'[p] = clock[p]
      /\ ops'[o].phase = new.phase /\ ops'[o].rv = opRev + 1
      /\ ops'[o].gen = new.gen /\ ops'[o].observed = new.observed
  BY <1>t, <1>1 DEF Operation
<1>3. /\ \A d \in Ctrls \ {c} : ctl'[d] = ctl[d]
      /\ \/ ctl'[c] = IdleWorker
         \/ ctl'[c] = [ctl[c] EXCEPT !.pc = "release"] /\ new.phase \in TerminalPhases
  BY TypeInvParts DEF Done, Goto, Become, WorkersTyped, ControllerTypeOK
<1>w. ctl[c] \in [pc : Pcs, op : Ops \cup {NoOp}, snap : Operation, view : {ctl[c].view},
                  todo : SUBSET TaskId, goal : Goal, lockUID : Nat]
  BY TypeInvParts DEF WorkersTyped, ControllerTypeOK, WorkerOK
<1>4. OnlyOwnOperation(c)
  BY <1>1, <1>2, <1>3, <1>w DEF OnlyOwnOperation
<1>5. WorkerKnows(ctl[c])'
  <2>1. CASE ctl'[c] = IdleWorker
    BY <2>1, IdleFields DEF WorkerKnows
  <2>2. CASE ctl'[c] = [ctl[c] EXCEPT !.pc = "release"] /\ new.phase \in TerminalPhases
    <3>1. /\ ctl'[c].pc = "release" /\ ctl'[c].op = o /\ ctl'[c].snap = ctl[c].snap
          /\ ctl'[c].todo = ctl[c].todo /\ ctl'[c].view = ctl[c].view
      BY <1>w, <2>2
    <3>2. WorkerKnows(ctl[c])
      BY DEF LockInvariant
    <3> QED
      BY <1>2, <2>2, <3>1, <3>2 DEF WorkerKnows, Terminal
  <2> QED
    BY <1>3, <2>1, <2>2
<1>6. OneWorkerPerOperation' /\ \A d \in Ctrls : WorkerKnows(ctl[d])'
  BY <1>4, <1>5, OthersKnow
<1>7. RetryRevisions'
  <2> SUFFICES ASSUME NEW p \in Ops
               PROVE  /\ ops'[p].rv <= opRev' /\ retrying'[p] <= opRev'
                      /\ retrying'[p] # 0 /\ retrying'[p] = ops'[p].rv =>
                            ops'[p].phase \in TerminalPhases
                      /\ RetryRequested(ops'[p]) => ops'[p].phase \in TerminalPhases
    BY DEF RetryRevisions, Terminal
  <2>1. /\ ops[p].rv <= opRev /\ retrying[p] <= opRev
        /\ retrying[p] # 0 /\ retrying[p] = ops[p].rv => ops[p].phase \in TerminalPhases
        /\ RetryRequested(ops[p]) => ops[p].phase \in TerminalPhases
    BY DEF LockInvariant, RetryRevisions, Terminal
  <2>2. ops[p].rv \in Nat /\ retrying[p] \in Nat /\ retrying'[p] = retrying[p]
    BY <1>t DEF Operation
  <2>3. CASE p # o
    BY <1>t, <1>1, <1>2, <2>1, <2>2, <2>3
  <2>4. CASE p = o
    <3>1. new.gen \in Nat /\ ~RetryRequested(ops'[p])
      BY <1>2, <2>4 DEF Operation, RetryRequested
    <3> QED
      BY <1>t, <1>1, <1>2, <2>1, <2>2, <2>4, <3>1
  <2> QED
    BY <2>3, <2>4
<1>8. ActiveOnlyWhileRunning'
  <2> SUFFICES ASSUME NEW t \in DOMAIN tasks, tasks[t].phase \in ActivePhases
               PROVE  ops'[t.op].phase = "Running"
    BY <1>1 DEF ActiveOnlyWhileRunning, Active
  <2>1. t.op \in Ops /\ ops[t.op].phase = "Running"
    BY <1>t DEF LockInvariant, ActiveOnlyWhileRunning, Active, StoreTypeOK, IsTaskMap, TaskId
  <2>2. t.op = o => new.phase = "Running"
    BY DEF ActiveTasksOf, Active
  <2> QED
    BY <1>2, <2>1, <2>2
<1>9. RunningHoldsLock'
  BY <1>t, <1>1, <1>2 DEF LockInvariant, RunningHoldsLock
<1>10. CommandsInStep'
  BY <1>t, <1>1, <1>2 DEF LockInvariant, CommandsInStep, Executing
<1> QED
  BY <1>6, <1>7, <1>8, <1>9, <1>10 DEF LockInvariant

\* One iteration of a loop over tasks leaves the worker with what it knew.
LEMMA NextOfKnows ==
    ASSUME TypeInv, LockInvariant, NEW c \in Ctrls,
           ctl[c].pc \in {"cancel", "timeout", "create"},
           NEW t, NextOf(c, t), UNCHANGED <<ops, lock, clock>>
    PROVE  /\ \A d \in Ctrls \ {c} : ctl'[d] = ctl[d]
           /\ ctl'[c] = IdleWorker \/ ctl'[c].op = ctl[c].op
           /\ WorkerKnows(ctl[c])'
<1>w. ctl[c] \in [pc : Pcs, op : Ops \cup {NoOp}, snap : Operation, view : {ctl[c].view},
                  todo : SUBSET TaskId, goal : Goal, lockUID : Nat]
  BY TypeInvParts DEF WorkersTyped, ControllerTypeOK, WorkerOK
<1>1. /\ \A d \in Ctrls \ {c} : ctl'[d] = ctl[d]
      /\ ctl'[c] = IdleWorker \/ ctl'[c] = [ctl[c] EXCEPT !.todo = ctl[c].todo \ {t}]
  BY TypeInvParts DEF NextOf, Done, Become, WorkersTyped, ControllerTypeOK
<1>2. CASE ctl'[c] = IdleWorker
  BY <1>1, <1>2, IdleFields DEF WorkerKnows
<1>3. CASE ctl'[c] = [ctl[c] EXCEPT !.todo = ctl[c].todo \ {t}]
  <2>1. /\ ctl'[c].pc = ctl[c].pc /\ ctl'[c].op = ctl[c].op
        /\ ctl'[c].snap = ctl[c].snap /\ ctl'[c].view = ctl[c].view
        /\ ctl'[c].todo \subseteq ctl[c].todo
    BY <1>w, <1>3
  <2>2. WorkerKnows(ctl[c])
    BY DEF LockInvariant
  <2>3. WorkerKnows(ctl[c])'
    BY <2>1, <2>2 DEF WorkerKnows
  <2> QED
    BY <1>1, <2>1, <2>3
<1> QED
  BY <1>1, <1>2, <1>3

\* cancelPending and the timeout loop end a task of the worker's operation.
LEMMA TerminateKeeps ==
    ASSUME TypeInv, LockInvariant, NEW c \in Ctrls,
           NEW t \in ctl[c].todo, NEW expected, NEW phase \in TerminalPhases,
           \/ ctl[c].pc = "cancel" /\ expected = "Pending"
           \/ ctl[c].pc = "timeout" /\ expected = "Running",
           CanUpdateTask(t, expected), UpdateTask(t, phase, FALSE), NextOf(c, t),
           UNCHANGED <<clock, retrying, exec>>
    PROVE  LockInvariant'
<1> DEFINE o == ctl[c].op
<1>t. StoreTypeOK /\ o \in Ops /\ Busy(c)
  BY TypeInvParts, BusyWorkerTyped DEF Busy, StoreTyped
<1>k. WorkerKnows(ctl[c]) /\ t.op = o
  BY DEF LockInvariant, WorkerKnows
<1>1. /\ UNCHANGED <<ops, lock, opRev>> /\ t \in DOMAIN tasks
      /\ DOMAIN tasks' = DOMAIN tasks /\ tasks[t].phase = expected
      /\ \A u \in DOMAIN tasks : u # t => tasks'[u] = tasks[u]
  BY DEF UpdateTask, CanUpdateTask
<1>2. tasks'[t].phase = phase
  <2>1. tasks[t] \in OperationTask
    BY <1>t, <1>1 DEF StoreTypeOK, IsTaskMap
  <2> QED
    BY <1>1, <2>1 DEF UpdateTask, OperationTask
<1>3. /\ \A d \in Ctrls \ {c} : ctl'[d] = ctl[d]
      /\ ctl'[c] = IdleWorker \/ ctl'[c].op = ctl[c].op
      /\ WorkerKnows(ctl[c])'
  BY <1>1, NextOfKnows
<1>4. OnlyOwnOperation(c)
  BY <1>k, <1>1, <1>3 DEF OnlyOwnOperation
<1>5. OneWorkerPerOperation' /\ \A d \in Ctrls : WorkerKnows(ctl[d])'
  BY <1>t, <1>3, <1>4, OthersKnow
<1>6. RetryRevisions' /\ RunningHoldsLock'
  BY <1>1 DEF LockInvariant, RetryRevisions, RunningHoldsLock, Terminal
<1>7. ActiveOnlyWhileRunning'
  <2>1. phase \notin ActivePhases
    BY DEF TerminalPhases, ActivePhases
  <2> QED
    BY <1>1, <1>2, <2>1 DEF LockInvariant, ActiveOnlyWhileRunning, Active
<1>8. CommandsInStep'
  <2> SUFFICES ASSUME ClockSync
               PROVE  CommandsInStep'
    BY DEF CommandsInStep
  <2>1. \A n \in Nodes : t \notin exec[n]
    <3>1. CASE expected = "Pending"
      BY <1>1, <3>1 DEF LockInvariant, CommandsInStep
    <3>2. CASE ctl[c].pc = "timeout"
      <4>1. ops[o].phase = "Running" /\ clock[o] = 2
        BY <1>k, <3>2 DEF WorkerKnows
      <4>2. ~Executing(o)
        BY <1>t, <4>1 DEF LockInvariant, CommandsInStep
      <4> QED
        BY <1>k, <4>2 DEF Executing
    <3> QED
      BY <3>1, <3>2
  <2> QED
    BY <1>1, <2>1 DEF LockInvariant, CommandsInStep, Executing
<1> QED
  BY <1>5, <1>6, <1>7, <1>8 DEF LockInvariant

\* createAttempts creates a task of the worker's operation, which is running.
LEMMA CreateKeeps ==
    ASSUME TypeInv, LockInvariant, NEW c \in Ctrls, ctl[c].pc = "create",
           NEW t \in ctl[c].todo, CreateTask(t, ctl[c].snap.deadline), NextOf(c, t),
           UNCHANGED <<clock, retrying, exec>>
    PROVE  LockInvariant'
<1> DEFINE o == ctl[c].op
<1>t. StoreTypeOK /\ o \in Ops /\ Busy(c)
  BY TypeInvParts, BusyWorkerTyped DEF Busy, StoreTyped
<1>k. t.op = o /\ ops[o].phase = "Running"
  BY DEF LockInvariant, WorkerKnows
<1>1. /\ UNCHANGED <<ops, lock, opRev>>
      /\ DOMAIN tasks' = DOMAIN tasks \cup {t}
      /\ \A u \in DOMAIN tasks : tasks'[u] = tasks[u]
  BY DEF CreateTask
<1>3. /\ \A d \in Ctrls \ {c} : ctl'[d] = ctl[d]
      /\ ctl'[c] = IdleWorker \/ ctl'[c].op = ctl[c].op
      /\ WorkerKnows(ctl[c])'
  BY <1>1, NextOfKnows
<1>4. OnlyOwnOperation(c)
  BY <1>k, <1>1, <1>3 DEF OnlyOwnOperation
<1>5. OneWorkerPerOperation' /\ \A d \in Ctrls : WorkerKnows(ctl[d])'
  BY <1>t, <1>3, <1>4, OthersKnow
<1>6. RetryRevisions' /\ RunningHoldsLock'
  BY <1>1 DEF LockInvariant, RetryRevisions, RunningHoldsLock, Terminal
<1>7. ActiveOnlyWhileRunning'
  BY <1>k, <1>1 DEF LockInvariant, ActiveOnlyWhileRunning, Active
<1>8. CommandsInStep'
  BY <1>1 DEF LockInvariant, CommandsInStep, Executing
<1> QED
  BY <1>5, <1>6, <1>7, <1>8 DEF LockInvariant

-----------------------------------------------------------------------------
(***************************************************************************)
(* Every step of a Reconcile preserves LockInvariant.                      *)
(***************************************************************************)
LEMMA DoneKeeps ==
    ASSUME TypeInv, LockInvariant, NEW c \in Ctrls, Busy(c), Done(c),
           UNCHANGED <<storeVars, clock, retrying, exec>>
    PROVE  LockInvariant'
BY MoveKeeps, IdleKnows DEF Done

\* A status write that may be refused.
LEMMA WriteStatusKeeps ==
    ASSUME TypeInv, LockInvariant, NEW c \in Ctrls, Busy(c), Done(c),
           UNCHANGED <<retrying, exec>>,
           NEW new \in Operation, new.gen = new.observed, WriteStatus(c, new),
           clock' = IF CanUpdateStatus(ctl[c].op, ctl[c].snap, new) /\ new.phase = "Running"
                    THEN [clock EXCEPT ![ctl[c].op] = 0] ELSE clock,
           new.phase = "Running" => lock[TargetOf[ctl[c].op]].holder = ctl[c].op,
           new.phase # "Running" => ActiveTasksOf(ctl[c].op) = {}
    PROVE  LockInvariant'
<1>1. CASE CanUpdateStatus(ctl[c].op, ctl[c].snap, new)
  <2>1. ctl[c].op \in Ops /\ clock \in [Ops -> 0..2]
    BY TypeInvParts, BusyWorkerTyped DEF Busy, StoreTyped, StoreTypeOK
  <2>2. UpdateOperationStatus(ctl[c].op, new)
    BY <1>1 DEF WriteStatus
  <2>3. new.phase = "Running" => clock'[ctl[c].op] = 0
    BY <1>1, <2>1
  <2> QED
    BY <1>1, <2>2, <2>3, StatusKeeps
<1>2. CASE ~CanUpdateStatus(ctl[c].op, ctl[c].snap, new)
  BY <1>2, DoneKeeps DEF WriteStatus
<1> QED
  BY <1>1, <1>2

\* The worker's record has its fields, and it knows what LockInvariant says.
LEMMA WorkerFacts ==
    ASSUME TypeInv, LockInvariant, NEW c \in Ctrls, Busy(c)
    PROVE  /\ ctl[c] \in [pc : Pcs, op : Ops, snap : Operation, view : {ctl[c].view},
                          todo : SUBSET TaskId, goal : Goal, lockUID : Nat]
           /\ IsTaskMap(ctl[c].view) /\ AttemptsBounded(ctl[c].view)
           /\ WorkerKnows(ctl[c])
BY TypeInvParts, BusyWorkerTyped
   DEF Busy, WorkersTyped, ControllerTypeOK, WorkerOK, WorkerTyped, LockInvariant

\* A worker that moves on with its snapshot, its tasks and its goal, to a program
\* counter that asks for no more than it knows.
LEMMA GotoKeeps ==
    ASSUME TypeInv, LockInvariant, NEW c \in Ctrls, Busy(c),
           UNCHANGED <<storeVars, clock, retrying, exec>>,
           NEW pc \in Pcs, Goto(c, pc),
           WorkerKnows([ctl[c] EXCEPT !.pc = pc])
    PROVE  LockInvariant'
<1>1. [ctl[c] EXCEPT !.pc = pc].op = ctl[c].op
  BY WorkerFacts
<1> QED
  BY <1>1, MoveKeeps DEF Goto

\* The steps that only read.
LEMMA ReadStepsKeep ==
    ASSUME TypeInv, LockInvariant, NEW c \in Ctrls, UNCHANGED <<retrying, exec>>,
           \/ ListTasks(c) \/ ListOperations(c) \/ RetryStillLatest(c)
           \/ FinishList(c) \/ GetLock(c)
    PROVE  LockInvariant'
<1>b. Busy(c)
  BY DEF Busy, At, ListTasks, ListOperations, RetryStillLatest, FinishList, GetLock
<1>w. /\ ctl[c] \in [pc : Pcs, op : Ops, snap : Operation, view : {ctl[c].view},
                      todo : SUBSET TaskId, goal : Goal, lockUID : Nat]
      /\ WorkerKnows(ctl[c])
  BY <1>b, WorkerFacts
<1>u. UNCHANGED <<storeVars, clock, retrying, exec>>
  BY DEF ListTasks, ListOperations, RetryStillLatest, FinishList, GetLock
<1>n. DOMAIN NoTasks = {}
  BY DEF NoTasks
<1>1. CASE ListTasks(c)
  <2> DEFINE v == [ctl[c] EXCEPT !.view = TasksOf(ctl[c].op)]
             v1 == [v EXCEPT !.pc = "listOps"]
             v2 == [v EXCEPT !.pc = "getLock", !.todo = {}, !.goal = NoGoal,
                             !.view = NoTasks]
  <2>1. \A t \in DOMAIN TasksOf(ctl[c].op) : t.op = ctl[c].op
    BY DEF TasksOf
  <2>2. v.snap = ctl[c].snap /\ ctl[c].pc = "listTasks"
    BY <1>w, <1>1 DEF ListTasks, At
  <2>3. \/ Become(c, v1)
        \/ Done(c)
        \/ Become(c, v2) /\ ctl[c].snap.phase \in TerminalPhases
    BY <1>1, <2>2 DEF ListTasks, Follow, Return, Loop, Done
  <2>4. WorkerKnows(v1) /\ v1.op = ctl[c].op
    BY <1>w, <2>1, <2>2 DEF WorkerKnows
  <2>5. ctl[c].snap.phase \in TerminalPhases => WorkerKnows(v2) /\ v2.op = ctl[c].op
    BY <1>w, <1>n, <2>2 DEF WorkerKnows
  <2> HIDE DEF v1, v2
  <2> QED
    BY <1>b, <1>u, <2>3, <2>4, <2>5, MoveKeeps, DoneKeeps
<1>2. CASE ListOperations(c)
  <2> DEFINE v1 == [ctl[c] EXCEPT !.pc = "skipRetry", !.todo = {}, !.goal = NoGoal,
                                  !.view = NoTasks]
             v2 == [ctl[c] EXCEPT !.pc = "finishList", !.todo = {},
                          !.goal = [phase |-> "Canceled", reason |-> "CancelledByRequest"],
                          !.view = NoTasks]
             v3 == [ctl[c] EXCEPT !.pc = "acquire"]
  <2>1. ctl[c].pc = "listOps"
    BY <1>2 DEF ListOperations, At
  <2>2. \/ Become(c, v1) /\ RetryRequested(ctl[c].snap)
        \/ Become(c, v2) \/ Become(c, v3) \/ Done(c)
    BY <1>2 DEF ListOperations, Follow, Loop, Finish, Done, Goto
  <2>3. RetryRequested(ctl[c].snap) => WorkerKnows(v1)
    BY <1>w, <1>n, <2>1 DEF WorkerKnows
  <2>4. WorkerKnows(v2)
    BY <1>w, <1>n, <2>1 DEF WorkerKnows, TerminalPhases
  <2>5. WorkerKnows(v3)
    BY <1>w, <2>1 DEF WorkerKnows
  <2>6. v1.op = ctl[c].op /\ v2.op = ctl[c].op /\ v3.op = ctl[c].op
    BY <1>w
  <2> HIDE DEF v1, v2, v3
  <2> QED
    BY <1>b, <1>u, <2>2, <2>3, <2>4, <2>5, <2>6, MoveKeeps, DoneKeeps
<1>3. CASE RetryStillLatest(c)
  <2>1. ctl[c].pc = "relist" /\ (Goto(c, "reopen") \/ Goto(c, "unlock"))
    BY <1>3 DEF RetryStillLatest, At
  <2>2. /\ WorkerKnows([ctl[c] EXCEPT !.pc = "reopen"])
        /\ WorkerKnows([ctl[c] EXCEPT !.pc = "unlock"])
    BY <1>w, <2>1 DEF WorkerKnows
  <2> QED
    BY <1>b, <1>u, <2>1, <2>2, GotoKeeps DEF Pcs
<1>4. CASE FinishList(c)
  <2>1. /\ ctl[c].pc = "finishList"
        /\ \/ Done(c)
           \/ Goto(c, "finishWrite") /\ ActiveTasks(TasksOf(ctl[c].op)) = {}
    BY <1>4 DEF FinishList, At
  <2>2. ActiveTasks(TasksOf(ctl[c].op)) = {} => ActiveTasksOf(ctl[c].op) = {}
    BY DEF ActiveTasks, TasksIn, TasksOf, ActiveTasksOf, Active
  <2>3. ActiveTasksOf(ctl[c].op) = {} => WorkerKnows([ctl[c] EXCEPT !.pc = "finishWrite"])
    BY <1>w, <2>1 DEF WorkerKnows
  <2> QED
    BY <1>b, <1>u, <2>1, <2>2, <2>3, GotoKeeps, DoneKeeps DEF Pcs
<1>5. CASE GetLock(c)
  <2> DEFINE v == [ctl[c] EXCEPT !.pc = "release",
                                 !.lockUID = lock[TargetOf[ctl[c].op]].uid]
  <2>1. ctl[c].pc = "getLock" /\ (Become(c, v) \/ Done(c))
    BY <1>5 DEF GetLock, At
  <2>2. WorkerKnows(v) /\ v.op = ctl[c].op
    BY <1>w, <2>1 DEF WorkerKnows, Terminal
  <2> HIDE DEF v
  <2> QED
    BY <1>b, <1>u, <2>1, <2>2, MoveKeeps, DoneKeeps
<1> QED
  BY <1>1, <1>2, <1>3, <1>4, <1>5

\* Acquiring the lock: what the decision promises is what the worker must know.
LEMMA AcquireStepKeeps ==
    ASSUME TypeInv, LockInvariant, NEW c \in Ctrls, UNCHANGED <<retrying, exec>>,
           AcquireLockStep(c)
    PROVE  LockInvariant'
<1>b. Busy(c) /\ ctl[c].pc = "acquire" /\ UNCHANGED clock
  BY DEF Busy, At, AcquireLockStep
<1>w. /\ ctl[c] \in [pc : Pcs, op : Ops, snap : Operation, view : {ctl[c].view},
                      todo : SUBSET TaskId, goal : Goal, lockUID : Nat]
      /\ IsTaskMap(ctl[c].view) /\ AttemptsBounded(ctl[c].view)
      /\ WorkerKnows(ctl[c])
  BY <1>b, WorkerFacts
<1>1. CASE ~CanAcquireLock(ctl[c].op)
  BY <1>1, <1>b, DoneKeeps DEF AcquireLockStep
<1>2. CASE CanAcquireLock(ctl[c].op)
  <2> DEFINE v == [ctl[c] EXCEPT !.lockUID = lock'[TargetOf[ctl[c].op]].uid]
             d == ReconcileLocked(v.op, v.snap, v.view, clock[v.op])
             next == IF d.pc = "idle" THEN IdleWorker
                     ELSE [v EXCEPT !.pc = d.pc, !.todo = d.todo, !.goal = d.goal,
                                    !.view = NoTasks]
  <2>1. AcquireLock(ctl[c].op) /\ Become(c, next)
    BY <1>2 DEF AcquireLockStep, Follow
  <2>2. v.op = ctl[c].op /\ v.snap = ctl[c].snap /\ v.view = ctl[c].view
    BY <1>w
  <2>3. clock[ctl[c].op] \in 0..2
    BY <1>w, TypeInvParts DEF StoreTyped, StoreTypeOK
  <2>4. DecisionSound(ctl[c].op, ctl[c].snap, ctl[c].view, clock[ctl[c].op], d)
    BY <1>w, <2>2, <2>3, ReconcileLockedSound
  <2>5. UNCHANGED <<ops, tasks>>
    BY <2>1 DEF AcquireLock
  <2>6. PICK w : w = next
    OBVIOUS
  <2>7. w = IdleWorker \/ w.op = ctl[c].op
    BY <1>w, <2>6
  <2>8. ASSUME d.pc # "idle", lock'[TargetOf[w.op]].holder = w.op
        PROVE  WorkerKnows(w)'
    <3>1. /\ w.pc = d.pc /\ w.op = ctl[c].op /\ w.snap = ctl[c].snap
          /\ w.todo = d.todo /\ w.goal = d.goal /\ w.view = NoTasks
      BY <1>w, <2>6, <2>8
    <3> HIDE DEF next, d
    <3>2. DOMAIN NoTasks = {}
      BY DEF NoTasks
    <3>3. /\ d.pc \in DecisionPcs
          /\ \A t \in d.todo : t.op = ctl[c].op
          /\ d.pc = "relist" => ctl[c].snap.phase \in TerminalPhases
          /\ d.pc \in {"create", "timeout", "finishList"} => ctl[c].snap.phase = "Running"
          /\ d.pc = "timeout" => clock[ctl[c].op] = 2
          /\ d.pc = "finishList" => d.goal.phase \in TerminalPhases
      BY <1>w, <2>3, <2>4 DEF DecisionSound, WorkerKnows
    <3>4. /\ RetryRequested(ctl[c].snap) => ctl[c].snap.phase \in TerminalPhases
          /\ ops[ctl[c].op].phase = ctl[c].snap.phase /\ ctl[c].snap.phase # "Absent"
      BY <1>b, <1>w DEF WorkerKnows
    <3> QED
      BY <1>b, <2>5, <2>8, <3>1, <3>2, <3>3, <3>4 DEF WorkerKnows, DecisionPcs
  <2>9. w = IdleWorker => WorkerKnows(w)'
    BY IdleFields DEF WorkerKnows
  <2>10. d.pc = "idle" => w = IdleWorker
    BY <2>6
  <2> HIDE DEF next, d
  <2> QED
    BY <1>2, <1>b, <2>1, <2>6, <2>7, <2>8, <2>9, <2>10, AcquireKeeps
<1> QED
  BY <1>1, <1>2

\* The steps that write the status of the operation or give the lock back.
LEMMA WriteStepsKeep ==
    ASSUME TypeInv, LockInvariant, NEW c \in Ctrls, UNCHANGED <<retrying, exec>>,
           \/ UnlockSkippedRetry(c) \/ SkipRetry(c) \/ ReopenForRetry(c)
           \/ StartOperation(c) \/ FinishWrite(c) \/ ReleaseTerminalLock(c)
    PROVE  LockInvariant'
<1>b. Busy(c)
  BY DEF Busy, At, UnlockSkippedRetry, SkipRetry, ReopenForRetry, StartOperation,
         FinishWrite, ReleaseTerminalLock
<1> DEFINE o == ctl[c].op
           op == ctl[c].snap
<1>w. /\ ctl[c] \in [pc : Pcs, op : Ops, snap : Operation, view : {ctl[c].view},
                      todo : SUBSET TaskId, goal : Goal, lockUID : Nat]
      /\ WorkerKnows(ctl[c])
  BY <1>b, WorkerFacts
<1>q. ops[o].phase # "Running" => ActiveTasksOf(o) = {}
  BY DEF LockInvariant, ActiveOnlyWhileRunning, ActiveTasksOf
<1>p. "Running" \notin TerminalPhases
  BY DEF TerminalPhases
<1>1. CASE UnlockSkippedRetry(c)
  <2>1. /\ ctl[c].pc = "unlock" /\ ReleaseLock(o, ctl[c].lockUID) /\ UNCHANGED clock
        /\ \/ Become(c, [ctl[c] EXCEPT !.pc = "skipRetry"])
           \/ Become(c, IdleWorker)
    BY <1>1 DEF UnlockSkippedRetry, At, Goto, Done
  <2>2. ops[o].phase # "Running"
    BY <1>w, <1>p, <2>1 DEF WorkerKnows
  <2>3. /\ WorkerKnows([ctl[c] EXCEPT !.pc = "skipRetry"])
        /\ [ctl[c] EXCEPT !.pc = "skipRetry"].op = o
        /\ [ctl[c] EXCEPT !.pc = "skipRetry"].pc # "start"
        /\ IdleWorker.pc # "start"
    BY <1>w, <2>1, IdleFields DEF WorkerKnows
  <2> QED
    BY <1>b, <2>1, <2>2, <2>3, IdleKnows, ReleaseKeeps
<1>2. CASE SkipRetry(c)
  <2> DEFINE new == [op EXCEPT !.observed = op.gen]
  <2>1. ctl[c].pc = "skipRetry" /\ WriteStatus(c, new) /\ Done(c) /\ UNCHANGED clock
    BY <1>2 DEF SkipRetry, At
  <2>2. new \in Operation /\ new.gen = new.observed /\ new.phase = op.phase
    BY <1>w DEF Operation
  <2>3. op.phase \in TerminalPhases /\ ops[o].phase = op.phase
    BY <1>w, <2>1 DEF WorkerKnows
  <2>4. new.phase # "Running" /\ ActiveTasksOf(o) = {}
    BY <1>q, <1>p, <2>2, <2>3
  <2> HIDE DEF new
  <2> QED
    BY <1>b, <2>1, <2>2, <2>4, WriteStatusKeeps
<1>3. CASE ReopenForRetry(c)
  <2> DEFINE new == [op EXCEPT !.phase = "Pending", !.reason = "",
                               !.observed = op.gen, !.deadline = NoDeadline]
  <2>1. ctl[c].pc = "reopen" /\ WriteStatus(c, new) /\ Done(c) /\ UNCHANGED clock
    BY <1>3 DEF ReopenForRetry, At
  <2>2. new \in Operation /\ new.gen = new.observed /\ new.phase = "Pending"
    BY <1>w DEF Operation, Phases, ActivePhases, Reasons
  <2>3. op.phase \in TerminalPhases /\ ops[o].phase = op.phase
    BY <1>w, <2>1 DEF WorkerKnows
  <2>4. new.phase # "Running" /\ ActiveTasksOf(o) = {}
    BY <1>q, <1>p, <2>2, <2>3
  <2> HIDE DEF new
  <2> QED
    BY <1>b, <2>1, <2>2, <2>4, WriteStatusKeeps
<1>4. CASE StartOperation(c)
  <2> DEFINE new == [op EXCEPT !.phase = "Running", !.observed = op.gen,
                               !.deadline = op.gen, !.reason = ""]
  <2>1. /\ ctl[c].pc = "start" /\ WriteStatus(c, new) /\ Done(c)
        /\ clock' = IF CanUpdateStatus(o, op, new)
                    THEN [clock EXCEPT ![o] = 0] ELSE clock
    BY <1>4 DEF StartOperation, At
  <2>2. new \in Operation /\ new.gen = new.observed /\ new.phase = "Running"
    BY <1>w DEF Operation, Phases, ActivePhases, Reasons
  <2>3. lock[TargetOf[o]].holder = o
    BY <1>w, <2>1 DEF WorkerKnows
  <2> HIDE DEF new
  <2> QED
    BY <1>b, <2>1, <2>2, <2>3, WriteStatusKeeps
<1>5. CASE FinishWrite(c)
  <2> DEFINE new == [op EXCEPT !.phase = ctl[c].goal.phase, !.reason = ctl[c].goal.reason,
                               !.observed = op.gen]
  <2>1. /\ ctl[c].pc = "finishWrite" /\ WriteStatus(c, new) /\ UNCHANGED clock
        /\ \/ Goto(c, "release") /\ CanUpdateStatus(o, op, new)
           \/ Done(c)
    BY <1>5 DEF FinishWrite, At
  <2>2. ctl[c].goal.phase \in TerminalPhases /\ ActiveTasksOf(o) = {}
    BY <1>w, <2>1 DEF WorkerKnows
  <2>3. /\ new \in Operation /\ new.gen = new.observed /\ new.phase # "Running"
        /\ new.phase \in TerminalPhases
    BY <1>w, <1>p, <2>2 DEF Operation, Goal, Phases
  <2> HIDE DEF new
  <2>4. CASE CanUpdateStatus(o, op, new)
    <3>1. UpdateOperationStatus(o, new)
      BY <2>1, <2>4 DEF WriteStatus
    <3> QED
      BY <1>b, <2>1, <2>2, <2>3, <3>1, StatusKeeps
  <2>5. CASE ~CanUpdateStatus(o, op, new)
    BY <1>b, <2>1, <2>5, DoneKeeps DEF WriteStatus
  <2> QED
    BY <2>4, <2>5
<1>6. CASE ReleaseTerminalLock(c)
  <2>1. /\ ctl[c].pc = "release" /\ ReleaseLock(o, ctl[c].lockUID) /\ UNCHANGED clock
        /\ Become(c, IdleWorker)
    BY <1>6 DEF ReleaseTerminalLock, At, Done
  <2>2. ops[o].phase # "Running" /\ IdleWorker.pc # "start"
    BY <1>w, <1>p, <2>1, IdleFields DEF WorkerKnows, Terminal
  <2> QED
    BY <1>b, <2>1, <2>2, IdleKnows, ReleaseKeeps
<1> QED
  BY <1>1, <1>2, <1>3, <1>4, <1>5, <1>6

\* One iteration of a loop over tasks.
LEMMA LoopStepsKeep ==
    ASSUME TypeInv, LockInvariant, NEW c \in Ctrls, UNCHANGED <<retrying, exec>>,
           NEW t \in ctl[c].todo,
           CancelPendingTask(c, t) \/ TimeoutRunningTask(c, t) \/ CreateAttempt(c, t)
    PROVE  LockInvariant'
<1>b. Busy(c)
  BY DEF Busy, At, CancelPendingTask, TimeoutRunningTask, CreateAttempt, TerminateTask
<1>p. "Canceled" \in TerminalPhases /\ "TimedOut" \in TerminalPhases
  BY DEF TerminalPhases
<1>1. CASE CancelPendingTask(c, t)
  <2>1. CASE CanUpdateTask(t, "Pending")
    BY <1>1, <1>p, <2>1, TerminateKeeps DEF CancelPendingTask, TerminateTask, At
  <2>2. CASE ~CanUpdateTask(t, "Pending")
    BY <1>1, <1>b, <2>2, DoneKeeps DEF CancelPendingTask, TerminateTask
  <2> QED
    BY <2>1, <2>2
<1>2. CASE TimeoutRunningTask(c, t)
  <2>1. CASE CanUpdateTask(t, "Running")
    BY <1>2, <1>p, <2>1, TerminateKeeps DEF TimeoutRunningTask, TerminateTask, At
  <2>2. CASE ~CanUpdateTask(t, "Running")
    BY <1>2, <1>b, <2>2, DoneKeeps DEF TimeoutRunningTask, TerminateTask
  <2> QED
    BY <2>1, <2>2
<1>3. CASE CreateAttempt(c, t)
  BY <1>3, CreateKeeps DEF CreateAttempt, At
<1> QED
  BY <1>1, <1>2, <1>3

\* Every step of a Reconcile in progress preserves LockInvariant.
LEMMA ReconcileStepKeeps ==
    ASSUME TypeInv, LockInvariant, NEW c \in Ctrls, UNCHANGED <<retrying, exec>>,
           ReconcileStep(c)
    PROVE  LockInvariant'
BY ReadStepsKeep, AcquireStepKeeps, WriteStepsKeep, LoopStepsKeep DEF ReconcileStep

\* The workqueue hands out an operation that no worker has.
LEMMA GetOperationKeeps ==
    ASSUME TypeInv, LockInvariant, SingleLeader, NEW c \in Ctrls, NEW o \in Ops,
           GetOperation(c, o), UNCHANGED <<retrying, exec>>
    PROVE  LockInvariant'
<1> DEFINE w == [IdleWorker EXCEPT !.pc = "listTasks", !.op = o, !.snap = ops[o]]
<1>1. /\ ctl'[c] = w /\ \A d \in Ctrls \ {c} : ctl'[d] = ctl[d]
      /\ UNCHANGED <<ops, tasks, lock, opRev, clock>> /\ ops[o].phase # "Absent"
      /\ \A d \in Ctrls : ctl[d].op # o
  BY TypeInvParts DEF GetOperation, Become, WorkersTyped, ControllerTypeOK, storeVars
<1>2. w.pc = "listTasks" /\ w.op = o /\ w.snap = ops[o] /\ w.todo = {} /\ w.view = NoTasks
  BY DEF IdleWorker
<1> HIDE DEF w
<1>3. WorkerKnows(ctl[c])'
  <2>1. DOMAIN NoTasks = {}
    BY DEF NoTasks
  <2>2. RetryRequested(ops[o]) => ops[o].phase \in TerminalPhases
    BY DEF LockInvariant, RetryRevisions, Terminal
  <2> QED
    BY <1>1, <1>2, <2>1, <2>2 DEF WorkerKnows
<1>4. \A d \in Ctrls : WorkerKnows(ctl[d])'
  BY <1>1, <1>3 DEF LockInvariant, WorkerKnows, Terminal, ActiveTasksOf, Active
<1>5. OneWorkerPerOperation'
  <2> SUFFICES ASSUME NEW a \in Ctrls, NEW b \in Ctrls, a # b, ctl'[a].pc # "idle"
               PROVE  ctl'[a].op # ctl'[b].op
    BY DEF OneWorkerPerOperation, At
  <2>1. CASE a # c /\ b # c
    BY <1>1, <2>1 DEF LockInvariant, OneWorkerPerOperation, At
  <2>2. CASE a = c \/ b = c
    BY <1>1, <1>2, <2>2
  <2> QED
    BY <2>1, <2>2
<1>6. RetryRevisions' /\ ActiveOnlyWhileRunning' /\ RunningHoldsLock' /\ CommandsInStep'
  BY <1>1 DEF LockInvariant, RetryRevisions, ActiveOnlyWhileRunning,
         RunningHoldsLock, CommandsInStep, Terminal, Active, Executing
<1> QED
  BY <1>4, <1>5, <1>6 DEF LockInvariant

-----------------------------------------------------------------------------
(***************************************************************************)
(* The API, the agents and the clock.                                      *)
(***************************************************************************)

\* A handler's write changes the spec of one operation and creates it if it was
\* absent; a retry generation goes only to a terminal one.
LEMMA APIWriteKeeps ==
    ASSUME TypeInv, LockInvariant, NEW o \in Ops, NEW new, WriteOperation(o, new),
           UNCHANGED <<tasks, lock, ctl, clock, exec>>,
           new \in Operation,
           \/ new.phase = ops[o].phase
           \/ ops[o].phase = "Absent" /\ new.phase = "Pending",
           RetryRequested(new) => new.phase \in TerminalPhases,
           \A p \in Ops : retrying'[p] \in {0, retrying[p]}
    PROVE  LockInvariant'
<1>t. /\ ops \in [Ops -> Operation] /\ opRev \in Nat /\ retrying \in [Ops -> Nat]
      /\ StoreTypeOK /\ WorkersTyped
  BY TypeInvParts DEF StoreTyped, StoreTypeOK, APITypeOK
<1>1. opRev' = opRev + 1 /\ ops' = [ops EXCEPT ![o] = [new EXCEPT !.rv = opRev + 1]]
  BY DEF WriteOperation
<1>2. /\ \A p \in Ops \ {o} : ops'[p] = ops[p]
      /\ ops'[o].phase = new.phase /\ ops'[o].rv = opRev + 1
      /\ ops'[o].gen = new.gen /\ ops'[o].observed = new.observed
  BY <1>t, <1>1 DEF Operation
<1>3. \A p \in Ops : \/ ops'[p].phase = ops[p].phase
                     \/ ops[p].phase = "Absent" /\ ops'[p].phase = "Pending"
  BY <1>2
<1>4. \A c \in Ctrls : WorkerKnows(ctl[c])'
  <2> SUFFICES ASSUME NEW c \in Ctrls
               PROVE  WorkerKnows(ctl[c])'
    OBVIOUS
  <2>1. WorkerKnows(ctl[c])
    BY DEF LockInvariant
  <2>2. CASE ctl[c].pc = "idle"
    BY <2>1, <2>2 DEF WorkerKnows
  <2>3. CASE ctl[c].pc # "idle"
    <3>1. ctl[c].op \in Ops
      BY <1>t, <2>3, BusyWorkerTyped
    <3>2. ops[ctl[c].op].phase # "Absent"
      BY <2>1, <2>3 DEF WorkerKnows, Terminal, TerminalPhases
    <3>3. ops'[ctl[c].op].phase = ops[ctl[c].op].phase
      BY <1>3, <3>1, <3>2
    <3> QED
      BY <2>1, <3>3 DEF WorkerKnows, Terminal, ActiveTasksOf, Active
  <2> QED
    BY <2>2, <2>3
<1>5. OneWorkerPerOperation'
  BY DEF LockInvariant, OneWorkerPerOperation, At
<1>6. RetryRevisions'
  <2> SUFFICES ASSUME NEW p \in Ops
               PROVE  /\ ops'[p].rv <= opRev' /\ retrying'[p] <= opRev'
                      /\ retrying'[p] # 0 /\ retrying'[p] = ops'[p].rv =>
                            ops'[p].phase \in TerminalPhases
                      /\ RetryRequested(ops'[p]) => ops'[p].phase \in TerminalPhases
    BY DEF RetryRevisions, Terminal
  <2>1. /\ ops[p].rv <= opRev /\ retrying[p] <= opRev
        /\ retrying[p] # 0 /\ retrying[p] = ops[p].rv => ops[p].phase \in TerminalPhases
        /\ RetryRequested(ops[p]) => ops[p].phase \in TerminalPhases
    BY DEF LockInvariant, RetryRevisions, Terminal
  <2>2. ops[p].rv \in Nat /\ retrying[p] \in Nat
    BY <1>t DEF Operation
  <2>3. CASE p # o
    BY <1>t, <1>1, <1>2, <2>1, <2>2, <2>3
  <2>4. CASE p = o
    <3>1. RetryRequested(ops'[p]) => ops'[p].phase \in TerminalPhases
      BY <1>2, <2>4 DEF RetryRequested
    <3> QED
      BY <1>t, <1>1, <1>2, <2>1, <2>2, <2>4, <3>1
  <2> QED
    BY <2>3, <2>4
<1>7. ActiveOnlyWhileRunning'
  <2> SUFFICES ASSUME NEW t \in DOMAIN tasks, tasks[t].phase \in ActivePhases
               PROVE  ops'[t.op].phase = "Running"
    BY DEF ActiveOnlyWhileRunning, Active
  <2>1. t.op \in Ops /\ ops[t.op].phase = "Running"
    BY <1>t DEF LockInvariant, ActiveOnlyWhileRunning, Active, StoreTypeOK, IsTaskMap, TaskId
  <2> QED
    BY <1>3, <2>1
<1>8. RunningHoldsLock' /\ CommandsInStep'
  BY <1>3 DEF LockInvariant, RunningHoldsLock, CommandsInStep, Executing
<1> QED
  BY <1>4, <1>5, <1>6, <1>7, <1>8 DEF LockInvariant

\* So does every step of the create, cancel and retry handlers ...
LEMMA APIStepKeeps ==
    ASSUME TypeInv, LockInvariant, NEW o \in Ops, APIStep(o),
           UNCHANGED <<ctl, clock, exec>>
    PROVE  LockInvariant'
<1>t. /\ ops[o] \in Operation /\ opRev \in Nat /\ retrying \in [Ops -> Nat]
      /\ StoreTypeOK
  BY TypeInvParts DEF StoreTyped, StoreTypeOK, APITypeOK
<1>r. RetryRequested(ops[o]) => ops[o].phase \in TerminalPhases
  BY DEF LockInvariant, RetryRevisions, Terminal
<1>1. CASE CreateOperation(o)
  <2>1. PICK second \in UNION {{ops[p].created, ops[p].created + 1} : p \in Ops} :
            WriteOperation(o, [AbsentOperation EXCEPT !.phase = "Pending",
                                                      !.created = second])
    BY <1>1 DEF CreateOperation
  <2> DEFINE new == [AbsentOperation EXCEPT !.phase = "Pending", !.created = second]
  <2>2. second \in Nat
    BY <1>t DEF StoreTypeOK, Operation
  <2>3. new \in Operation /\ new.phase = "Pending" /\ ~RetryRequested(new)
    <3>1. new \in Operation
      BY <2>2 DEF AbsentOperation, Operation, Phases, ActivePhases, Reasons
    <3>2. new.phase = "Pending" /\ new.gen = 0 /\ new.observed = 0
      BY DEF AbsentOperation
    <3> QED
      BY <3>1, <3>2 DEF RetryRequested
  <2> HIDE DEF new
  <2>4. WriteOperation(o, new) /\ ops[o].phase = "Absent" /\ UNCHANGED <<tasks, lock, retrying>>
    BY <1>1, <2>1 DEF CreateOperation, new
  <2> QED
    BY <2>3, <2>4, APIWriteKeeps
<1>2. CASE CancelOperation(o)
  <2> DEFINE new == [ops[o] EXCEPT !.desired = "Canceled"]
  <2>1. /\ new \in Operation /\ new.phase = ops[o].phase
        /\ RetryRequested(new) => RetryRequested(ops[o])
    BY <1>t DEF Operation, RetryRequested
  <2>2. WriteOperation(o, new) /\ UNCHANGED <<tasks, lock, retrying>>
    BY <1>2 DEF CancelOperation
  <2> HIDE DEF new
  <2> QED
    BY <1>r, <2>1, <2>2, APIWriteKeeps
<1>3. CASE LoadRetryableOperation(o)
  <2>1. UNCHANGED <<ops, tasks, lock, opRev>>
    BY <1>3 DEF LoadRetryableOperation, storeVars
  <2>2. /\ ops[o].phase \in TerminalPhases /\ retrying'[o] = ops[o].rv
        /\ \A p \in Ops \ {o} : retrying'[p] = retrying[p]
    BY <1>3, <1>t DEF LoadRetryableOperation, RetryablePhases, TerminalPhases
  <2>3. RetryRevisions'
    BY <2>1, <2>2 DEF LockInvariant, RetryRevisions, Terminal
  <2>4. /\ OneWorkerPerOperation' /\ ActiveOnlyWhileRunning' /\ RunningHoldsLock'
        /\ CommandsInStep' /\ \A c \in Ctrls : WorkerKnows(ctl[c])'
    BY <2>1 DEF LockInvariant, OneWorkerPerOperation, ActiveOnlyWhileRunning, At,
                RunningHoldsLock, CommandsInStep, Terminal, Active, Executing,
                WorkerKnows, ActiveTasksOf
  <2> QED
    BY <2>3, <2>4 DEF LockInvariant
<1>4. CASE RetryOperation(o)
  <2>1. \A p \in Ops : retrying'[p] \in {0, retrying[p]}
    BY <1>4, <1>t DEF RetryOperation
  <2>2. CASE ops[o].rv = retrying[o]
    <3> DEFINE new == [ops[o] EXCEPT !.desired = "Active", !.gen = ops[o].gen + 1]
    <3>1. ops[o].phase \in TerminalPhases
      BY <1>4, <2>2 DEF RetryOperation, LockInvariant, RetryRevisions, Terminal
    <3>2. new \in Operation /\ new.phase = ops[o].phase
      <4>1. \A op \in Operation, g \in Nat :
               /\ [op EXCEPT !.desired = "Active", !.gen = g] \in Operation
               /\ [op EXCEPT !.desired = "Active", !.gen = g].phase = op.phase
        BY DEF Operation
      <4>2. ops[o].gen + 1 \in Nat
        BY <1>t DEF Operation
      <4> QED
        BY <1>t, <4>1, <4>2
    <3>3. WriteOperation(o, new) /\ UNCHANGED <<tasks, lock>>
      BY <1>4, <2>2 DEF RetryOperation
    <3> HIDE DEF new
    <3> QED
      BY <2>1, <3>1, <3>2, <3>3, APIWriteKeeps
  <2>3. CASE ops[o].rv # retrying[o]
    <3>1. UNCHANGED <<ops, tasks, lock, opRev>>
      BY <1>4, <2>3 DEF RetryOperation
    <3>2. RetryRevisions'
      <4>1. \A p \in Ops : retrying'[p] <= opRev
        BY <1>t, <2>1 DEF LockInvariant, RetryRevisions
      <4> QED
        BY <2>1, <3>1, <4>1 DEF LockInvariant, RetryRevisions, Terminal
    <3>3. /\ OneWorkerPerOperation' /\ ActiveOnlyWhileRunning' /\ RunningHoldsLock'
          /\ CommandsInStep' /\ \A c \in Ctrls : WorkerKnows(ctl[c])'
      BY <3>1 DEF LockInvariant, OneWorkerPerOperation, ActiveOnlyWhileRunning, At,
                  RunningHoldsLock, CommandsInStep, Terminal, Active, Executing,
                  WorkerKnows, ActiveTasksOf
    <3> QED
      BY <3>2, <3>3 DEF LockInvariant
  <2> QED
    BY <2>2, <2>3
<1> QED
  BY <1>1, <1>2, <1>3, <1>4 DEF APIStep

\* An agent's write moves one task forward; a command starts only for the node's
\* own Running task, and before the deadline.
LEMMA AgentKeeps ==
    ASSUME TypeInv, LockInvariant, UNCHANGED <<ops, lock, opRev, ctl, clock, retrying>>,
           DOMAIN tasks' = DOMAIN tasks,
           \A t \in DOMAIN tasks : \/ tasks'[t].phase = tasks[t].phase
                                  \/ tasks[t].phase \in ActivePhases,
           CommandsInStep'
    PROVE  LockInvariant'
<1>1. \A o \in Ops : ActiveTasksOf(o) = {} => ActiveTasksOf(o)' = {}
  BY DEF ActiveTasksOf, Active
<1>2. \A c \in Ctrls : WorkerKnows(ctl[c])'
  <2> SUFFICES ASSUME NEW c \in Ctrls
               PROVE  WorkerKnows(ctl[c])'
    OBVIOUS
  <2>1. WorkerKnows(ctl[c])
    BY DEF LockInvariant
  <2>2. ActiveTasksOf(ctl[c].op) = {} => ActiveTasksOf(ctl[c].op)' = {}
    BY DEF ActiveTasksOf, Active
  <2> QED
    BY <2>1, <2>2 DEF WorkerKnows, Terminal
<1>3. OneWorkerPerOperation' /\ RetryRevisions' /\ RunningHoldsLock'
  BY DEF LockInvariant, OneWorkerPerOperation, At, RetryRevisions, Terminal, RunningHoldsLock
<1>4. ActiveOnlyWhileRunning'
  BY DEF LockInvariant, ActiveOnlyWhileRunning, Active
<1> QED
  BY <1>2, <1>3, <1>4 DEF LockInvariant

\* ... and every step, restart and lost response of an agent.
LEMMA AgentStepKeeps ==
    ASSUME TypeInv, LockInvariant, NEW n \in Nodes, UNCHANGED <<ctl, clock, retrying>>,
           AgentStep(n) \/ StopAgent(n) \/ \E t \in DOMAIN tasks : StartResponseLost(n, t)
    PROVE  LockInvariant'
<1>t. StoreTypeOK /\ AgentTypeOK
  BY TypeInvParts DEF StoreTyped
<1>e. exec \in [Nodes -> SUBSET TaskId] \/ DOMAIN exec = Nodes
  BY <1>t DEF AgentTypeOK
<1>c. ClockSync => /\ \A m \in Nodes : \A t \in exec[m] :
                         t \in DOMAIN tasks /\ tasks[t].phase = "Running" /\ t.node = m
                   /\ \A o \in Ops : ops[o].phase = "Running" /\ clock[o] = 2 => ~Executing(o)
  BY DEF LockInvariant, CommandsInStep
<1>s. ASSUME NEW t \in DOMAIN tasks, t \in Selectable(n)
      PROVE  t.node = n
  BY <1>s DEF Selectable, NodeTasksIn
<1>u. ASSUME NEW t, NEW expected \in ActivePhases, CanUpdateTask(t, expected),
             NEW phase, NEW out, UpdateTask(t, phase, out)
      PROVE  /\ UNCHANGED <<ops, lock, opRev>> /\ t \in DOMAIN tasks
             /\ DOMAIN tasks' = DOMAIN tasks /\ tasks[t].phase = expected
             /\ tasks'[t].phase = phase
             /\ \A u \in DOMAIN tasks : u # t => tasks'[u] = tasks[u]
             /\ \A u \in DOMAIN tasks : \/ tasks'[u].phase = tasks[u].phase
                                        \/ tasks[u].phase \in ActivePhases
  <2>1. /\ t \in DOMAIN tasks /\ tasks[t].phase = expected /\ tasks[t] \in OperationTask
        /\ tasks' = [tasks EXCEPT ![t].phase = phase, ![t].out = out]
        /\ UNCHANGED <<ops, lock, opRev>>
    BY <1>u, <1>t DEF CanUpdateTask, UpdateTask, StoreTypeOK, IsTaskMap
  <2>2. DOMAIN tasks' = DOMAIN tasks /\ \A u \in DOMAIN tasks : u # t => tasks'[u] = tasks[u]
    BY <2>1
  <2>3. tasks'[t].phase = phase
    BY <2>1 DEF OperationTask
  <2> QED
    BY <1>u, <2>1, <2>2, <2>3
<1>a. "Pending" \in ActivePhases /\ "Running" \in ActivePhases
  BY DEF ActivePhases
<1>f. ASSUME NEW t \in DOMAIN tasks, t.node = n, ~Late(t)
      PROVE  t.op \in Ops /\ clock[t.op] = 0
  BY <1>f, <1>t DEF Late, StoreTypeOK, IsTaskMap, TaskId
<1>1. ASSUME NEW t \in DOMAIN tasks, StartPendingTask(n, t) \/ StartResponseLost(n, t)
      PROVE  LockInvariant'
  <2>1. /\ CanUpdateTask(t, "Pending") /\ UpdateTask(t, "Running", FALSE) /\ t.node = n
        /\ \/ UNCHANGED exec
           \/ (ClockSync => ~Late(t)) /\ exec' = [exec EXCEPT ![n] = {t}]
    BY <1>1, <1>s DEF StartPendingTask, StartResponseLost
  <2>2. /\ UNCHANGED <<ops, lock, opRev>>
        /\ DOMAIN tasks' = DOMAIN tasks /\ tasks[t].phase = "Pending"
        /\ tasks'[t].phase = "Running"
        /\ \A u \in DOMAIN tasks : u # t => tasks'[u] = tasks[u]
        /\ \A u \in DOMAIN tasks : \/ tasks'[u].phase = tasks[u].phase
                                   \/ tasks[u].phase \in ActivePhases
    BY <1>a, <1>u, <2>1
  <2>3. ClockSync /\ exec' = [exec EXCEPT ![n] = {t}] /\ ~Late(t) =>
           \A o \in Ops : ops[o].phase = "Running" /\ clock[o] = 2 => ~Executing(o)'
    BY <1>c, <1>e, <1>f, <2>1 DEF Executing
  <2>4. CommandsInStep'
    BY <1>c, <1>e, <2>1, <2>2, <2>3 DEF CommandsInStep, Executing
  <2> QED
    BY <2>2, <2>4, AgentKeeps
<1>2. ASSUME NEW t \in DOMAIN tasks, ResumeTask(n, t)
      PROVE  LockInvariant'
  <2>1. /\ tasks[t].phase = "Running" /\ t.node = n /\ UNCHANGED storeVars
        /\ (ClockSync => ~Late(t)) /\ exec' = [exec EXCEPT ![n] = {t}]
    BY <1>2, <1>s DEF ResumeTask, CanUpdateTask
  <2>2. ClockSync => \A o \in Ops : ops[o].phase = "Running" /\ clock[o] = 2 => ~Executing(o)'
    BY <1>c, <1>e, <1>f, <2>1 DEF Executing
  <2>3. CommandsInStep'
    BY <1>c, <1>e, <2>1, <2>2 DEF CommandsInStep, storeVars
  <2> QED
    BY <2>1, <2>3, AgentKeeps DEF storeVars
<1>3. ASSUME NEW t, CanUpdateTask(t, "Running"), NEW phase, NEW out,
             UpdateTask(t, phase, out), ClockSync => t.node = n,
             (exec[n] = {} /\ UNCHANGED exec) \/ exec' = [exec EXCEPT ![n] = {}]
      PROVE  LockInvariant'
  <2>2. /\ UNCHANGED <<ops, lock, opRev>> /\ t \in DOMAIN tasks
        /\ DOMAIN tasks' = DOMAIN tasks
        /\ \A u \in DOMAIN tasks : u # t => tasks'[u] = tasks[u]
        /\ \A u \in DOMAIN tasks : \/ tasks'[u].phase = tasks[u].phase
                                   \/ tasks[u].phase \in ActivePhases
    BY <1>a, <1>u, <1>3
  <2>3. exec'[n] = {} /\ \A m \in Nodes \ {n} : exec'[m] = exec[m]
    BY <1>3, <1>e, <1>t DEF AgentTypeOK
  <2>4. CommandsInStep'
    BY <1>c, <1>3, <2>2, <2>3 DEF CommandsInStep, Executing
  <2> QED
    BY <2>2, <2>4, AgentKeeps
<1>4. ASSUME NEW t \in DOMAIN tasks, ReportExpired(n, t)
      PROVE  LockInvariant'
  BY <1>4, <1>3, <1>s DEF ReportExpired
<1>5. ASSUME UNCHANGED storeVars, exec' = [exec EXCEPT ![n] = {}]
      PROVE  LockInvariant'
  <2>1. exec'[n] = {} /\ \A m \in Nodes \ {n} : exec'[m] = exec[m]
    BY <1>5, <1>t DEF AgentTypeOK
  <2>2. CommandsInStep'
    BY <1>c, <1>5, <2>1 DEF CommandsInStep, Executing, storeVars
  <2> QED
    BY <1>5, <2>2, AgentKeeps DEF storeVars
<1>6. ASSUME NEW t \in exec[n], FinishTask(n, t)
      PROVE  LockInvariant'
  <2>1. ClockSync => t.node = n
    BY <1>c
  <2>2. exec' = [exec EXCEPT ![n] = {}]
    BY <1>6 DEF FinishTask
  <2> QED
    BY <1>6, <1>3, <1>5, <2>1, <2>2 DEF FinishTask
<1>7. CASE StopAgent(n)
  BY <1>7, <1>5 DEF StopAgent
<1> QED
  BY <1>1, <1>2, <1>4, <1>6, <1>7 DEF AgentStep

\* The clock moves only for an operation whose deadline matters; when its grace
\* period ends, its commands are gone.
LEMMA ClockKeeps ==
    ASSUME TypeInv, LockInvariant, NEW o \in Ops, DeadlineReached(o) \/ GraceOver(o)
    PROVE  LockInvariant'
<1>t. clock \in [Ops -> 0..2]
  BY TypeInvParts DEF StoreTyped, StoreTypeOK
<1>1. /\ UNCHANGED <<ops, tasks, lock, opRev, ctl, retrying, exec>>
      /\ clock[o] # 2 /\ \A p \in Ops \ {o} : clock'[p] = clock[p]
      /\ clock'[o] = 2 => (ClockSync => ~Executing(o))
  BY <1>t DEF DeadlineReached, GraceOver, storeVars
<1>2. \A c \in Ctrls : WorkerKnows(ctl[c])'
  <2> SUFFICES ASSUME NEW c \in Ctrls
               PROVE  WorkerKnows(ctl[c])'
    OBVIOUS
  <2>1. WorkerKnows(ctl[c])
    BY DEF LockInvariant
  <2>2. ctl[c].pc # "idle" => ctl[c].op \in Ops
    BY TypeInvParts, BusyWorkerTyped
  <2>3. ctl[c].pc = "timeout" => clock'[ctl[c].op] = 2
    BY <1>1, <2>1, <2>2 DEF WorkerKnows
  <2> QED
    BY <1>1, <2>1, <2>3 DEF WorkerKnows, Terminal, ActiveTasksOf, Active
<1>3. /\ OneWorkerPerOperation' /\ RetryRevisions' /\ RunningHoldsLock'
      /\ ActiveOnlyWhileRunning'
  BY <1>1 DEF LockInvariant, OneWorkerPerOperation, At, RetryRevisions, Terminal,
              RunningHoldsLock, ActiveOnlyWhileRunning, Active
<1>4. CommandsInStep'
  BY <1>1 DEF LockInvariant, CommandsInStep, Executing
<1> QED
  BY <1>2, <1>3, <1>4 DEF LockInvariant

-----------------------------------------------------------------------------
(***************************************************************************)
(* The theorems.                                                           *)
(***************************************************************************)
LEMMA LockInit == Init => LockInvariant
<1> SUFFICES ASSUME Init PROVE LockInvariant
  OBVIOUS
<1>1. /\ ops = [o \in Ops |-> AbsentOperation] /\ DOMAIN tasks = {} /\ opRev = 0
      /\ ctl = [c \in Ctrls |-> IdleWorker] /\ retrying = [o \in Ops |-> 0]
      /\ exec = [n \in Nodes |-> {}]
  BY DEF Init, StoreInit, ControllerInit, APIInit, AgentInit, NoTasks
<1>2. \A o \in Ops : /\ ops[o].phase = "Absent" /\ ops[o].rv = 0
                     /\ ~RetryRequested(ops[o])
  <2>1. /\ AbsentOperation.phase = "Absent" /\ AbsentOperation.rv = 0
        /\ AbsentOperation.gen = 0 /\ AbsentOperation.observed = 0
    BY DEF AbsentOperation
  <2>2. ~RetryRequested(AbsentOperation)
    BY <2>1 DEF RetryRequested
  <2> QED
    BY <1>1, <2>1, <2>2
<1>3. OneWorkerPerOperation /\ \A c \in Ctrls : WorkerKnows(ctl[c])
  BY <1>1, IdleKnows, IdleFields DEF OneWorkerPerOperation, At
<1>4. RetryRevisions
  BY <1>1, <1>2 DEF RetryRevisions
<1>5. ActiveOnlyWhileRunning /\ RunningHoldsLock /\ CommandsInStep
  BY <1>1, <1>2 DEF ActiveOnlyWhileRunning, RunningHoldsLock, CommandsInStep, Executing
<1> QED
  BY <1>3, <1>4, <1>5 DEF LockInvariant

\* LockInvariant is inductive when all workers share one queue.
LEMMA LockStep == SingleLeader /\ TypeInv /\ LockInvariant /\ [Next]_vars => LockInvariant'
<1> SUFFICES ASSUME SingleLeader, TypeInv, LockInvariant, [Next]_vars
             PROVE  LockInvariant'
  OBVIOUS
<1>1. CASE \E c \in Ctrls : ControllerNext(c)
  BY <1>1, ReconcileStepKeeps, GetOperationKeeps DEF ControllerNext
<1>2. CASE \E o \in Ops : APINext(o)
  BY <1>2, APIStepKeeps DEF APINext
<1>3. CASE \E n \in Nodes : AgentNext(n)
  BY <1>3, AgentStepKeeps DEF AgentNext
<1>4. CASE \E o \in Ops : DeadlineReached(o) \/ GraceOver(o)
  BY <1>4, ClockKeeps
<1>5. CASE Fault
  <2>1. CASE \E c \in Ctrls : Abort(c) /\ UNCHANGED exec
    BY <1>5, <2>1, DoneKeeps DEF Fault, Abort, At, Busy
  <2>2. CASE \E n \in Nodes :
                /\ \/ \E t \in DOMAIN tasks : StartResponseLost(n, t)
                   \/ StopAgent(n)
                /\ UNCHANGED <<ctl, clock>>
    BY <1>5, <2>2, AgentStepKeeps DEF Fault
  <2> QED
    BY <1>5, <2>1, <2>2 DEF Fault
<1>6. CASE UNCHANGED vars
  BY <1>6 DEF vars, LockInvariant, OneWorkerPerOperation, At, RetryRevisions, Terminal,
              RunningHoldsLock, ActiveOnlyWhileRunning, Active, CommandsInStep, Executing,
              WorkerKnows, ActiveTasksOf
<1> QED
  BY <1>1, <1>2, <1>3, <1>4, <1>5, <1>6 DEF Next

\* With one leader, LockInvariant holds in every state: a worker can rely on the
\* phase it read (nobody else changes it), tasks are unfinished only while their
\* operation runs, and a running operation holds the lock of its target.
THEOREM LockInvariantHolds == SingleLeader => (Spec => []LockInvariant)
<1> SUFFICES ASSUME SingleLeader PROVE Spec => []LockInvariant
  OBVIOUS
<1>1. TypeInv /\ LockInvariant /\ [Next]_vars => LockInvariant'
  BY LockStep
<1> QED
  BY TypeInit, TypeStep, LockInit, <1>1, PTL DEF Spec

\* With one leader, a running operation holds the ExecutionLock of its target,
\* whatever was interrupted between acquireLock, the status writes and the release.
THEOREM RunningOperationHoldsLock == SingleLeader => (Spec => []RunningHoldsLock)
<1>1. LockInvariant => RunningHoldsLock
  BY DEF LockInvariant
<1> QED
  BY LockInvariantHolds, <1>1, PTL

\* An operation with an unfinished task or a command is Running.
LEMMA WorkMeansRunning ==
    ASSUME TypeInv, LockInvariant, ClockSync, NEW o \in Ops,
           ActiveTasksOf(o) # {} \/ Executing(o)
    PROVE  ops[o].phase = "Running"
<1>1. CASE ActiveTasksOf(o) # {}
  BY <1>1 DEF LockInvariant, ActiveOnlyWhileRunning, ActiveTasksOf
<1>2. CASE Executing(o)
  <2>1. PICK n \in Nodes : \E t \in exec[n] : t.op = o
    BY <1>2 DEF Executing
  <2>2. PICK t \in exec[n] : t.op = o
    BY <2>1
  <2>3. t \in DOMAIN tasks /\ Active(t)
    BY <2>2 DEF LockInvariant, CommandsInStep, Active, ActivePhases
  <2> QED
    BY <2>2, <2>3 DEF LockInvariant, ActiveOnlyWhileRunning
<1> QED
  BY <1>1, <1>2

\* With one leader and clocks in step, no two operations of a target ever have
\* unfinished tasks or commands at the same time: the purpose of the lock.
THEOREM TargetsAreExclusive == SingleLeader /\ ClockSync => (Spec => []TargetExclusion)
<1> SUFFICES ASSUME SingleLeader, ClockSync PROVE Spec => []TargetExclusion
  OBVIOUS
<1>1. TypeInv /\ LockInvariant => TargetExclusion
  <2> SUFFICES ASSUME TypeInv, LockInvariant, NEW o \in Ops, NEW p \in Ops,
                      o # p, TargetOf[o] = TargetOf[p],
                      ActiveTasksOf(o) # {} \/ Executing(o),
                      ActiveTasksOf(p) # {} \/ Executing(p)
               PROVE  FALSE
    BY DEF TargetExclusion
  <2>1. ops[o].phase = "Running" /\ ops[p].phase = "Running"
    BY WorkMeansRunning
  <2> QED
    BY <2>1 DEF LockInvariant, RunningHoldsLock
<1>2. Spec => []LockInvariant
  BY LockInvariantHolds
<1> QED
  BY TypeInit, TypeStep, <1>1, <1>2, PTL DEF Spec

\* With one leader and clocks in step, an operation in a terminal phase has no
\* unfinished task and no command left on any node (finish, reconcileDeadline).
THEOREM TerminalOperationsAreQuiet ==
    SingleLeader /\ ClockSync => (Spec => []TerminalIsQuiescent)
<1> SUFFICES ASSUME SingleLeader, ClockSync PROVE Spec => []TerminalIsQuiescent
  OBVIOUS
<1>1. TypeInv /\ LockInvariant => TerminalIsQuiescent
  <2> SUFFICES ASSUME TypeInv, LockInvariant, NEW o \in Ops, Terminal(o)
               PROVE  ActiveTasksOf(o) = {} /\ ~Executing(o)
    BY DEF TerminalIsQuiescent
  <2>1. ops[o].phase # "Running"
    BY DEF Terminal, TerminalPhases
  <2> QED
    BY <2>1, WorkMeansRunning
<1>2. Spec => []LockInvariant
  BY LockInvariantHolds
<1> QED
  BY TypeInit, TypeStep, <1>1, <1>2, PTL DEF Spec

\* How a lock's holder changes: from nobody to a worker's operation, or from a
\* worker's terminal operation to nobody.
LEMMA HolderChanges ==
    ASSUME TypeInv, LockInvariant, Next, NEW g \in Targets,
           lock'[g].holder # lock[g].holder, lock[g].holder # NoOp
    PROVE  /\ lock'[g].holder = NoOp /\ Terminal(lock[g].holder)
           /\ ActiveTasksOf(lock[g].holder) = {}
<1>1. PICK c \in Ctrls : ReconcileStep(c)
  <2>1. lock' # lock
    OBVIOUS
  <2>2. \A o \in Ops : ~APINext(o)
    BY <2>1 DEF APINext, APIStep, CreateOperation, CancelOperation,
                LoadRetryableOperation, RetryOperation, storeVars
  <2>3. \A n \in Nodes : ~AgentNext(n)
    BY <2>1 DEF AgentNext, AgentStep, StartPendingTask, ResumeTask, ReportExpired,
                FinishTask, UpdateTask, storeVars
  <2>4. ~Fault
    BY <2>1 DEF Fault, Abort, StartResponseLost, StopAgent, UpdateTask, storeVars
  <2>5. \A o \in Ops : ~DeadlineReached(o) /\ ~GraceOver(o)
    BY <2>1 DEF DeadlineReached, GraceOver, storeVars
  <2>6. \A c \in Ctrls, o \in Ops : ~GetOperation(c, o)
    BY <2>1 DEF GetOperation, storeVars
  <2> QED
    BY <2>2, <2>3, <2>4, <2>5, <2>6 DEF Next, ControllerNext
<1> DEFINE o == ctl[c].op
<1>2. \/ AcquireLockStep(c) /\ CanAcquireLock(o) /\ AcquireLock(o)
      \/ UnlockSkippedRetry(c) /\ ReleaseLock(o, ctl[c].lockUID)
      \/ ReleaseTerminalLock(c) /\ ReleaseLock(o, ctl[c].lockUID)
  BY <1>1 DEF ReconcileStep, ListTasks, ListOperations, AcquireLockStep, RetryStillLatest,
              UnlockSkippedRetry, SkipRetry, ReopenForRetry, StartOperation, WriteStatus,
              UpdateOperationStatus, CancelPendingTask, TimeoutRunningTask, TerminateTask,
              UpdateTask, CreateAttempt, CreateTask, FinishList, FinishWrite, GetLock,
              ReleaseTerminalLock, storeVars
<1>b. Busy(c)
  BY <1>2 DEF Busy, At, AcquireLockStep, UnlockSkippedRetry, ReleaseTerminalLock
<1>t. /\ o \in Ops /\ TargetOf[o] \in Targets /\ lock \in [Targets -> Lock]
      /\ WorkerKnows(ctl[c])
  BY <1>b, TypeInvParts, WorkerFacts, ConstantsAssumption DEF StoreTyped, StoreTypeOK
<1>3. CASE CanAcquireLock(o) /\ AcquireLock(o)
  BY <1>3, <1>t DEF CanAcquireLock, AcquireLock, Lock
<1>4. CASE /\ ReleaseLock(o, ctl[c].lockUID)
           /\ UnlockSkippedRetry(c) \/ ReleaseTerminalLock(c)
  <2>1. lock[g].holder = o /\ lock'[g].holder = NoOp
    BY <1>4, <1>t DEF ReleaseLock, HoldsLock, Lock
  <2>2. Terminal(o)
    BY <1>4, <1>t DEF WorkerKnows, Terminal, UnlockSkippedRetry, ReleaseTerminalLock, At
  <2>3. ActiveTasksOf(o) = {}
    BY <2>2 DEF LockInvariant, ActiveOnlyWhileRunning, ActiveTasksOf, Terminal, TerminalPhases
  <2> QED
    BY <2>1, <2>2, <2>3
<1> QED
  BY <1>2, <1>3, <1>4

\* With one leader, the lock leaves an operation only when that operation is
\* terminal and has no unfinished task, and it never passes directly to another.
THEOREM LockIsReleasedWhenQuiet == SingleLeader => (Spec => LockReleasedWhenQuiet)
<1>1. TypeInv /\ LockInvariant /\ [Next]_vars =>
         [\A g \in Targets :
            LET h == lock[g].holder
            IN  lock'[g].holder # h /\ h # NoOp =>
                   lock'[g].holder = NoOp /\ Terminal(h) /\ ActiveTasksOf(h) = {}]_vars
  BY HolderChanges
<1>2. SingleLeader => (Spec => []LockInvariant)
  BY LockInvariantHolds
<1> QED
  BY TypeInit, TypeStep, <1>1, <1>2, PTL DEF Spec, LockReleasedWhenQuiet

=============================================================================
