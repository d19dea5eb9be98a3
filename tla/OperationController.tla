------------------------- MODULE OperationController -------------------------
(***************************************************************************)
(* The operation controller: every worker runs Reconcile, one step of this *)
(* module per store call.  Between two calls other workers, API handlers,  *)
(* agents and the clock may move, so everything a worker read earlier (the *)
(* Operation "snap", the tasks "view") may be stale when it is used.       *)
(*                                                                         *)
(* A worker that returns, whatever the result or the error, is idle again; *)
(* the workqueue hands it the operation later (RequeueAfter, rate-limited  *)
(* retry, or the event its own write produced).                            *)
(***************************************************************************)
EXTENDS OperationStore

CONSTANTS
    Ctrls,          \* reconcile workers
    SingleLeader    \* TRUE: all workers share one workqueue, which never hands
                    \* out one operation twice; FALSE: a former leader may still
                    \* be in the middle of a Reconcile
ASSUME SingleLeaderAssumption == SingleLeader \in BOOLEAN

VARIABLE ctl   \* [Ctrls -> Worker]

Pcs == {"idle", "listTasks", "listOps", "acquire", "relist", "unlock",
        "skipRetry", "reopen", "start", "cancel", "timeout", "create",
        "finishList", "finishWrite", "getLock", "release"}

Goal == [phase : TerminalPhases \cup {""}, reason : Reasons]
NoGoal == [phase |-> "", reason |-> ""]

IdleWorker ==
    [pc |-> "idle", op |-> NoOp, snap |-> AbsentOperation, view |-> NoTasks,
     todo |-> {}, goal |-> NoGoal, lockUID |-> 0]

WorkerOK(w) ==
    /\ w \in [pc : Pcs, op : Ops \cup {NoOp}, snap : Operation, view : {w.view},
              todo : SUBSET TaskId, goal : Goal, lockUID : Nat]
    /\ IsTaskMap(w.view)
    /\ w.pc = "idle" <=> w.op = NoOp

ControllerTypeOK == DOMAIN ctl = Ctrls /\ \A c \in Ctrls : WorkerOK(ctl[c])

ControllerInit == ctl = [c \in Ctrls |-> IdleWorker]

-----------------------------------------------------------------------------
(***************************************************************************)
(* What Reconcile decides once it owns the lock, from the operation and    *)
(* tasks it read and the time.  A decision is what the worker does next:   *)
(* return, a loop of task writes, or finish with a goal.                   *)
(***************************************************************************)
Return == [pc |-> "idle", todo |-> {}, goal |-> NoGoal]
Loop(pc, todo) == [pc |-> pc, todo |-> todo, goal |-> NoGoal]
Finish(phase, reason) ==
    [pc |-> "finishList", todo |-> {}, goal |-> [phase |-> phase, reason |-> reason]]

FailInvalidFacts(view) ==
    IF RunningTasks(view) # {} THEN Return
    ELSE IF PendingTasks(view) # {} THEN Loop("cancel", PendingTasks(view))
    ELSE Finish("Failed", "InvalidExecutionFacts")

\* Mutant: the request wins over the success of the last task.
Conclude_Blind(o, op, view, phase, reason) ==
    IF ~ValidFacts(o, op.gen, view) THEN FailInvalidFacts(view)
    ELSE Finish(phase, reason)

\* The end of reconcileCancellation and of reconcileDeadline, reached when no
\* task is active: success wins over cancellation and over the deadline.
Conclude(o, op, view, phase, reason) ==
    IF ~ValidFacts(o, op.gen, view) THEN FailInvalidFacts(view)
    ELSE IF Complete(o, view) THEN Finish("Succeeded", "")
    ELSE Finish(phase, reason)

ReconcileCancellation(o, op, view) ==
    IF PendingTasks(view) # {} THEN Loop("cancel", PendingTasks(view))
    ELSE IF RunningTasks(view) # {} THEN Return
    ELSE Conclude(o, op, view, "Canceled", "CancelledByRequest")

\* Mutant: running tasks are timed out without the grace period.
ReconcileDeadline_NoGrace(o, op, view, now) ==
    IF PendingTasks(view) # {} THEN Loop("cancel", PendingTasks(view))
    ELSE IF RunningTasks(view) # {} THEN Loop("timeout", RunningTasks(view))
    ELSE IF op.desired = "Canceled"
    THEN Conclude(o, op, view, "Canceled", "CancelledByRequest")
    ELSE Conclude(o, op, view, "TimedOut", "DeadlineExceeded")

\* Mutant: pending tasks are left to their agents.
ReconcileDeadline_KeepsPending(o, op, view, now) ==
    IF PendingTasks(view) # {} THEN Return
    ELSE IF RunningTasks(view) # {}
    THEN IF now < 2 THEN Return ELSE Loop("timeout", RunningTasks(view))
    ELSE IF op.desired = "Canceled"
    THEN Conclude(o, op, view, "Canceled", "CancelledByRequest")
    ELSE Conclude(o, op, view, "TimedOut", "DeadlineExceeded")

ReconcileDeadline(o, op, view, now) ==
    IF PendingTasks(view) # {} THEN Loop("cancel", PendingTasks(view))
    ELSE IF RunningTasks(view) # {}
    THEN IF now < 2 THEN Return ELSE Loop("timeout", RunningTasks(view))
    ELSE IF op.desired = "Canceled"
    THEN Conclude(o, op, view, "Canceled", "CancelledByRequest")
    ELSE Conclude(o, op, view, "TimedOut", "DeadlineExceeded")

\* createAttempts up to its first write: all incomplete nodes or none.
CreateAttempts(o, op, view, s) ==
    IF \E n \in Incomplete(o, view, s) : ~Eligible(o, op.gen, view, s, n)
    THEN Finish("Failed", "StepFailed")
    ELSE IF ~PayloadReady(o, view, s) THEN FailInvalidFacts(view)
    ELSE Loop("create", {TaskName(o, op.gen, s, n, NextAttempt(view, s, n)) :
                            n \in Incomplete(o, view, s)})

ReconcileRunning(o, op, view) ==
    IF ~ValidFacts(o, op.gen, view) THEN FailInvalidFacts(view)
    ELSE IF Complete(o, view) THEN Finish("Succeeded", "")
    ELSE IF op.desired = "Canceled" THEN ReconcileCancellation(o, op, view)
    ELSE LET s == CurrentStep(o, view)
             active == StepTasks(view, s) \cap ActiveTasks(view)
             pending == StepTasks(view, s) \cap PendingTasks(view)
         IN  IF LatestFailure(o, view, s) /\ pending # {} THEN Loop("cancel", pending)
             ELSE IF active # {} THEN Return
             ELSE CreateAttempts(o, op, view, s)

\* reconcileLockedOperation; the retry branch continues with a second List.
ReconcileLocked(o, op, view, now) ==
    IF RetryRequested(op) THEN Loop("relist", {})
    ELSE IF op.phase = "Pending" THEN Loop("start", {})
    ELSE IF op.phase # "Running" THEN Return
    ELSE IF op.deadline = NoDeadline THEN FailInvalidFacts(view)
    ELSE IF now >= 1 THEN ReconcileDeadline(o, op, view, now)
    ELSE ReconcileRunning(o, op, view)

-----------------------------------------------------------------------------
At(c, pc) == ctl[c].pc = pc
Become(c, w) == ctl' = [ctl EXCEPT ![c] = w]
Done(c) == Become(c, IdleWorker)
Goto(c, pc) == Become(c, [ctl[c] EXCEPT !.pc = pc])
Follow(c, w, d) ==
    Become(c, IF d.pc = "idle" THEN IdleWorker
              ELSE [w EXCEPT !.pc = d.pc, !.todo = d.todo, !.goal = d.goal,
                             !.view = NoTasks])

\* loadOperation, first read.  The workqueue never runs one key twice at a time.
GetOperation(c, o) ==
    /\ At(c, "idle")
    /\ ops[o].phase # "Absent"
    /\ SingleLeader => \A d \in Ctrls : ctl[d].op # o
    /\ Become(c, [IdleWorker EXCEPT !.pc = "listTasks", !.op = o, !.snap = ops[o]])
    /\ UNCHANGED <<storeVars, clock>>

\* loadOperation, second read.  A terminal operation without a new retry
\* generation only has its lock released; active tasks are an error.
ListTasks(c) ==
    /\ At(c, "listTasks")
    /\ LET w == [ctl[c] EXCEPT !.view = TasksOf(ctl[c].op)]
       IN  IF w.snap.phase \in TerminalPhases /\ ~RetryRequested(w.snap)
           THEN Follow(c, w, IF ActiveTasks(w.view) # {} THEN Return
                             ELSE Loop("getLock", {}))
           ELSE Become(c, [w EXCEPT !.pc = "listOps"])
    /\ UNCHANGED <<storeVars, clock>>

\* reconcileOperation up to the lock.
ListOperations(c) ==
    /\ At(c, "listOps")
    /\ LET w == ctl[c]
       IN  IF RetryRequested(w.snap) /\ ~IsLatestOperation(w.op, w.snap, ops)
           THEN Follow(c, w, Loop("skipRetry", {}))
           ELSE IF ~IsEarliestRunnable(w.op, w.snap, ops) THEN Done(c)
           ELSE IF /\ w.snap.phase = "Pending" /\ w.snap.desired = "Canceled"
                   /\ DOMAIN w.view = {}
           THEN Follow(c, w, Finish("Canceled", "CancelledByRequest"))
           ELSE Goto(c, "acquire")
    /\ UNCHANGED <<storeVars, clock>>

AcquireLockStep(c) ==
    /\ At(c, "acquire")
    /\ IF CanAcquireLock(ctl[c].op)
       THEN /\ AcquireLock(ctl[c].op)
            /\ LET w == [ctl[c] EXCEPT !.lockUID = lock'[TargetOf[ctl[c].op]].uid]
               IN  Follow(c, w, ReconcileLocked(w.op, w.snap, w.view, clock[w.op]))
       ELSE Done(c) /\ UNCHANGED storeVars
    /\ UNCHANGED clock

\* retryStillLatest: list again now that the lock is held.
RetryStillLatest(c) ==
    /\ At(c, "relist")
    /\ Goto(c, IF IsLatestOperation(ctl[c].op, ctl[c].snap, ops)
               THEN "reopen" ELSE "unlock")
    /\ UNCHANGED <<storeVars, clock>>

\* retryStillLatest: give the lock back before skipping the generation.
UnlockSkippedRetry(c) ==
    /\ At(c, "unlock")
    /\ ReleaseLock(ctl[c].op, ctl[c].lockUID)
    /\ IF lock[TargetOf[ctl[c].op]].holder = NoOp \/ HoldsLock(ctl[c].op, ctl[c].lockUID)
       THEN Goto(c, "skipRetry") ELSE Done(c)
    /\ UNCHANGED clock

\* A status write of the worker's operation: applied or refused (conflict).
WriteStatus(c, new) ==
    IF CanUpdateStatus(ctl[c].op, ctl[c].snap, new)
    THEN UpdateOperationStatus(ctl[c].op, new) ELSE UNCHANGED storeVars

SkipRetry(c) ==
    /\ At(c, "skipRetry")
    /\ WriteStatus(c, [ctl[c].snap EXCEPT !.observed = ctl[c].snap.gen])
    /\ Done(c)
    /\ UNCHANGED clock

ReopenForRetry(c) ==
    /\ At(c, "reopen")
    /\ WriteStatus(c, [ctl[c].snap EXCEPT !.phase = "Pending", !.reason = "",
                          !.observed = ctl[c].snap.gen, !.deadline = NoDeadline])
    /\ Done(c)
    /\ UNCHANGED clock

\* The deadline of the run is computed from the time of this step.
StartOperation(c) ==
    LET op == ctl[c].snap
        new == [op EXCEPT !.phase = "Running", !.observed = op.gen,
                          !.deadline = op.gen, !.reason = ""]
    IN  /\ At(c, "start")
        /\ WriteStatus(c, new)
        /\ clock' = IF CanUpdateStatus(ctl[c].op, op, new)
                    THEN [clock EXCEPT ![ctl[c].op] = 0] ELSE clock
        /\ Done(c)

-----------------------------------------------------------------------------
\* One iteration of a loop over tasks: after the last one the worker returns.
NextOf(c, t) ==
    IF ctl[c].todo = {t} THEN Done(c)
    ELSE Become(c, [ctl[c] EXCEPT !.todo = @ \ {t}])

\* cancelPending and the timeout loop stop at the first conflict.
TerminateTask(c, t, pc, expected, phase) ==
    /\ At(c, pc)
    /\ t \in ctl[c].todo
    /\ IF CanUpdateTask(t, expected)
       THEN UpdateTask(t, phase, FALSE) /\ NextOf(c, t)
       ELSE Done(c) /\ UNCHANGED storeVars
    /\ UNCHANGED clock

CancelPendingTask(c, t) == TerminateTask(c, t, "cancel", "Pending", "Canceled")
TimeoutRunningTask(c, t) == TerminateTask(c, t, "timeout", "Running", "TimedOut")

\* createAttempts' loop.  The task of an earlier, interrupted loop is accepted:
\* its spec is a function of its name (SameNameSameDeadline).
CreateAttempt(c, t) ==
    /\ At(c, "create")
    /\ t \in ctl[c].todo
    /\ CreateTask(t, ctl[c].snap.deadline)
    /\ NextOf(c, t)
    /\ UNCHANGED clock

-----------------------------------------------------------------------------
\* finish: re-list immediately before the irreversible transition.
FinishList(c) ==
    /\ At(c, "finishList")
    /\ LET w == ctl[c]
           view == TasksOf(w.op)
           safe == /\ ActiveTasks(view) = {}
                   /\ \/ w.goal.phase # "Succeeded"
                      \/ ValidFacts(w.op, w.snap.gen, view) /\ Complete(w.op, view)
       IN  IF safe THEN Goto(c, "finishWrite") ELSE Done(c)
    /\ UNCHANGED <<storeVars, clock>>

\* Mutant: the lock is released although the status write was refused.
FinishWrite_AlwaysReleases(c) ==
    LET w == ctl[c]
        new == [w.snap EXCEPT !.phase = w.goal.phase, !.reason = w.goal.reason,
                              !.observed = w.snap.gen]
    IN  /\ At(c, "finishWrite")
        /\ WriteStatus(c, new)
        /\ IF w.lockUID # 0 THEN Goto(c, "release") ELSE Done(c)
        /\ UNCHANGED clock

\* finish: the terminal status first, the lock (if the worker took it) after.
FinishWrite(c) ==
    LET w == ctl[c]
        new == [w.snap EXCEPT !.phase = w.goal.phase, !.reason = w.goal.reason,
                              !.observed = w.snap.gen]
    IN  /\ At(c, "finishWrite")
        /\ WriteStatus(c, new)
        /\ IF CanUpdateStatus(w.op, w.snap, new) /\ w.lockUID # 0
           THEN Goto(c, "release") ELSE Done(c)
        /\ UNCHANGED clock

\* Mutant: the lock of a terminal operation is left to its last worker.
GetLock_Leaves(c) ==
    /\ At(c, "getLock")
    /\ Done(c)
    /\ UNCHANGED <<storeVars, clock>>

\* releaseTerminalLock reads the lock and leaves another holder's alone.
GetLock(c) ==
    /\ At(c, "getLock")
    /\ IF lock[TargetOf[ctl[c].op]].holder = ctl[c].op
       THEN Become(c, [ctl[c] EXCEPT !.pc = "release",
                                     !.lockUID = lock[TargetOf[ctl[c].op]].uid])
       ELSE Done(c)
    /\ UNCHANGED <<storeVars, clock>>

ReleaseTerminalLock(c) ==
    /\ At(c, "release")
    /\ ReleaseLock(ctl[c].op, ctl[c].lockUID)
    /\ Done(c)
    /\ UNCHANGED clock

\* Reconcile is interrupted: the process stops or loses its leadership, a store
\* call fails, or its response is lost after (that step and) before this one.
Abort(c) ==
    /\ ~At(c, "idle")
    /\ Done(c)
    /\ UNCHANGED <<storeVars, clock>>

\* The next step of a Reconcile in progress.
ReconcileStep(c) ==
    \/ ListTasks(c) \/ ListOperations(c) \/ AcquireLockStep(c)
    \/ RetryStillLatest(c) \/ UnlockSkippedRetry(c) \/ SkipRetry(c)
    \/ ReopenForRetry(c) \/ StartOperation(c)
    \/ \E t \in ctl[c].todo : CancelPendingTask(c, t)
    \/ \E t \in ctl[c].todo : TimeoutRunningTask(c, t)
    \/ \E t \in ctl[c].todo : CreateAttempt(c, t)
    \/ FinishList(c) \/ FinishWrite(c) \/ GetLock(c) \/ ReleaseTerminalLock(c)

=============================================================================
