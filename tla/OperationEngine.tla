--------------------------- MODULE OperationEngine ---------------------------
(***************************************************************************)
(* Operation engine v2: controller workers, API handlers, agents and the   *)
(* clock over one store.  The components share nothing but the store.      *)
(***************************************************************************)
EXTENDS OperationController, OperationAPI, TaskAgent

CONSTANT MaxFaults   \* bound on interrupted reconciles, agent stops, lost responses
ASSUME MaxFaultsAssumption == MaxFaults \in Nat

VARIABLE faults

vars == <<ops, tasks, lock, opRev, ctl, clock, retrying, exec, faults>>

TypeOK ==
    /\ StoreTypeOK /\ ControllerTypeOK /\ APITypeOK /\ AgentTypeOK
    /\ faults \in 0..MaxFaults

Init == StoreInit /\ ControllerInit /\ APIInit /\ AgentInit /\ faults = 0

-----------------------------------------------------------------------------
Executing(o) == \E n \in Nodes : \E t \in exec[n] : t.op = o

\* Time reaches the deadline of a running operation ...
DeadlineReached(o) ==
    /\ ops[o].phase = "Running" /\ clock[o] = 0
    /\ clock' = [clock EXCEPT ![o] = 1]
    /\ UNCHANGED <<storeVars, ctl, retrying, exec, faults>>

\* ... and then the end of the server's termination grace period, by which a
\* command that dies with its deadline is gone.
GraceOver(o) ==
    /\ ops[o].phase = "Running" /\ clock[o] = 1
    /\ ClockSync => ~Executing(o)
    /\ clock' = [clock EXCEPT ![o] = 2]
    /\ UNCHANGED <<storeVars, ctl, retrying, exec, faults>>

ControllerNext(c) ==
    /\ ReconcileStep(c) \/ \E o \in Ops : GetOperation(c, o)
    /\ UNCHANGED <<retrying, exec, faults>>

APINext(o) == APIStep(o) /\ UNCHANGED <<ctl, clock, exec, faults>>

AgentNext(n) == AgentStep(n) /\ UNCHANGED <<ctl, clock, retrying, faults>>

Fault ==
    /\ faults < MaxFaults
    /\ faults' = faults + 1
    /\ UNCHANGED retrying
    /\ \/ \E c \in Ctrls : Abort(c) /\ UNCHANGED exec
       \/ \E n \in Nodes :
            /\ \/ \E t \in DOMAIN tasks : StartResponseLost(n, t)
               \/ StopAgent(n)
            /\ UNCHANGED <<ctl, clock>>

Next ==
    \/ \E c \in Ctrls : ControllerNext(c)
    \/ \E o \in Ops : APINext(o)
    \/ \E n \in Nodes : AgentNext(n)
    \/ \E o \in Ops : DeadlineReached(o) \/ GraceOver(o)
    \/ Fault

Spec == Init /\ [][Next]_vars

\* What the code's scheduling guarantees.  A started Reconcile goes on, every
\* operation is handed out again and again (events, RequeueAfter, resync), time
\* passes, and a command dies with its deadline.  Nothing is assumed of
\* clients, of agents before the deadline, or of a node that is gone.
Fairness ==
    /\ \A c \in Ctrls : WF_vars(ReconcileStep(c) /\ UNCHANGED <<retrying, exec, faults>>)
    /\ \A o \in Ops :
         SF_vars(\E c \in Ctrls : GetOperation(c, o) /\ UNCHANGED <<retrying, exec, faults>>)
    /\ \A o \in Ops : WF_vars(DeadlineReached(o)) /\ WF_vars(GraceOver(o))
    /\ \A n \in Nodes :
         WF_vars(\E t \in exec[n] : /\ Late(t) /\ FinishTask(n, t)
                                    /\ UNCHANGED <<ctl, clock, retrying, faults>>)

FairSpec == Spec /\ Fairness

-----------------------------------------------------------------------------
(***************************************************************************)
(* Safety.                                                                 *)
(***************************************************************************)
Terminal(o) == ops[o].phase \in TerminalPhases
Active(t) == tasks[t].phase \in ActivePhases
ActiveTasksOf(o) == {t \in DOMAIN tasks : t.op = o /\ Active(t)}
Attempts(t) == {u \in DOMAIN tasks : u.op = t.op /\ u.step = t.step /\ u.node = t.node}

\* An operation that is Running holds the ExecutionLock of its target, however
\* many reconciles were interrupted on the way (acquireLock, finish,
\* releaseTerminalLock).
RunningHoldsLock ==
    \A o \in Ops : ops[o].phase = "Running" => lock[TargetOf[o]].holder = o

\* The lock's purpose: of the operations of one target, at most one has
\* unfinished tasks or a command on some node (createAttempts, finish,
\* ReleaseLock; worker.execute).
TargetExclusion ==
    \A o, p \in Ops :
        /\ o # p /\ TargetOf[o] = TargetOf[p]
        /\ ActiveTasksOf(o) # {} \/ Executing(o)
        => ActiveTasksOf(p) = {} /\ ~Executing(p)

\* An operation in a terminal phase has no unfinished task and no command on
\* any node (the re-list in finish, the two-minute grace in reconcileDeadline).
TerminalIsQuiescent ==
    \A o \in Ops : Terminal(o) => ActiveTasksOf(o) = {} /\ ~Executing(o)

\* A task of a step exists only when every node of every earlier step has
\* succeeded (currentStepFacts, createAttempts).
StepBarrier ==
    \A t \in DOMAIN tasks : \A s \in 1..(t.step - 1) : \A n \in Plan[t.op][s].targets :
        \E u \in DOMAIN tasks :
            u.op = t.op /\ u.step = s /\ u.node = n /\ tasks[u].phase = "Succeeded"

\* The attempts of a node for a step follow one another: a later attempt exists
\* only when the earlier ones have ended without success, so none overlaps
\* another, none repeats a success, and no two share a number (nextAttempt).
AttemptsInSequence ==
    \A t \in DOMAIN tasks : \A u \in Attempts(t) \ {t} :
        /\ t.attempt # u.attempt
        /\ t.attempt < u.attempt =>
              tasks[t].phase \in {"Failed", "TimedOut", "Canceled"} /\ t.gen <= u.gen

\* Retry budgets: 1 + retryLimit executed attempts in the generation that first
\* reached the step on the node, one task in each later one (executedAttempts,
\* retryGenerationAttempt).
AttemptBudget ==
    \A t \in DOMAIN tasks :
        LET base == BaseGeneration(TasksOf(t.op), t.step, t.node)
            mine == {u \in Attempts(t) : u.gen = t.gen}
        IN  IF t.gen = base
            THEN ExecutedAttempts(TasksOf(t.op), t.step, t.node, base)
                    <= 1 + Plan[t.op][t.step].retryLimit
            ELSE Cardinality(mine) = 1

\* The verdict is the truth about the plan, whichever of the last success, the
\* cancel request and the deadline came first: a terminal operation is Succeeded
\* exactly when all nodes of all steps have succeeded (finish, Conclude).
SuccessIffComplete ==
    \A o \in Ops : Terminal(o) =>
        (ops[o].phase = "Succeeded" <=> Complete(o, TasksOf(o)))

\* The controller blames its own facts only for a missing output of an earlier
\* step: interrupted reconciles, retries and races never leave facts that
\* validateAndCurrentStep refuses.
InvalidFactsOnlyForMissingOutput ==
    \A o \in Ops : ops[o].reason = "InvalidExecutionFacts" =>
        LET view == TasksOf(o)
        IN  ~Complete(o, view) /\ ~PayloadReady(o, view, CurrentStep(o, view))

\* A deterministic name that already exists names the very task the worker was
\* about to create (createAttempts' comparison of specs never fails).
SameNameSameDeadline ==
    \A c \in Ctrls : At(c, "create") =>
        \A t \in ctl[c].todo \cap DOMAIN tasks :
            tasks[t].deadline = ctl[c].snap.deadline

\* The tasks of an operation stay consistent although a former leader goes on
\* with it beside the new one and node clocks are off: every variable keeps its
\* type, and attempts, steps, facts and names are as with one leader (createAttempts
\* and the conditional writes of the store, without any help of the lock).  Beside
\* a former leader that is so until a client retries the operation: the former
\* leader can still create a task of the generation before the retry.
TasksConsistent ==
    /\ TypeOK
    /\ StepBarrier /\ AttemptsInSequence /\ AttemptBudget
    /\ InvalidFactsOnlyForMissingOutput /\ SameNameSameDeadline

\* Operations of one target run in the order of their creation: when one is
\* Running, the older ones are over (isEarliestRunnable, isLatestOperation).
RunInCreationOrder ==
    \A o, p \in Ops :
        /\ TargetOf[o] = TargetOf[p] /\ ops[o].phase = "Running"
        /\ ops[p].phase # "Absent" /\ ops[p].created < ops[o].created
        => Terminal(p)

\* The lock leaves an operation only when that operation is over and quiet, and
\* never passes directly to another one (ReleaseLock's UID and holder checks).
LockReleasedWhenQuiet ==
    [][\A g \in Targets :
          LET h == lock[g].holder
          IN  lock'[g].holder # h /\ h # NoOp =>
                 lock'[g].holder = NoOp /\ Terminal(h) /\ ActiveTasksOf(h) = {}]_vars

-----------------------------------------------------------------------------
(***************************************************************************)
(* Why it holds: the inductive invariant behind the lock, for one leader.  *)
(***************************************************************************)
OneWorkerPerOperation ==
    \A c, d \in Ctrls : c # d /\ ~At(c, "idle") => ctl[c].op # ctl[d].op

\* A retry handler's write can only hit an operation that is still terminal.
RetryRevisions ==
    \A o \in Ops :
        /\ ops[o].rv <= opRev /\ retrying[o] <= opRev
        /\ retrying[o] # 0 /\ retrying[o] = ops[o].rv => Terminal(o)
        /\ RetryRequested(ops[o]) => Terminal(o)

\* What a worker in the middle of Reconcile may still rely on.
WorkerKnows(w) ==
    /\ RetryRequested(w.snap) => w.snap.phase \in TerminalPhases
    /\ \A t \in w.todo \cup DOMAIN w.view : t.op = w.op
    /\ w.pc \notin {"idle", "release"} =>
          ops[w.op].phase = w.snap.phase /\ w.snap.phase # "Absent"
    /\ w.pc \in {"relist", "unlock", "skipRetry", "reopen", "getLock"} =>
          w.snap.phase \in TerminalPhases
    /\ w.pc = "release" => Terminal(w.op)
    /\ w.pc = "start" => lock[TargetOf[w.op]].holder = w.op
    /\ w.pc \in {"create", "timeout"} => w.snap.phase = "Running"
    /\ w.pc = "timeout" => clock[w.op] = 2
    /\ w.pc \in {"finishList", "finishWrite"} => w.goal.phase \in TerminalPhases
    /\ w.pc = "finishWrite" => ActiveTasksOf(w.op) = {}

ActiveOnlyWhileRunning ==
    \A t \in DOMAIN tasks : Active(t) => ops[t.op].phase = "Running"

\* With clocks in step, a command belongs to its node's Running task, and none
\* is left when the grace period is over.
CommandsInStep ==
    ClockSync =>
        /\ \A n \in Nodes : \A t \in exec[n] :
              t \in DOMAIN tasks /\ tasks[t].phase = "Running" /\ t.node = n
        /\ \A o \in Ops : ops[o].phase = "Running" /\ clock[o] = 2 => ~Executing(o)

\* The lock argument as a whole: every part is preserved only with the help of
\* the others.
LockInvariant ==
    /\ OneWorkerPerOperation
    /\ RetryRevisions
    /\ \A c \in Ctrls : WorkerKnows(ctl[c])
    /\ ActiveOnlyWhileRunning
    /\ RunningHoldsLock
    /\ CommandsInStep

-----------------------------------------------------------------------------
(***************************************************************************)
(* What the engine promises about one target (module TargetQueue).         *)
(***************************************************************************)
QueueState(op) ==
    CASE op.phase = "Absent" -> "absent"
      [] op.phase = "Pending" /\ op.observed = 0 -> "fresh"
      [] op.phase = "Pending" /\ op.observed > 0 -> "reopened"
      [] op.phase = "Running" -> "running"
      [] OTHER -> "ended"

Queue == INSTANCE TargetQueue WITH
    state <- [o \in Ops |-> QueueState(ops[o])],
    age <- [o \in Ops |-> ops[o].created],
    busy <- {o \in Ops : ActiveTasksOf(o) # {} \/ Executing(o)}

\* Workers, handlers, agents, faults and the clock together implement the queue
\* of each target, with the phase of an operation as its place in the queue and
\* its unfinished tasks and commands as its work.
ImplementsTargetQueue == Queue!QueueSpec

-----------------------------------------------------------------------------
(***************************************************************************)
(* Liveness.                                                               *)
(***************************************************************************)

\* Every operation, and every retry of it, is eventually settled, even when no
\* agent ever answers: the deadline and the grace period bound every wait.
EveryOperationSettles ==
    \A o \in Ops : ops[o].phase # "Absent" ~> (Terminal(o) /\ ~RetryRequested(ops[o]))

\* A lock does not outlive its operation's run: it is eventually released,
\* also when the worker stopped between the terminal write and the release.
LockIsReleased ==
    \A o \in Ops : lock[TargetOf[o]].holder = o ~> lock[TargetOf[o]].holder # o

=============================================================================
