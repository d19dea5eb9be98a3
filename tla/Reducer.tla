------------------------------- MODULE Reducer -------------------------------
(***************************************************************************)
(* The pure functions of the operation controller (reducer.go): what the   *)
(* persisted task facts of one operation say about its current step, which *)
(* attempts may be created next, and in which order the operations of one  *)
(* target run.                                                             *)
(*                                                                         *)
(* "view" is the list of tasks the controller read: a map from task names  *)
(* to tasks.                                                               *)
(***************************************************************************)
EXTENDS OperationTypes

TasksIn(view, phases) == {t \in DOMAIN view : view[t].phase \in phases}

PendingTasks(view) == TasksIn(view, {"Pending"})
RunningTasks(view) == TasksIn(view, {"Running"})
ActiveTasks(view) == TasksIn(view, ActivePhases)

\* facts.Tasks and facts.ByNode of step s.
StepTasks(view, s) == {t \in DOMAIN view : t.step = s}
NodeTasks(view, s, n) == {t \in StepTasks(view, s) : t.node = n}

NodeSucceeded(view, s, n) ==
    \E t \in NodeTasks(view, s, n) : view[t].phase = "Succeeded"

\* Mutant: one success is enough for the step.
Incomplete_AnyNode(o, view, s) ==
    {n \in Plan[o][s].targets :
        \A m \in Plan[o][s].targets : ~NodeSucceeded(view, s, m)}

\* facts.Incomplete: the targets of step s without a successful attempt.
Incomplete(o, view, s) ==
    {n \in Plan[o][s].targets : ~NodeSucceeded(view, s, n)}

IncompleteSteps(o, view) == {s \in DOMAIN Plan[o] : Incomplete(o, view, s) # {}}

Complete(o, view) == IncompleteSteps(o, view) = {}

\* The first step with a target that has no successful attempt.
CurrentStep(o, view) ==
    CHOOSE s \in IncompleteSteps(o, view) :
        \A r \in IncompleteSteps(o, view) : s <= r

\* Mutant: tasks of earlier generations are refused.
ValidFacts_OneGeneration(o, gen, view) ==
    /\ \A t \in DOMAIN view :
         t.op = o /\ t.step \in DOMAIN Plan[o] /\ t.node \in Plan[o][t.step].targets
         /\ t.gen = gen
    /\ Complete(o, view) \/ \A t \in DOMAIN view : t.step <= CurrentStep(o, view)

\* indexAndValidateTasks and validateLaterStepsEmpty.  A task's executor is a
\* function of its step, so the comparison of executors adds nothing here.
ValidFacts(o, gen, view) ==
    /\ \A t \in DOMAIN view :
         /\ t.op = o
         /\ t.step \in DOMAIN Plan[o]
         /\ t.node \in Plan[o][t.step].targets
         /\ t.gen <= gen
    /\ \/ Complete(o, view)
       \/ \A t \in DOMAIN view : t.step <= CurrentStep(o, view)

-----------------------------------------------------------------------------
\* The attempt with the highest number.  Two attempts of a node never share a
\* number (AttemptsInSequence), so the creation time never breaks a tie.
LatestTask(view, s, n) ==
    CHOOSE t \in NodeTasks(view, s, n) :
        \A u \in NodeTasks(view, s, n) : u.attempt <= t.attempt

LatestFailure(o, view, s) ==
    \E n \in Incomplete(o, view, s) :
        /\ NodeTasks(view, s, n) # {}
        /\ view[LatestTask(view, s, n)].phase \in {"Failed", "TimedOut"}

\* The generation in which the node first got a task for the step.
BaseGeneration(view, s, n) ==
    CHOOSE g \in {t.gen : t \in NodeTasks(view, s, n)} :
        \A t \in NodeTasks(view, s, n) : g <= t.gen

\* Attempts that entered Running; a task canceled while Pending is not one.
ExecutedAttempts(view, s, n, g) ==
    Cardinality({t \in NodeTasks(view, s, n) :
                    /\ t.gen = g
                    /\ view[t].phase \in Phases \ {"Pending", "Canceled"}})

\* Mutant: the number of the last attempt is reused.
NextAttempt_Reused(view, s, n) ==
    IF NodeTasks(view, s, n) = {} THEN 0 ELSE LatestTask(view, s, n).attempt

\* nextAttempt's number ...
NextAttempt(view, s, n) ==
    IF NodeTasks(view, s, n) = {} THEN 0
    ELSE LatestTask(view, s, n).attempt + 1

\* Mutant: one attempt too many.
Eligible_OffByOne(o, gen, view, s, n) ==
    LET mine == NodeTasks(view, s, n)
        base == BaseGeneration(view, s, n)
    IN  /\ \A t \in mine : view[t].phase \notin ActivePhases \cup {"Succeeded"}
        /\ \/ mine = {}
           \/ /\ mine # {} /\ gen = base
              /\ ExecutedAttempts(view, s, n, base) <= 1 + Plan[o][s].retryLimit
           \/ /\ mine # {} /\ gen > base
              /\ \A t \in mine : t.gen # gen

\* ... and its verdict: the base generation has 1 + retryLimit executed
\* attempts, every later generation exactly one task.
Eligible(o, gen, view, s, n) ==
    LET mine == NodeTasks(view, s, n)
        base == BaseGeneration(view, s, n)
    IN  /\ \A t \in mine : view[t].phase \notin ActivePhases \cup {"Succeeded"}
        /\ \/ mine = {}
           \/ /\ mine # {} /\ gen = base
              /\ ExecutedAttempts(view, s, n, base) < 1 + Plan[o][s].retryLimit
           \/ /\ mine # {} /\ gen > base
              /\ \A t \in mine : t.gen # gen

\* materializePayload: every input has exactly one successful source task and
\* that task reported the output asked for.
PayloadReady(o, view, s) ==
    \A input \in Plan[o][s].inputs :
        LET matches == {t \in NodeTasks(view, input.step, input.node) :
                            view[t].phase = "Succeeded"}
        IN  Cardinality(matches) = 1 /\ \A t \in matches : view[t].out

-----------------------------------------------------------------------------
\* operationBefore, and the API's operationLess: creation time in seconds,
\* then the resourceVersion the objects have NOW.  No two operations share a
\* resourceVersion, so the UID never decides.
OperationBefore(left, right) ==
    IF left.created = right.created THEN left.rv < right.rv
    ELSE left.created < right.created

RetryRequested(op) == op.gen > op.observed

OperationNeedsExecution(op) == op.phase \notin TerminalPhases \/ RetryRequested(op)

\* The other operations a List of o's target returns.
Others(o, list) ==
    {p \in Ops \ {o} : TargetOf[p] = TargetOf[o] /\ list[p].phase # "Absent"}

\* Mutant: only operations that already run are waited for.
IsEarliestRunnable_OnlyRunning(o, op, list) ==
    \A p \in Others(o, list) :
        list[p].phase = "Running" => ~OperationBefore(list[p], op)

\* op is the controller's copy of operation o, list what the store returned.
IsEarliestRunnable(o, op, list) ==
    \A p \in Others(o, list) :
        OperationNeedsExecution(list[p]) => ~OperationBefore(list[p], op)

\* Mutant: younger operations that are over are overlooked.
IsLatestOperation_OnlyUnfinished(o, op, list) ==
    \A p \in Others(o, list) :
        OperationNeedsExecution(list[p]) => ~OperationBefore(op, list[p])

IsLatestOperation(o, op, list) ==
    \A p \in Others(o, list) : ~OperationBefore(op, list[p])

=============================================================================
