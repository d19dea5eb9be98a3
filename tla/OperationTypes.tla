--------------------------- MODULE OperationTypes ---------------------------
(***************************************************************************)
(* The Operation, OperationTask and ExecutionLock objects of operation     *)
(* engine v2 and the phase rules that both the registry strategies and the *)
(* store enforce on every write of them.                                   *)
(*                                                                         *)
(* An Operation carries an immutable plan: a sequence of steps, each with  *)
(* the nodes it runs on, the automatic retry limit and the outputs of      *)
(* earlier steps it consumes.  A deadline is named by the retry generation *)
(* whose Running transition computed it: one generation enters Running at  *)
(* most once, so two deadlines are equal exactly when their names are.     *)
(***************************************************************************)
EXTENDS Integers, Sequences, FiniteSets

CONSTANTS
    Ops,        \* Operation UIDs that clients may create
    Targets,    \* cluster UIDs
    Nodes,      \* node UIDs, each with one agent
    NoOp,       \* "no operation": the holder of an absent lock
    TargetOf,   \* spec.targetRef.uid of each operation
    Plan        \* spec.steps of each operation

MaxRetryLimit == 3

OperationStep ==
    [targets    : SUBSET Nodes,
     retryLimit : Nat,
     inputs     : SUBSET [step : Nat, node : Nodes]]   \* fromStepID, fromNodeUID

\* validateStep and validateStepInputs: at least one target, a bounded retry
\* limit, and inputs that refer to earlier steps (of any node: the source node
\* is not required to be a target of that step).
ValidStep(steps, i) ==
    /\ steps[i].targets \in (SUBSET Nodes) \ {{}}
    /\ steps[i].retryLimit \in 0..MaxRetryLimit
    /\ steps[i].inputs \subseteq [step : 1..(i - 1), node : Nodes]

\* validateOperationSpec: at least one step.
ValidPlan(steps) == Len(steps) >= 1 /\ \A i \in 1..Len(steps) : ValidStep(steps, i)

ASSUME ConstantsAssumption ==
    /\ NoOp \notin Ops
    /\ TargetOf \in [Ops -> Targets]
    /\ DOMAIN Plan = Ops

\* createOperation and the strategy both refuse a plan that is not valid.
ASSUME PlanAssumption ==
    \A o \in Ops : Plan[o] \in Seq(OperationStep) /\ ValidPlan(Plan[o])

-----------------------------------------------------------------------------
\* "Absent" is an Operation that has not been created yet; the others are the
\* code's OperationPhase and TaskPhase, which have the same members.
TerminalPhases == {"Succeeded", "Failed", "TimedOut", "Canceled"}
ActivePhases == {"Pending", "Running"}
Phases == ActivePhases \cup TerminalPhases
Reasons == {"", "StepFailed", "DeadlineExceeded", "CancelledByRequest",
            "InvalidExecutionFacts"}

NoDeadline == -1

Operation ==
    [phase    : Phases \cup {"Absent"},
     desired  : {"Active", "Canceled"},   \* spec.desiredState
     gen      : Nat,                      \* spec.retryGeneration
     observed : Nat,                      \* status.observedRetryGeneration
     deadline : Nat \cup {NoDeadline},    \* status.deadline
     reason   : Reasons,                  \* status.reason
     created  : Nat,                      \* metadata.creationTimestamp, in seconds
     rv       : Nat]                      \* metadata.resourceVersion

AbsentOperation ==
    [phase |-> "Absent", desired |-> "Active", gen |-> 0, observed |-> 0,
     deadline |-> NoDeadline, reason |-> "", created |-> 0, rv |-> 0]

\* A task's name is a hash of exactly these five fields: it is its identity.
TaskId == [op : Ops, gen : Nat, step : Nat, node : Nodes, attempt : Nat]

TaskName(o, g, s, n, a) ==
    [op |-> o, gen |-> g, step |-> s, node |-> n, attempt |-> a]

OperationTask ==
    [phase    : Phases,
     deadline : Nat \cup {NoDeadline},    \* spec.deadline
     out      : BOOLEAN]                  \* status.result carries the outputs
                                          \* that later steps ask for

NewTask(deadline) == [phase |-> "Pending", deadline |-> deadline, out |-> FALSE]

NoTasks == [t \in {} |-> NewTask(NoDeadline)]

\* f is a map from task names to tasks.
IsTaskMap(f) ==
    /\ f = [t \in DOMAIN f |-> f[t]]
    /\ \A t \in DOMAIN f : t \in TaskId /\ f[t] \in OperationTask

Lock == [holder : Ops \cup {NoOp}, uid : Nat]

-----------------------------------------------------------------------------
\* validatePhaseTransition, shared by operations and tasks.
ValidPhaseTransition(old, new) ==
    \/ old \in TerminalPhases /\ new = old
    \/ old = "Pending" /\ new \in {"Pending", "Running", "Canceled"}
    \/ old = "Running" /\ new \in {"Running"} \cup TerminalPhases

\* The one exception, for operations: a new retry generation reopens a
\* terminal operation that has not succeeded.
IsRetryReopen(old, new) ==
    /\ old.phase \in TerminalPhases \ {"Succeeded"}
    /\ new.phase = "Pending"
    /\ old.desired = "Active"
    /\ old.gen > old.observed
    /\ new.observed = old.gen

=============================================================================
