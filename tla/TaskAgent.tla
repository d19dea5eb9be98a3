------------------------------ MODULE TaskAgent ------------------------------
(***************************************************************************)
(* The agents: each node's worker picks one of the tasks bound to its      *)
(* node, makes it Running, executes it and reports how it ended.  An agent *)
(* keeps nothing across a restart; it resumes the task that etcd says is   *)
(* Running.                                                                *)
(***************************************************************************)
EXTENDS OperationStore

CONSTANT ClockSync   \* TRUE: node clocks follow the server's, and a command
                     \* dies with the deadline of its task
ASSUME ClockSyncAssumption == ClockSync \in BOOLEAN

VARIABLE exec   \* [Nodes -> SUBSET TaskId]: the task each agent is executing

AgentTypeOK ==
    /\ DOMAIN exec = Nodes
    /\ \A n \in Nodes : \A t \in exec[n] : t \in TaskId

AgentInit == exec = [n \in Nodes |-> {}]

\* eligibleTasks, split by phase as in selectTask.
NodeTasksIn(n, phase) == {t \in DOMAIN tasks : t.node = n /\ tasks[t].phase = phase}

\* selectTask: a Running task is resumed, two of them are an error, otherwise a
\* Pending one is taken (the oldest; which one it is matters to no property).
Selectable(n) ==
    LET running == NodeTasksIn(n, "Running")
    IN  IF running = {} THEN NodeTasksIn(n, "Pending")
        ELSE IF Cardinality(running) = 1 THEN running ELSE {}

\* The deadline in the task's spec has passed (it may be that of an old run).
Late(t) == tasks[t].deadline # ops[t.op].deadline \/ clock[t.op] >= 1

\* startPendingTask and the start of execute: the command runs only after the
\* conditional write of Running was acknowledged, and not at all when the
\* context made from the task's deadline has already expired.
StartPendingTask(n, t) ==
    /\ exec[n] = {}
    /\ t \in Selectable(n)
    /\ CanUpdateTask(t, "Pending")
    /\ UpdateTask(t, "Running", FALSE)
    /\ \/ (ClockSync => ~Late(t)) /\ exec' = [exec EXCEPT ![n] = {t}]
       \/ Late(t) /\ UNCHANGED exec

\* The write is applied but its response is lost: nothing is executed yet.
StartResponseLost(n, t) ==
    /\ exec[n] = {}
    /\ t \in Selectable(n)
    /\ CanUpdateTask(t, "Pending")
    /\ UpdateTask(t, "Running", FALSE)
    /\ UNCHANGED exec

\* A Running task is executed again: after a restart or a lost response.
ResumeTask(n, t) ==
    /\ exec[n] = {}
    /\ t \in Selectable(n)
    /\ CanUpdateTask(t, "Running")
    /\ ClockSync => ~Late(t)
    /\ exec' = [exec EXCEPT ![n] = {t}]
    /\ UNCHANGED storeVars

\* A Running task whose deadline has passed is reported, not executed.
ReportExpired(n, t) ==
    /\ exec[n] = {}
    /\ t \in Selectable(n)
    /\ CanUpdateTask(t, "Running")
    /\ Late(t)
    /\ UpdateTask(t, "TimedOut", FALSE)
    /\ UNCHANGED exec

\* Some step of the plan takes an output of t's step on t's node as an input.
OutputWanted(t) ==
    \E s \in DOMAIN Plan[t.op] : [step |-> t.step, node |-> t.node] \in Plan[t.op][s].inputs

\* execute's end and finish: the outcome is written if the task is still
\* Running; the controller's TimedOut is accepted otherwise.  A success may
\* lack the output that a later step wants.  (An executor that fails with a
\* deadline error of its own reports TimedOut early; for the controller that
\* is the same as Failed.)
FinishTask(n, t) ==
    /\ t \in exec[n]
    /\ \/ /\ CanUpdateTask(t, "Running")
          /\ \/ UpdateTask(t, "Succeeded", TRUE)
             \/ OutputWanted(t) /\ UpdateTask(t, "Succeeded", FALSE)
             \/ UpdateTask(t, "Failed", FALSE)
             \/ Late(t) /\ UpdateTask(t, "TimedOut", FALSE)
       \/ ~CanUpdateTask(t, "Running") /\ UNCHANGED storeVars
    /\ exec' = [exec EXCEPT ![n] = {}]

\* The agent stops, or every write of the outcome fails: it will resume.
StopAgent(n) ==
    /\ exec[n] # {}
    /\ exec' = [exec EXCEPT ![n] = {}]
    /\ UNCHANGED storeVars

AgentStep(n) ==
    \/ \E t \in DOMAIN tasks :
         StartPendingTask(n, t) \/ ResumeTask(n, t) \/ ReportExpired(n, t)
    \/ \E t \in exec[n] : FinishTask(n, t)

=============================================================================
