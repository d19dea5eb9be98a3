----------------------------- MODULE TaskContract -----------------------------
(***************************************************************************)
(* What happens to the tasks of one node, as the operation engine sees it  *)
(* (TaskAgent, for one node): the agent starts, resumes and finishes tasks *)
(* by what is stored, in single steps.  There is no code of its own for    *)
(* this; AgentWorker implements it.                                        *)
(***************************************************************************)
EXTENDS FiniteSets

CONSTANT Uids   \* of the tasks that are ever made

VARIABLES
    phase,   \* of each task in the store
    exec     \* the task that the agent is executing, if any

vars == <<phase, exec>>

Ended == {"Succeeded", "Failed", "TimedOut"}

Init == phase = [u \in Uids |-> "absent"] /\ exec = {}

To(u, p) == phase' = [phase EXCEPT ![u] = p]

Create(u) == phase[u] = "absent" /\ To(u, "Pending") /\ UNCHANGED exec

TimeOut(u) == phase[u] \in {"Pending", "Running"} /\ To(u, "TimedOut") /\ UNCHANGED exec

Purge(u) == phase[u] \in Ended /\ To(u, "absent") /\ UNCHANGED exec

\* StartPendingTask and StartResponseLost of TaskAgent.
Start(u) ==
    /\ exec = {} /\ phase[u] = "Pending"
    /\ To(u, "Running")
    /\ exec' \in {{}, {u}}

\* ResumeTask: only a task that the store has as Running, and no second one.
Resume(u) ==
    /\ exec = {} /\ phase[u] = "Running"
    /\ exec' = {u} /\ UNCHANGED phase

\* FinishTask and StopAgent: an outcome is written over Running only.
Finish(u) ==
    /\ u \in exec /\ exec' = {}
    /\ \/ phase[u] = "Running" /\ \E p \in Ended : To(u, p)
       \/ UNCHANGED phase

Next == \E u \in Uids : Create(u) \/ TimeOut(u) \/ Purge(u) \/ Start(u) \/ Resume(u) \/ Finish(u)

Spec == Init /\ [][Next]_vars

=============================================================================
