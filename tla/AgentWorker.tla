----------------------------- MODULE AgentWorker -----------------------------
(***************************************************************************)
(* One agent's worker in detail: it selects a task from its informer's     *)
(* cache, reads that task from the server, makes it Running, executes it   *)
(* and writes the outcome.  Every call to the server may fail, or take     *)
(* effect and lose its response; the cache may be behind; the agent may    *)
(* die.  TaskAgent has the same worker without cache, queue and calls.     *)
(*                                                                         *)
(* The server's side is reduced to what it does to the tasks of one node:  *)
(* it creates one when the last has ended (the execution lock), times it   *)
(* out, and purges ended ones, after which a name can come back.           *)
(***************************************************************************)
EXTENDS Naturals, Sequences, FiniteSets

CONSTANTS
    Names,         \* of tasks
    MaxTasks,      \* bound on the tasks created
    MaxFailures    \* bound on failed calls and crashes

ASSUME WorkerAssumption == Names # {} /\ MaxTasks \in Nat \ {0} /\ MaxFailures \in Nat

VARIABLES
    store,      \* [Names -> a task]: the task's UID, which grows with time, and phase
    cache,      \* what the informer has of it
    events,     \* the watch stream between the two
    queued,     \* is syncKey in the workqueue?
    pc,         \* the worker
    selected,   \* the name it has selected
    task,       \* its copy of that task
    created,    \* the last UID
    ended,      \* the UIDs whose outcome an execution has determined
    failures

serverVars == <<store, events, created, ended>>
workerVars == <<pc, selected, task>>
vars == <<serverVars, cache, queued, workerVars, failures>>

Terminal == {"Succeeded", "Failed", "TimedOut"}

Task == [uid : 0..MaxTasks, phase : {"absent", "Pending", "Running"} \cup Terminal]

NoTask == [uid |-> 0, phase |-> "absent"]

\* The task t in another phase.
In(t, phase) == [uid |-> t.uid, phase |-> phase]

\* Every variable has its type.
TypeOK ==
    /\ store \in [Names -> Task] /\ cache \in [Names -> Task]
    /\ events \in Seq([name : Names, task : Task])
    /\ queued \in BOOLEAN
    /\ pc \in {"idle", "get", "start", "run", "finish", "check"}
    /\ selected \in Names /\ task \in Task /\ (pc = "idle" <=> task = NoTask)
    /\ created \in 0..MaxTasks /\ ended \subseteq 1..MaxTasks
    /\ failures \in 0..MaxFailures

Init ==
    /\ store = [n \in Names |-> NoTask] /\ cache = store
    /\ events = <<>>
    /\ queued = TRUE
    /\ pc = "idle" /\ selected = (CHOOSE n \in Names : TRUE) /\ task = NoTask
    /\ created = 0 /\ ended = {} /\ failures = 0

Write(n, t) ==
    /\ store' = [store EXCEPT ![n] = t]
    /\ events' = Append(events, [name |-> n, task |-> t])

Fail == failures < MaxFailures /\ failures' = failures + 1

-----------------------------------------------------------------------------
(***************************************************************************)
(* The server.                                                             *)
(***************************************************************************)
CreateTask(n) ==
    /\ store[n].phase = "absent" /\ created < MaxTasks
    /\ \A m \in Names : store[m].phase \notin {"Pending", "Running"}
    /\ created' = created + 1
    /\ Write(n, [uid |-> created', phase |-> "Pending"])
    /\ UNCHANGED <<ended, cache, queued, workerVars, failures>>

TimeOutTask(n) ==
    /\ store[n].phase \in {"Pending", "Running"}
    /\ Write(n, In(store[n], "TimedOut"))
    /\ UNCHANGED <<created, ended, cache, queued, workerVars, failures>>

PurgeTask(n) ==
    /\ store[n].phase \in Terminal
    /\ Write(n, NoTask)
    /\ UNCHANGED <<created, ended, cache, queued, workerVars, failures>>

-----------------------------------------------------------------------------
(***************************************************************************)
(* The worker.                                                             *)
(***************************************************************************)
Return == pc' = "idle" /\ task' = NoTask

\* A sync that returns an error is added again, rate limited.
Retry == Return /\ queued' = TRUE

CachedIn(phase) == {n \in Names : cache[n].phase = phase}

\* selectTask: the Running task, of which there is one, or the oldest Pending one.
SelectTask ==
    IF CachedIn("Running") # {} THEN CachedIn("Running")
    ELSE {n \in CachedIn("Pending") : \A m \in CachedIn("Pending") : cache[n].uid <= cache[m].uid}

Sync ==
    /\ pc = "idle" /\ queued
    /\ \/ Cardinality(CachedIn("Running")) > 1 /\ UNCHANGED <<queued, workerVars>>
       \/ Cardinality(CachedIn("Running")) <= 1 /\ SelectTask = {} /\ queued' = FALSE /\ UNCHANGED workerVars
       \/ /\ Cardinality(CachedIn("Running")) <= 1 /\ queued' = FALSE
          /\ selected' \in SelectTask /\ task' = cache[selected'] /\ pc' = "get"
    /\ UNCHANGED <<serverVars, cache, failures>>

Live == store[selected]

\* Mutant: the cached copy is taken.
GetLiveTask_Cached ==
    /\ pc = "get"
    /\ pc' = (IF task.phase = "Pending" THEN "start" ELSE "run")
    /\ UNCHANGED <<serverVars, cache, queued, selected, task, failures>>

\* Mutant: a failed call ends the sync without an error.
GetLiveTask_Dropped ==
    /\ pc = "get"
    /\ \/ /\ Live.uid = task.uid /\ Live.phase \in {"Pending", "Running"}
          /\ pc' = (IF Live.phase = "Pending" THEN "start" ELSE "run") /\ task' = Live
          /\ UNCHANGED <<queued, failures>>
       \/ /\ Live.uid # task.uid \/ Live.phase \in Terminal
          /\ Return /\ UNCHANGED <<queued, failures>>
       \/ Fail /\ Return /\ UNCHANGED queued
    /\ UNCHANGED <<serverVars, cache, selected>>

\* getLiveTask: a task that is gone is left to the informer; one that has ended,
\* or has been replaced since, is looked at again.
GetLiveTask ==
    /\ pc = "get"
    /\ \/ /\ Live.uid = task.uid /\ Live.phase \in {"Pending", "Running"}
          /\ pc' = (IF Live.phase = "Pending" THEN "start" ELSE "run") /\ task' = Live
          /\ UNCHANGED <<queued, failures>>
       \/ Live.phase = "absent" /\ Return /\ UNCHANGED <<queued, failures>>
       \/ /\ Live.phase # "absent" /\ (Live.uid # task.uid \/ Live.phase \in Terminal)
          /\ Retry /\ UNCHANGED failures
       \/ Fail /\ Retry
    /\ UNCHANGED <<serverVars, cache, selected>>

\* startPendingTask: the conditional write of Running; the response may be lost.
StartPendingTask ==
    /\ pc = "start"
    /\ \/ /\ Live = task /\ Write(selected, In(task, "Running"))
          /\ \/ pc' = "run" /\ task' = In(task, "Running") /\ UNCHANGED <<queued, failures>>
             \/ Fail /\ Retry
       \/ Live # task /\ Retry /\ UNCHANGED <<store, events, failures>>
       \/ Fail /\ Retry /\ UNCHANGED <<store, events>>
    /\ UNCHANGED <<created, ended, cache, selected>>

\* execute: the command comes to an end.
Execute ==
    /\ pc = "run"
    /\ pc' = "finish"
    /\ UNCHANGED <<serverVars, cache, queued, selected, task, failures>>

\* Mutant: the outcome is written over whatever the server has.
Finish_Unconditional ==
    /\ pc = "finish"
    /\ Live.uid = task.uid
    /\ \E phase \in Terminal : Write(selected, In(task, phase))
    /\ ended' = ended \cup {task.uid}
    /\ Retry
    /\ UNCHANGED <<created, cache, selected, failures>>

\* finish: the conditional write of the outcome.
Finish ==
    /\ pc = "finish"
    /\ \/ /\ Live = task
          /\ \E phase \in Terminal : Write(selected, In(task, phase))
          /\ ended' = ended \cup {task.uid}
          /\ \/ Retry /\ UNCHANGED failures
             \/ Fail /\ pc' = "check" /\ UNCHANGED <<queued, task>>
       \/ /\ Live # task
          /\ pc' = "check" /\ UNCHANGED <<store, events, ended, queued, task, failures>>
       \/ Fail /\ pc' = "check" /\ UNCHANGED <<store, events, ended, queued, task>>
    /\ UNCHANGED <<created, cache, selected>>

\* After an error a task that has ended is accepted; otherwise, or if this call
\* fails too, the sync is retried.
CheckOutcome ==
    /\ pc = "check"
    /\ Retry
    /\ UNCHANGED <<serverVars, cache, selected, failures>>

WorkerStep == Sync \/ GetLiveTask \/ StartPendingTask \/ Execute \/ Finish \/ CheckOutcome

-----------------------------------------------------------------------------
\* Every event wakes the worker.
Deliver ==
    /\ events # <<>>
    /\ cache' = [cache EXCEPT ![Head(events).name] = Head(events).task]
    /\ events' = Tail(events)
    /\ queued' = TRUE
    /\ UNCHANGED <<store, created, ended, workerVars, failures>>

\* The agent starts again with a list of the tasks.
Restart ==
    /\ Fail
    /\ Return
    /\ cache' = store /\ events' = <<>> /\ queued' = TRUE
    /\ UNCHANGED <<store, created, ended, selected>>

Next ==
    \/ \E n \in Names : CreateTask(n) \/ TimeOutTask(n) \/ PurgeTask(n)
    \/ WorkerStep \/ Deliver \/ Restart

Spec == Init /\ [][Next]_vars

\* The worker and the watch go on; nothing is asked of the server.
FairSpec == Spec /\ WF_vars(WorkerStep) /\ WF_vars(Deliver)

-----------------------------------------------------------------------------
(***************************************************************************)
(* Properties.                                                             *)
(***************************************************************************)
\* A task whose outcome has been written is not executed again, however far
\* the cache is behind and whatever responses were lost: "informer cache is
\* only for waking up and ordering" (getLiveTask).
EndedIsNotRerun == pc \in {"run", "finish"} => task.uid \notin ended

\* Every variable has its type, and no task is executed again whose outcome is
\* written (getLiveTask, startPendingTask, finish).
AgentInvariant == TypeOK /\ EndedIsNotRerun

\* Every task comes to an end by the agent's work alone, whatever the cache
\* shows of older ones, through failed calls, lost responses and a restart.
PendingIsExecuted ==
    \A u \in 1..MaxTasks :
        (\E n \in Names : store[n] = [uid |-> u, phase |-> "Pending"]) ~>
            (created >= u /\ \A n \in Names : store[n].uid = u => store[n].phase \in Terminal)

\* The phase of the task with UID u in the store s.
PhaseIn(s, u) ==
    IF \E n \in Names : s[n].uid = u
    THEN s[CHOOSE n \in Names : s[n].uid = u].phase ELSE "absent"

Executing == IF pc \in {"run", "finish"} THEN {task.uid} ELSE {}

\* The worker with its cache, its queue and its calls does what the agent of the
\* operation engine does in single steps on the stored tasks (sync).
Contract == INSTANCE TaskContract WITH Uids <- 1..MaxTasks,
                phase <- [u \in 1..MaxTasks |-> PhaseIn(store, u)], exec <- Executing

ImplementsContract == Contract!Spec

=============================================================================
