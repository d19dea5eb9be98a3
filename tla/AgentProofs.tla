------------------------------ MODULE AgentProofs ------------------------------
(***************************************************************************)
(* Proofs about the two parts of the agent, for every value of the         *)
(* constants.                                                              *)
(*                                                                         *)
(* AgentWorker: no task whose outcome is written is executed again, and    *)
(* the worker implements TaskContract.  Neither needs to know anything of  *)
(* the cache or of the watch: a worker acts only on a task that it has     *)
(* just read from the server, and writes only over what it has read.       *)
(* WorkerInvariant says so.                                                *)
(*                                                                         *)
(* EtcdRestore: what a recovery leaves behind.  The argument is a table:   *)
(* for each part of the step, where the manifests and the data are when an *)
(* agent is about to execute it.                                           *)
(***************************************************************************)
EXTENDS AgentWorker, EtcdRestore, TLAPS

\* The server's side: the stored tasks have different UIDs, none is newer than
\* the last one made, and one that an execution has ended stays ended.
StoreInvariant ==
    /\ created \in 0..MaxTasks
    /\ store \in [Names -> Task]
    /\ ended \subseteq 1..created
    /\ \A n \in Names : store[n].uid <= created /\ (store[n].uid = 0 <=> store[n].phase = "absent")
    /\ \A n, m \in Names : store[n].uid = store[m].uid /\ store[n].uid # 0 => n = m
    /\ \A n \in Names : store[n].uid \in ended => store[n].phase \in Terminal

\* The worker's side: what it starts was Pending when it was read, and what it
\* executes is a Running task that has no outcome.
CopyInvariant ==
    /\ selected \in Names
    /\ pc = "start" => task \in Task /\ task.uid # 0 /\ task.phase = "Pending"
    /\ pc \in {"run", "finish"} =>
        task \in Task /\ task.uid \in 1..created /\ task.phase = "Running" /\ task.uid \notin ended

WorkerInvariant == StoreInvariant /\ CopyInvariant

LEMMA InitInvariant == Init => WorkerInvariant
<1>1. PICK n \in Names : TRUE
  BY WorkerAssumption
<1>2. (CHOOSE m \in Names : TRUE) \in Names
  BY <1>1
<1> QED
  BY <1>2, WorkerAssumption DEF Init, WorkerInvariant, StoreInvariant, CopyInvariant, NoTask, Task, Terminal

\* A write that keeps the UID of a task without an outcome, and its being there.
LEMMA RewriteKeepsStore ==
    ASSUME StoreInvariant, NEW n \in Names, NEW t \in Task,
           t.uid = store[n].uid, t.uid # 0, t.phase # "absent",
           store' = [store EXCEPT ![n] = t], created' = created,
           \/ ended' = ended /\ (t.uid \in ended => t.phase \in Terminal)
           \/ ended' = ended \cup {t.uid} /\ t.phase \in Terminal
    PROVE  StoreInvariant'
<1>1. \A m \in Names : store'[m] = IF m = n THEN t ELSE store[m]
  BY DEF StoreInvariant
<1>2. t.uid \in 1..created
  BY DEF StoreInvariant, Task
<1>3. created' \in 0..MaxTasks /\ store' \in [Names -> Task] /\ ended' \subseteq 1..created'
  BY <1>2 DEF StoreInvariant
<1>4. \A m \in Names : store'[m].uid = store[m].uid
  BY <1>1
<1>5. \A m \in Names : store'[m].uid <= created' /\ (store'[m].uid = 0 <=> store'[m].phase = "absent")
  BY <1>1 DEF StoreInvariant
<1>6. \A k, m \in Names : store'[k].uid = store'[m].uid /\ store'[k].uid # 0 => k = m
  BY <1>4 DEF StoreInvariant
<1>7. \A m \in Names : store[m].uid = t.uid => m = n
  BY DEF StoreInvariant
<1>8. ASSUME NEW m \in Names, store'[m].uid \in ended' PROVE store'[m].phase \in Terminal
  <2>1. CASE m = n
    BY <1>1, <1>8, <2>1
  <2>2. CASE m # n
    BY <1>1, <1>7, <1>8, <2>2 DEF StoreInvariant
  <2> QED
    BY <2>1, <2>2
<1> QED
  BY <1>3, <1>5, <1>6, <1>8 DEF StoreInvariant

LEMMA CreateTaskInvariant ==
    ASSUME WorkerInvariant, NEW n \in Names, CreateTask(n) PROVE WorkerInvariant'
<1> DEFINE t == [uid |-> created + 1, phase |-> "Pending"]
<1>1. /\ t \in Task /\ created + 1 \in 0..MaxTasks
      /\ store' = [store EXCEPT ![n] = t] /\ created' = created + 1 /\ ended' = ended
      /\ UNCHANGED <<pc, selected, task>>
  BY WorkerAssumption DEF CreateTask, Write, WorkerInvariant, StoreInvariant, Task, workerVars
<1>2. \A m \in Names : store'[m] = IF m = n THEN t ELSE store[m]
  BY <1>1 DEF WorkerInvariant, StoreInvariant
<1>3. StoreInvariant'
  <2>1. created' \in 0..MaxTasks /\ store' \in [Names -> Task] /\ ended' \subseteq 1..created'
    BY <1>1 DEF WorkerInvariant, StoreInvariant
  <2>2. \A m \in Names : store[m].uid \in Nat /\ store[m].uid <= created /\ created \in Nat
    BY DEF WorkerInvariant, StoreInvariant, Task
  <2>3. \A m \in Names : store'[m].uid <= created' /\ (store'[m].uid = 0 <=> store'[m].phase = "absent")
    BY <1>1, <1>2, <2>2 DEF WorkerInvariant, StoreInvariant
  <2>4. \A k, m \in Names : store'[k].uid = store'[m].uid /\ store'[k].uid # 0 => k = m
    BY <1>2, <2>2 DEF WorkerInvariant, StoreInvariant
  <2>5. created + 1 \notin ended
    BY <2>2 DEF WorkerInvariant, StoreInvariant
  <2>6. \A m \in Names : store'[m].uid \in ended' => store'[m].phase \in Terminal
    BY <1>1, <1>2, <2>5 DEF WorkerInvariant, StoreInvariant
  <2> QED
    BY <2>1, <2>3, <2>4, <2>6 DEF StoreInvariant
<1>4. CopyInvariant'
  BY <1>1 DEF WorkerInvariant, StoreInvariant, CopyInvariant
<1> QED
  BY <1>3, <1>4 DEF WorkerInvariant

LEMMA TimeOutTaskInvariant ==
    ASSUME WorkerInvariant, NEW n \in Names, TimeOutTask(n) PROVE WorkerInvariant'
<1> DEFINE t == In(store[n], "TimedOut")
<1>1. /\ t \in Task /\ t.uid = store[n].uid /\ t.uid # 0 /\ t.phase = "TimedOut"
  BY DEF TimeOutTask, WorkerInvariant, StoreInvariant, Task, Terminal, In
<1>2. StoreInvariant'
  BY <1>1, RewriteKeepsStore DEF TimeOutTask, Write, WorkerInvariant, Terminal
<1>3. CopyInvariant'
  BY DEF TimeOutTask, WorkerInvariant, CopyInvariant, workerVars
<1> QED
  BY <1>2, <1>3 DEF WorkerInvariant

LEMMA PurgeTaskInvariant ==
    ASSUME WorkerInvariant, NEW n \in Names, PurgeTask(n) PROVE WorkerInvariant'
<1>1. /\ NoTask \in Task /\ NoTask.uid = 0 /\ NoTask.phase = "absent"
      /\ store' = [store EXCEPT ![n] = NoTask] /\ created' = created /\ ended' = ended
      /\ UNCHANGED <<pc, selected, task>>
  BY WorkerAssumption DEF PurgeTask, Write, NoTask, Task, workerVars
<1>2. \A m \in Names : store'[m] = IF m = n THEN NoTask ELSE store[m]
  BY <1>1 DEF WorkerInvariant, StoreInvariant
<1>3. StoreInvariant'
  BY <1>1, <1>2 DEF WorkerInvariant, StoreInvariant
<1>4. CopyInvariant'
  BY <1>1 DEF WorkerInvariant, CopyInvariant
<1> QED
  BY <1>3, <1>4 DEF WorkerInvariant

LEMMA SyncInvariant == ASSUME WorkerInvariant, Sync PROVE WorkerInvariant'
<1>1. StoreInvariant'
  BY DEF Sync, serverVars, WorkerInvariant, StoreInvariant
<1>2. SelectTask \subseteq Names
  BY DEF SelectTask, CachedIn
<1>3. CopyInvariant'
  BY <1>2 DEF Sync, serverVars, workerVars, WorkerInvariant, CopyInvariant
<1> QED
  BY <1>1, <1>3 DEF WorkerInvariant

LEMMA GetLiveTaskInvariant == ASSUME WorkerInvariant, GetLiveTask PROVE WorkerInvariant'
<1>1. StoreInvariant'
  BY DEF GetLiveTask, serverVars, WorkerInvariant, StoreInvariant
<1>2. Live \in Task /\ Live.uid <= created /\ (Live.uid = 0 <=> Live.phase = "absent")
      /\ (Live.uid \in ended => Live.phase \in Terminal)
  BY DEF Live, WorkerInvariant, StoreInvariant, CopyInvariant
<1>3. selected' = selected /\ selected \in Names /\ created' = created /\ ended' = ended /\ created \in Nat
  BY DEF GetLiveTask, serverVars, WorkerInvariant, StoreInvariant, CopyInvariant
<1>4. CopyInvariant'
  BY <1>2, <1>3 DEF GetLiveTask, CopyInvariant, Return, Retry, Task, Terminal
<1> QED
  BY <1>1, <1>4 DEF WorkerInvariant

LEMMA StartPendingTaskInvariant == ASSUME WorkerInvariant, StartPendingTask PROVE WorkerInvariant'
<1> DEFINE t == In(task, "Running")
<1>1. /\ task \in Task /\ task.uid # 0 /\ task.phase = "Pending" /\ selected \in Names
      /\ t \in Task /\ t.uid = task.uid /\ t.phase = "Running"
  BY DEF StartPendingTask, WorkerInvariant, CopyInvariant, Task, In
<1>2. selected' = selected /\ created' = created /\ ended' = ended
  BY DEF StartPendingTask
<1>3. CASE UNCHANGED store
  <2>1. StoreInvariant'
    BY <1>2, <1>3 DEF WorkerInvariant, StoreInvariant
  <2>2. t # task
    BY <1>1
  <2>3. Live = task => store' # [store EXCEPT ![selected] = t]
    BY <1>1, <1>3, <2>2 DEF Live, WorkerInvariant, StoreInvariant
  <2>4. pc' = "idle"
    BY <2>3 DEF StartPendingTask, Write, Retry, Return
  <2> QED
    BY <1>1, <1>2, <2>1, <2>4 DEF WorkerInvariant, CopyInvariant
<1>4. CASE Live = task /\ store' = [store EXCEPT ![selected] = t]
  <2>1. task.uid \in 1..created /\ task.uid \notin ended
    BY <1>1, <1>4 DEF Live, WorkerInvariant, StoreInvariant, Task, Terminal
  <2>2. StoreInvariant'
    BY <1>1, <1>2, <1>4, <2>1, RewriteKeepsStore DEF Live, WorkerInvariant
  <2>3. CASE pc' = "run" /\ task' = t
    BY <1>1, <1>2, <2>1, <2>2, <2>3 DEF WorkerInvariant, CopyInvariant
  <2>4. CASE pc' = "idle"
    BY <1>1, <1>2, <2>2, <2>4 DEF WorkerInvariant, CopyInvariant
  <2>5. (pc' = "run" /\ task' = t) \/ pc' = "idle"
    BY <1>1 DEF StartPendingTask, Retry, Return
  <2> QED
    BY <2>3, <2>4, <2>5
<1> QED
  BY <1>3, <1>4 DEF StartPendingTask, Write

LEMMA FinishInvariant == ASSUME WorkerInvariant, Finish PROVE WorkerInvariant'
<1>1. /\ task \in Task /\ task.uid \in 1..created /\ selected \in Names
      /\ selected' = selected /\ created' = created
      /\ pc' \in {"idle", "check"}
  BY DEF Finish, WorkerInvariant, CopyInvariant, Retry, Return
<1>2. CopyInvariant'
  BY <1>1 DEF CopyInvariant
<1>3. CASE UNCHANGED <<store, ended>>
  BY <1>1, <1>2, <1>3 DEF WorkerInvariant, StoreInvariant
<1>4. ASSUME Live = task, ended' = ended \cup {task.uid}, NEW verdict \in Terminal,
             store' = [store EXCEPT ![selected] = In(task, verdict)]
      PROVE  WorkerInvariant'
  <2> DEFINE t == In(task, verdict)
  <2>1. /\ t \in Task /\ t.uid = task.uid /\ t.phase = verdict /\ t.uid # 0 /\ t.phase # "absent"
    BY <1>1 DEF Task, Terminal, In
  <2>2. StoreInvariant'
    BY <1>1, <1>4, <2>1, RewriteKeepsStore DEF Live, WorkerInvariant
  <2> QED
    BY <1>2, <2>2 DEF WorkerInvariant
<1> QED
  BY <1>3, <1>4 DEF Finish, Write

LEMMA StepInvariant == WorkerInvariant /\ [Next]_vars => WorkerInvariant'
<1> SUFFICES ASSUME WorkerInvariant, [Next]_vars PROVE WorkerInvariant'
  OBVIOUS
<1>1. ASSUME NEW n \in Names, CreateTask(n) \/ TimeOutTask(n) \/ PurgeTask(n) PROVE WorkerInvariant'
  BY <1>1, CreateTaskInvariant, TimeOutTaskInvariant, PurgeTaskInvariant
<1>2. CASE Execute
  BY <1>2 DEF Execute, serverVars, WorkerInvariant, StoreInvariant, CopyInvariant
<1>3. CASE CheckOutcome
  BY <1>3 DEF CheckOutcome, Retry, Return, serverVars, WorkerInvariant, StoreInvariant, CopyInvariant
<1>4. CASE Deliver
  BY <1>4 DEF Deliver, workerVars, WorkerInvariant, StoreInvariant, CopyInvariant
<1>5. CASE Restart
  BY <1>5 DEF Restart, Return, WorkerInvariant, StoreInvariant, CopyInvariant
<1>6. CASE UNCHANGED vars
  BY <1>6 DEF vars, serverVars, workerVars, WorkerInvariant, StoreInvariant, CopyInvariant
<1> QED
  BY <1>1, <1>2, <1>3, <1>4, <1>5, <1>6, SyncInvariant, GetLiveTaskInvariant,
     StartPendingTaskInvariant, FinishInvariant DEF Next, WorkerStep

\* Every variable keeps its type.
LEMMA TypeInit == Init => TypeOK
<1>1. (CHOOSE m \in Names : TRUE) \in Names
  BY WorkerAssumption
<1> QED
  BY <1>1, WorkerAssumption DEF Init, TypeOK, NoTask, Task

\* A step that writes a task writes one, and tells the watch.
LEMMA WriteTyped ==
    ASSUME TypeOK, NEW n \in Names, NEW t \in Task, Write(n, t)
    PROVE  store' \in [Names -> Task] /\ events' \in Seq([name : Names, task : Task])
  BY DEF TypeOK, Write

\* What the watch delivers, and what is left of it.
LEMMA WatchGoesOn ==
    ASSUME NEW S, NEW stream \in Seq(S), stream # <<>>
    PROVE  Head(stream) \in S /\ Tail(stream) \in Seq(S)
  OBVIOUS

\* Every step keeps the types.
LEMMA TypeStep == TypeOK /\ WorkerInvariant /\ [Next]_vars => TypeOK'
<1> SUFFICES ASSUME TypeOK, WorkerInvariant, [Next]_vars PROVE TypeOK'
  OBVIOUS
<1> USE DEF TypeOK, serverVars, workerVars
<1>f. Fail => failures' \in 0..MaxFailures
  BY WorkerAssumption DEF Fail
<1>r. Return => pc' = "idle" /\ task' = NoTask /\ task' \in Task
  BY WorkerAssumption DEF Return, NoTask, Task
<1>i. ASSUME NEW t \in Task, NEW p \in {"Running"} \cup Terminal
      PROVE  In(t, p) \in Task /\ In(t, p) # NoTask
  BY <1>i DEF In, Task, NoTask, Terminal
<1>1. ASSUME NEW n \in Names, CreateTask(n) PROVE TypeOK'
  <2>1. created + 1 \in 0..MaxTasks /\ [uid |-> created + 1, phase |-> "Pending"] \in Task
    BY <1>1, WorkerAssumption DEF CreateTask, Task
  <2> QED
    BY <1>1, <2>1, WriteTyped DEF CreateTask
<1>2. ASSUME NEW n \in Names, TimeOutTask(n) \/ PurgeTask(n) PROVE TypeOK'
  <2>1. NoTask \in Task /\ In(store[n], "TimedOut") \in Task
    BY <1>i, WorkerAssumption DEF NoTask, Task, Terminal
  <2> QED
    BY <1>2, <2>1, WriteTyped DEF TimeOutTask, PurgeTask
<1>3. CASE Sync
  <2>1. ASSUME NEW n \in SelectTask PROVE n \in Names /\ cache[n] \in Task /\ cache[n] # NoTask
    BY <2>1 DEF SelectTask, CachedIn, NoTask
  <2> QED
    BY <1>3, <2>1 DEF Sync
<1>4. CASE GetLiveTask
  <2>1. Live \in Task /\ (Live.phase \in {"Pending", "Running"} => Live # NoTask)
    BY DEF Live, NoTask
  <2>2. /\ task' \in Task /\ pc' \in {"idle", "start", "run"} /\ (pc' = "idle" <=> task' = NoTask)
        /\ queued' \in BOOLEAN /\ failures' \in 0..MaxFailures
    BY <1>4, <1>f, <1>r, <2>1 DEF GetLiveTask, Retry
  <2> QED
    BY <1>4, <2>2 DEF GetLiveTask
<1>5. CASE StartPendingTask
  BY <1>5, <1>f, <1>r, <1>i, WriteTyped DEF StartPendingTask, Live, Retry
<1>6. CASE Finish
  <2>1. ended \cup {task.uid} \subseteq 1..MaxTasks
    <3>1. task.uid \in 1..created /\ created \in 0..MaxTasks
      BY <1>6 DEF Finish, WorkerInvariant, CopyInvariant
    <3>2. task.uid \in 1..MaxTasks
      BY <3>1, WorkerAssumption
    <3> QED
      BY <3>2
  <2>2. \A verdict \in Terminal : In(task, verdict) \in Task
    BY <1>i
  <2> QED
    BY <1>6, <1>f, <1>r, <2>1, <2>2, WriteTyped DEF Finish, Live, Retry
<1>7. CASE Execute \/ CheckOutcome
  BY <1>7, <1>r DEF Execute, CheckOutcome, Retry
<1>8. CASE Deliver
  <2>1. Head(events) \in [name : Names, task : Task] /\ Tail(events) \in Seq([name : Names, task : Task])
    BY <1>8, WatchGoesOn DEF Deliver
  <2> QED
    BY <1>8, <2>1 DEF Deliver
<1>9. CASE Restart
  BY <1>9, <1>f, <1>r DEF Restart
<1>10. CASE UNCHANGED vars
  BY <1>10 DEF vars
<1> QED
  BY <1>1, <1>2, <1>3, <1>4, <1>5, <1>6, <1>7, <1>8, <1>9, <1>10 DEF Next, WorkerStep

\* Whatever the cache shows and however many calls fail, responses are lost and
\* agents restart, a task whose outcome has been written is not executed again
\* (processNext reads the task before it acts, startPendingTask and finish write
\* over what was read), and every variable keeps its type.
THEOREM EndedTasksAreNotRerun == Spec => []AgentInvariant
<1> DEFINE Inv == TypeOK /\ WorkerInvariant
<1>1. Init => Inv
  BY TypeInit, InitInvariant
<1>2. Inv /\ [Next]_vars => Inv'
  BY TypeStep, StepInvariant
<1>3. Inv => AgentInvariant
  BY DEF WorkerInvariant, CopyInvariant, EndedIsNotRerun, AgentInvariant
<1> QED
  BY <1>1, <1>2, <1>3, PTL DEF Spec

-----------------------------------------------------------------------------
(***************************************************************************)
(* The refinement.                                                         *)
(***************************************************************************)
Distinct(s) == \A n, m \in Names : s[n].uid = s[m].uid /\ s[n].uid # 0 => n = m

TaskPhases(s) == [u \in 1..MaxTasks |-> PhaseIn(s, u)]

LEMMA PhaseFound ==
    ASSUME NEW s, Distinct(s), NEW n \in Names, s[n].uid # 0
    PROVE  PhaseIn(s, s[n].uid) = s[n].phase
<1> DEFINE c == CHOOSE m \in Names : s[m].uid = s[n].uid
<1>1. c \in Names /\ s[c].uid = s[n].uid
  OBVIOUS
<1>2. c = n
  BY <1>1 DEF Distinct
<1> QED
  BY <1>2 DEF PhaseIn

LEMMA PhaseMissing ==
    ASSUME NEW s, NEW u, \A n \in Names : s[n].uid # u
    PROVE  PhaseIn(s, u) = "absent"
BY DEF PhaseIn

\* A write of one task changes the phase of that task only.
LEMMA OnePhaseChanges ==
    ASSUME NEW s, NEW r, Distinct(s), Distinct(r), NEW n \in Names, NEW t,
           \A m \in Names : r[m] = IF m = n THEN t ELSE s[m],
           NEW u \in 1..MaxTasks, s[n].uid \in {0, u}, t.uid \in {0, u}, PhaseIn(r, u) = t.phase
    PROVE  TaskPhases(r) = [TaskPhases(s) EXCEPT ![u] = t.phase]
<1>1. ASSUME NEW v \in 1..MaxTasks, v # u PROVE PhaseIn(r, v) = PhaseIn(s, v)
  <2>1. v # 0
    BY WorkerAssumption
  <2>2. CASE \E m \in Names : s[m].uid = v
    <3>1. PICK m \in Names : s[m].uid = v
      BY <2>2
    <3>2. r[m] = s[m]
      BY <1>1, <2>1, <3>1
    <3> QED
      BY <2>1, <3>1, <3>2, PhaseFound
  <2>3. CASE \A m \in Names : s[m].uid # v
    <3>1. \A m \in Names : r[m].uid # v
      BY <1>1, <2>1, <2>3
    <3> QED
      BY <2>3, <3>1, PhaseMissing
  <2> QED
    BY <2>2, <2>3
<1> QED
  BY <1>1 DEF TaskPhases

LEMMA MappedInit == Init => Contract!Init
<1> SUFFICES ASSUME Init PROVE Contract!Init
  OBVIOUS
<1>1. \A n \in Names : store[n].uid = 0
  BY DEF Init, NoTask
<1>2. \A u \in 1..MaxTasks : PhaseIn(store, u) = "absent"
  BY <1>1, PhaseMissing, WorkerAssumption
<1>3. Executing = {}
  BY DEF Init, Executing
<1> QED
  BY <1>2, <1>3 DEF Contract!Init

\* The write of t over the task n, as the contract sees it.
LEMMA MappedWrite ==
    ASSUME WorkerInvariant, WorkerInvariant', NEW n \in Names, NEW t \in Task,
           store' = [store EXCEPT ![n] = t], store[n].uid # 0, t.uid \in {0, store[n].uid},
           t.uid = 0 => t.phase = "absent"
    PROVE  /\ store[n].uid \in 1..MaxTasks
           /\ TaskPhases(store)[store[n].uid] = store[n].phase
           /\ TaskPhases(store') = [TaskPhases(store) EXCEPT ![store[n].uid] = t.phase]
<1> DEFINE u == store[n].uid
<1>1. Distinct(store) /\ Distinct(store')
  BY DEF WorkerInvariant, StoreInvariant, Distinct
<1>2. u \in 1..MaxTasks
  BY WorkerAssumption DEF WorkerInvariant, StoreInvariant, Task
<1>3. \A m \in Names : store'[m] = IF m = n THEN t ELSE store[m]
  BY DEF WorkerInvariant, StoreInvariant
<1>4. PhaseIn(store', u) = t.phase
  <2>1. CASE t.uid = u
    <3>1. store'[n] = t /\ store'[n].uid # 0
      BY <1>3, <2>1
    <3>2. PhaseIn(store', store'[n].uid) = store'[n].phase
      BY <1>1, <3>1, PhaseFound
    <3> QED
      BY <2>1, <3>1, <3>2
  <2>2. CASE t.uid = 0
    <3>1. \A m \in Names : store'[m].uid # u
      BY <1>1, <1>3, <2>2 DEF Distinct
    <3> QED
      BY <2>2, <3>1, PhaseMissing
  <2> QED
    BY <2>1, <2>2
<1>5. TaskPhases(store)[u] = store[n].phase
  BY <1>1, <1>2, PhaseFound DEF TaskPhases
<1>6. TaskPhases(store') = [TaskPhases(store) EXCEPT ![u] = t.phase]
  <2>1. PICK r : r = store'
    OBVIOUS
  <2>2. /\ Distinct(r) /\ PhaseIn(r, u) = t.phase
        /\ \A m \in Names : r[m] = IF m = n THEN t ELSE store[m]
    BY <1>1, <1>3, <1>4, <2>1
  <2>3. PICK v \in 1..MaxTasks : v = u
    BY <1>2
  <2>4. store[n].uid \in {0, v} /\ t.uid \in {0, v} /\ PhaseIn(r, v) = t.phase
    BY <2>2, <2>3
  <2>5. TaskPhases(r) = [TaskPhases(store) EXCEPT ![v] = t.phase]
    BY <1>1, <2>2, <2>4, OnePhaseChanges
  <2> QED
    BY <2>1, <2>3, <2>5
<1> QED
  BY <1>2, <1>5, <1>6

LEMMA MappedCreate ==
    ASSUME WorkerInvariant, WorkerInvariant', NEW n \in Names, CreateTask(n)
    PROVE  Contract!Next
<1> DEFINE t == [uid |-> created + 1, phase |-> "Pending"]
           u == created + 1
<1>1. Distinct(store) /\ Distinct(store')
  BY DEF WorkerInvariant, StoreInvariant, Distinct
<1>2. /\ u \in 1..MaxTasks /\ u # 0 /\ store[n].uid = 0
      /\ \A m \in Names : store[m].uid # u
  BY WorkerAssumption DEF CreateTask, WorkerInvariant, StoreInvariant, Task
<1>3. \A m \in Names : store'[m] = IF m = n THEN t ELSE store[m]
  BY DEF CreateTask, Write, WorkerInvariant, StoreInvariant
<1>4. PhaseIn(store', u) = t.phase
  BY <1>1, <1>2, <1>3, PhaseFound
<1>5. PhaseIn(store, u) = "absent"
  BY <1>2, PhaseMissing
<1>6. TaskPhases(store') = [TaskPhases(store) EXCEPT ![u] = t.phase]
  BY <1>1, <1>2, <1>3, <1>4, OnePhaseChanges
<1>7. Executing' = Executing
  BY DEF CreateTask, workerVars, Executing
<1>8. Contract!Create(u)
  BY <1>2, <1>5, <1>6, <1>7 DEF Contract!Create, Contract!To, TaskPhases
<1> QED
  BY <1>2, <1>8 DEF Contract!Next

LEMMA MappedTimeOutOrPurge ==
    ASSUME WorkerInvariant, WorkerInvariant', NEW n \in Names, TimeOutTask(n) \/ PurgeTask(n)
    PROVE  Contract!Next
<1> DEFINE u == store[n].uid
<1>1. u # 0
  BY DEF TimeOutTask, PurgeTask, WorkerInvariant, StoreInvariant, Terminal
<1>2. Executing' = Executing
  BY DEF TimeOutTask, PurgeTask, workerVars, Executing
<1>3. CASE TimeOutTask(n)
  <2>1. /\ u \in 1..MaxTasks /\ TaskPhases(store)[u] = store[n].phase
        /\ TaskPhases(store') = [TaskPhases(store) EXCEPT ![u] = "TimedOut"]
    <3> DEFINE t == In(store[n], "TimedOut")
    <3>1. t \in Task /\ t.uid = u /\ t.phase = "TimedOut" /\ store' = [store EXCEPT ![n] = t]
      BY <1>3 DEF TimeOutTask, Write, In, WorkerInvariant, StoreInvariant, Task, Terminal
    <3> HIDE DEF t
    <3> QED
      BY <1>1, <3>1, MappedWrite
  <2>2. Contract!TimeOut(u)
    BY <1>2, <1>3, <2>1 DEF TimeOutTask, Contract!TimeOut, Contract!To, TaskPhases
  <2> QED
    BY <2>1, <2>2 DEF Contract!Next
<1>4. CASE PurgeTask(n)
  <2>1. /\ u \in 1..MaxTasks /\ TaskPhases(store)[u] = store[n].phase
        /\ TaskPhases(store') = [TaskPhases(store) EXCEPT ![u] = "absent"]
    <3>1. NoTask \in Task /\ NoTask.uid = 0 /\ NoTask.phase = "absent" /\ store' = [store EXCEPT ![n] = NoTask]
      BY <1>4, WorkerAssumption DEF PurgeTask, Write, NoTask, Task
    <3> QED
      BY <1>1, <3>1, MappedWrite
  <2>2. Contract!Purge(u)
    BY <1>2, <1>4, <2>1 DEF PurgeTask, Contract!Purge, Contract!To, Contract!Ended, Terminal, TaskPhases
  <2> QED
    BY <2>1, <2>2 DEF Contract!Next
<1> QED
  BY <1>3, <1>4

LEMMA MappedGet ==
    ASSUME WorkerInvariant, GetLiveTask PROVE Contract!Next \/ UNCHANGED Contract!vars
<1>1. Executing = {} /\ store' = store
  BY DEF GetLiveTask, Executing, serverVars
<1>2. CASE pc' # "run"
  <2>1. Executing' = {}
    BY <1>2 DEF GetLiveTask, Executing, Return, Retry
  <2> QED
    BY <1>1, <2>1 DEF Contract!vars
<1>3. CASE pc' = "run"
  <2>1. task' = Live /\ Live.phase = "Running"
    BY <1>3 DEF GetLiveTask, Return, Retry
  <2>2. Live \in Task /\ Live.uid \in 1..MaxTasks /\ Live.uid # 0 /\ selected \in Names
    BY <2>1, WorkerAssumption DEF Live, WorkerInvariant, StoreInvariant, CopyInvariant, Task
  <2>3. Executing' = {Live.uid}
    BY <1>3, <2>1 DEF Executing
  <2>4. PhaseIn(store, Live.uid) = "Running"
    BY <2>1, <2>2, PhaseFound DEF Live, WorkerInvariant, StoreInvariant, Distinct
  <2>5. Contract!Resume(Live.uid)
    BY <1>1, <2>2, <2>3, <2>4 DEF Contract!Resume
  <2> QED
    BY <2>2, <2>5 DEF Contract!Next
<1> QED
  BY <1>2, <1>3

LEMMA MappedStart ==
    ASSUME WorkerInvariant, WorkerInvariant', StartPendingTask
    PROVE  Contract!Next \/ UNCHANGED Contract!vars
<1>1. Executing = {} /\ selected \in Names /\ task.uid # 0 /\ task.phase = "Pending"
  BY DEF StartPendingTask, Executing, WorkerInvariant, CopyInvariant
<1>2. CASE /\ Live = task /\ store' = [store EXCEPT ![selected] = In(task, "Running")]
           /\ Executing' \in {{}, {task.uid}}
  <2>1. /\ task.uid \in 1..MaxTasks /\ TaskPhases(store)[task.uid] = "Pending"
        /\ TaskPhases(store') = [TaskPhases(store) EXCEPT ![task.uid] = "Running"]
    <3> DEFINE t == In(task, "Running")
    <3>1. t \in Task /\ t.uid = task.uid /\ t.phase = "Running" /\ store' = [store EXCEPT ![selected] = t]
      BY <1>2 DEF StartPendingTask, WorkerInvariant, CopyInvariant, In, Task
    <3>2. store[selected] = task /\ t.uid \in {0, store[selected].uid} /\ store[selected].uid # 0
      BY <1>1, <1>2, <3>1 DEF Live
    <3> HIDE DEF t
    <3>3. /\ store[selected].uid \in 1..MaxTasks
          /\ TaskPhases(store)[store[selected].uid] = store[selected].phase
          /\ TaskPhases(store') = [TaskPhases(store) EXCEPT ![store[selected].uid] = t.phase]
      BY <1>1, <3>1, <3>2, MappedWrite
    <3> QED
      BY <1>1, <3>1, <3>2, <3>3
  <2>2. Contract!Start(task.uid)
    BY <1>1, <1>2, <2>1 DEF Contract!Start, Contract!To, TaskPhases
  <2> QED
    BY <2>1, <2>2 DEF Contract!Next
<1>3. CASE store' = store /\ Executing' = {}
  BY <1>1, <1>3 DEF Contract!vars
<1>4. \/ pc' = "run" /\ task' = In(task, "Running") /\ Live = task /\ store' = [store EXCEPT ![selected] = In(task, "Running")]
      \/ pc' = "idle" /\ Live = task /\ store' = [store EXCEPT ![selected] = In(task, "Running")]
      \/ pc' = "idle" /\ store' = store
  BY DEF StartPendingTask, Write, Retry, Return
<1> QED
  BY <1>2, <1>3, <1>4 DEF Executing, In

LEMMA MappedFinish ==
    ASSUME WorkerInvariant, WorkerInvariant', Finish PROVE Contract!Next
<1>1. /\ Executing = {task.uid} /\ selected \in Names /\ task.uid \in 1..MaxTasks /\ task.uid # 0
      /\ task.phase = "Running"
  BY WorkerAssumption DEF Finish, Executing, WorkerInvariant, StoreInvariant, CopyInvariant
<1>2. Executing' = {}
  BY DEF Finish, Retry, Return, Executing
<1>3. CASE store' = store
  <2>1. Contract!Finish(task.uid)
    BY <1>1, <1>2, <1>3 DEF Contract!Finish
  <2> QED
    BY <1>1, <2>1 DEF Contract!Next
<1>4. ASSUME Live = task, NEW verdict \in Terminal, store' = [store EXCEPT ![selected] = In(task, verdict)]
      PROVE  Contract!Next
  <2>1. /\ TaskPhases(store)[task.uid] = "Running"
        /\ TaskPhases(store') = [TaskPhases(store) EXCEPT ![task.uid] = verdict]
    <3> DEFINE t == In(task, verdict)
    <3>1. t \in Task /\ t.uid = task.uid /\ t.phase = verdict /\ store' = [store EXCEPT ![selected] = t]
      BY <1>4 DEF Finish, WorkerInvariant, CopyInvariant, In, Task
    <3> HIDE DEF t
    <3> QED
      BY <1>1, <1>4, <3>1, MappedWrite DEF Live
  <2>2. Contract!Finish(task.uid)
    BY <1>1, <1>2, <1>4, <2>1 DEF Contract!Finish, Contract!To, Contract!Ended, Terminal, TaskPhases
  <2> QED
    BY <1>1, <2>2 DEF Contract!Next
<1> QED
  BY <1>3, <1>4 DEF Finish, Write

LEMMA MappedRestart ==
    ASSUME WorkerInvariant, Restart PROVE Contract!Next \/ UNCHANGED Contract!vars
<1>1. store' = store /\ Executing' = {}
  BY DEF Restart, Return, Executing
<1>2. CASE pc \in {"run", "finish"}
  <2>1. Executing = {task.uid} /\ task.uid \in 1..MaxTasks
    BY <1>2, WorkerAssumption DEF Executing, WorkerInvariant, StoreInvariant, CopyInvariant
  <2>2. Contract!Finish(task.uid)
    BY <1>1, <2>1 DEF Contract!Finish
  <2> QED
    BY <2>1, <2>2 DEF Contract!Next
<1>3. CASE pc \notin {"run", "finish"}
  BY <1>1, <1>3 DEF Executing, Contract!vars
<1> QED
  BY <1>2, <1>3

LEMMA MappedStep ==
    WorkerInvariant /\ WorkerInvariant' /\ [Next]_vars => [Contract!Next]_Contract!vars
<1> SUFFICES ASSUME WorkerInvariant, WorkerInvariant', [Next]_vars
             PROVE  Contract!Next \/ UNCHANGED Contract!vars
  OBVIOUS
<1>1. ASSUME NEW n \in Names, CreateTask(n) \/ TimeOutTask(n) \/ PurgeTask(n) PROVE Contract!Next
  BY <1>1, MappedCreate, MappedTimeOutOrPurge
<1>2. CASE Sync
  <2>1. store' = store /\ Executing = {} /\ Executing' = {}
    BY <1>2 DEF Sync, serverVars, workerVars, Executing
  <2> QED
    BY <2>1 DEF Contract!vars
<1>3. CASE Execute
  <2>1. store' = store /\ Executing' = Executing
    BY <1>3 DEF Execute, serverVars, Executing
  <2> QED
    BY <2>1 DEF Contract!vars
<1>4. CASE CheckOutcome
  <2>1. store' = store /\ Executing = {} /\ Executing' = {}
    BY <1>4 DEF CheckOutcome, Retry, Return, serverVars, Executing
  <2> QED
    BY <2>1 DEF Contract!vars
<1>5. CASE Deliver \/ UNCHANGED vars
  <2>1. store' = store /\ Executing' = Executing
    BY <1>5 DEF Deliver, vars, serverVars, workerVars, Executing
  <2> QED
    BY <2>1 DEF Contract!vars
<1> QED
  BY <1>1, <1>2, <1>3, <1>4, <1>5, MappedGet, MappedStart, MappedFinish, MappedRestart DEF Next, WorkerStep

\* The worker with its cache, its queue, its failing calls and its restarts does
\* to a node's tasks only what the agent of the operation engine does in single
\* steps on what is stored: it starts Pending tasks, resumes Running ones, one at
\* a time, and writes outcomes over Running only.
THEOREM WorkerImplementsContract == Spec => ImplementsContract
BY InitInvariant, StepInvariant, MappedInit, MappedStep, PTL DEF Spec, ImplementsContract, Contract!Spec

-----------------------------------------------------------------------------
(***************************************************************************)
(* The restore of etcd.                                                    *)
(***************************************************************************)

\* A master as it was before the recovery, and one whose state is kept aside.
Serving(f) == f.manifests /\ f.etcd = "before"
Aside(f) == f.tmpManifests /\ f.tmpEtcd = "before"
Kept(f) == (f.manifests \/ f.tmpManifests) /\ "before" \in {f.etcd, f.tmpEtcd}
Snapshot(f) == f.manifests /\ f.etcd = "snapshot" /\ f.tmpEtcd # "absent"

\* The way to a success, whatever goes wrong on it: the data are moved, the
\* directory is made anew, the snapshot is restored, the manifests come back.
Restored(m) ==
    LET f == files[m] IN
    /\ at[m] # "idle" => phase[m] = "Running"
    /\ at[m] \in {"host", "mkdir"} => f.etcd = "absent" /\ f.tmpEtcd # "absent"
    /\ at[m] = "snapshot" => f.etcd = "empty" /\ f.tmpEtcd # "absent"
    /\ at[m] = "copyManifests" => f.etcd = "snapshot" /\ f.tmpEtcd # "absent"
    /\ at[m] \in {"health", "kubelet"} \/ phase[m] = "Succeeded" => Snapshot(f)

\* The way back: what the task found is in its place until it is moved, and kept
\* aside until the reset has put it back.
Secured(m) ==
    LET f == files[m] IN
    /\ phase[m] = "Running" => at[m] # "idle"
    /\ \/ phase[m] = "Pending"
       \/ at[m] \in {"download", "check", "clearManifests", "moveManifests"}
       => Serving(f)
    /\ at[m] \in {"waitStopped", "clearEtcd", "moveEtcd"} =>
          f.tmpManifests /\ f.etcd = "before"
    /\ at[m] \in {"host", "mkdir", "snapshot", "copyManifests", "health", "kubelet",
                  "resetRemove", "resetEtcd", "resetManifests"} => Aside(f)
    /\ at[m] = "resetManifests" => f.etcd = "before"
    /\ phase[m] \in Unsuccessful =>
          Kept(f) /\ (Faults \cap {"deadline", "host"} = {} => Serving(f))

\* No fault that the reset does not undo, or none followed by another execution.
Undoable ==
    /\ Faults \cap {"crash", "move", "read"} = {}
    /\ Faults \cap {"deadline", "host"} = {} \/ attempts = 1

RestoreIInv ==
    /\ RestoreTypeOK
    /\ \A m \in Masters : Restored(m)
    /\ Undoable => \A m \in Masters : Secured(m)

-----------------------------------------------------------------------------
\* A master's facts hold for another state in which its files, its task and its
\* agent are the same and no fault has become harmless.
LEMMA Untouched ==
    ASSUME NEW m, files'[m] = files[m], phase'[m] = phase[m], at'[m] = at[m], given' = given
    PROVE  (Restored(m) => Restored(m)') /\ (Secured(m) => Secured(m)')
  BY DEF Restored, Secured, Faults, Serving, Aside, Kept, Snapshot

\* A step of one agent: the others are untouched, the master keeps its facts.
LEMMA AgentStep ==
    ASSUME RestoreIInv, NEW m \in Masters, UNCHANGED bounds,
           NEW f \in Directories, NEW p \in Phases, NEW q \in Parts,
           files' = [files EXCEPT ![m] = f], phase' = [phase EXCEPT ![m] = p],
           at' = [at EXCEPT ![m] = q],
           Restored(m)', Undoable => Secured(m)'
    PROVE  RestoreIInv'
<1>1. RestoreTypeOK'
  BY DEF RestoreIInv, RestoreTypeOK, bounds
<1>2. Undoable' <=> Undoable
  BY DEF Undoable, Faults, bounds
<1>3. ASSUME NEW n \in Masters, n # m
      PROVE  (Restored(n) => Restored(n)') /\ (Secured(n) => Secured(n)')
  BY <1>3, Untouched DEF RestoreIInv, RestoreTypeOK, bounds
<1> QED
  BY <1>1, <1>2, <1>3 DEF RestoreIInv

\* The facts of the master that moves, as a function of its new files, phase and part.
RestoredAs(f, p, q) ==
    /\ q # "idle" => p = "Running"
    /\ q \in {"host", "mkdir"} => f.etcd = "absent" /\ f.tmpEtcd # "absent"
    /\ q = "snapshot" => f.etcd = "empty" /\ f.tmpEtcd # "absent"
    /\ q = "copyManifests" => f.etcd = "snapshot" /\ f.tmpEtcd # "absent"
    /\ q \in {"health", "kubelet"} \/ p = "Succeeded" => Snapshot(f)

SecuredAs(f, p, q) ==
    /\ p = "Running" => q # "idle"
    /\ p = "Pending" \/ q \in {"download", "check", "clearManifests", "moveManifests"}
       => Serving(f)
    /\ q \in {"waitStopped", "clearEtcd", "moveEtcd"} => f.tmpManifests /\ f.etcd = "before"
    /\ q \in {"host", "mkdir", "snapshot", "copyManifests", "health", "kubelet",
              "resetRemove", "resetEtcd", "resetManifests"} => Aside(f)
    /\ q = "resetManifests" => f.etcd = "before"
    /\ p \in Unsuccessful => Kept(f) /\ (Faults \cap {"deadline", "host"} = {} => Serving(f))

\* What the table says of the master that is about to move.
LEMMA Before ==
    ASSUME RestoreIInv, NEW m \in Masters
    PROVE  /\ files[m] \in Directories /\ phase[m] \in Phases /\ at[m] \in Parts
           /\ RestoredAs(files[m], phase[m], at[m])
           /\ Undoable => SecuredAs(files[m], phase[m], at[m])
  BY DEF RestoreIInv, RestoreTypeOK, Restored, Secured, RestoredAs, SecuredAs

\* What it must say afterwards.
LEMMA After ==
    ASSUME RestoreIInv, NEW m \in Masters, UNCHANGED bounds,
           NEW f \in Directories, NEW p \in Phases, NEW q \in Parts,
           files' = [files EXCEPT ![m] = f], phase' = [phase EXCEPT ![m] = p],
           at' = [at EXCEPT ![m] = q],
           RestoredAs(f, p, q), Undoable => SecuredAs(f, p, q)
    PROVE  RestoreIInv'
<1>1. files'[m] = f /\ phase'[m] = p /\ at'[m] = q /\ given' = given
  BY DEF RestoreIInv, RestoreTypeOK, bounds
<1>2. Restored(m)' /\ (Undoable => Secured(m)')
  BY <1>1 DEF Restored, Secured, RestoredAs, SecuredAs, Faults, Serving, Aside, Kept, Snapshot
<1> QED
  BY <1>2, AgentStep

\* The three ways in which a part of the step ends: with new files, without, or
\* with the end of the task.
LEMMA SetAndGo ==
    ASSUME RestoreIInv, NEW m \in Masters, NEW f \in Directories, NEW q \in Parts,
           Set(m, f), Go(m, q),
           RestoredAs(f, phase[m], q), Undoable => SecuredAs(f, phase[m], q)
    PROVE  RestoreIInv'
<1>1. phase' = [phase EXCEPT ![m] = phase[m]] /\ phase[m] \in Phases
  BY DEF RestoreIInv, RestoreTypeOK, Go
<1> QED
  BY <1>1, After DEF Set, Go

\* A master that goes on to its next part and leaves its files alone.
LEMMA JustGo ==
    ASSUME RestoreIInv, NEW m \in Masters, NEW q \in Parts, Goto(m, q),
           RestoredAs(files[m], phase[m], q),
           Undoable => SecuredAs(files[m], phase[m], q)
    PROVE  RestoreIInv'
<1>1. files' = [files EXCEPT ![m] = files[m]] /\ files[m] \in Directories
  BY DEF RestoreIInv, RestoreTypeOK, Goto
<1> QED
  BY <1>1, SetAndGo DEF Set, Goto

\* A master whose task ends with these files.
LEMMA EndsAs ==
    ASSUME RestoreIInv, NEW m \in Masters, NEW f \in Directories, NEW p \in Phases,
           Set(m, f), End(m, p),
           RestoredAs(f, p, "idle"), Undoable => SecuredAs(f, p, "idle")
    PROVE  RestoreIInv'
  BY After DEF Set, End, Parts

\* A master whose task fails and leaves its files alone.
LEMMA JustFails ==
    ASSUME RestoreIInv, NEW m \in Masters, FailTask(m),
           Undoable => SecuredAs(files[m], "Failed", "idle")
    PROVE  RestoreIInv'
<1>1. files' = [files EXCEPT ![m] = files[m]] /\ files[m] \in Directories
  BY DEF RestoreIInv, RestoreTypeOK, FailTask
<1>2. RestoredAs(files[m], "Failed", "idle") /\ "Failed" \in Phases
  BY DEF RestoredAs, Phases, Unsuccessful
<1> QED
  BY <1>1, <1>2, EndsAs DEF Set, FailTask

-----------------------------------------------------------------------------
\* BeforeRecovery: until the move nothing is lost, and after it all is aside.
LEMMA BeforeRecoveryStep ==
    ASSUME RestoreIInv, NEW m \in Masters,
           \/ Download(m) \/ CheckFile(m) \/ ClearManifests(m) \/ MoveManifests(m)
           \/ WaitStopped(m) \/ ClearEtcd(m) \/ MoveEtcd(m)
    PROVE  RestoreIInv'
<1> DEFINE f == files[m]
<1>b. /\ f \in Directories /\ RestoredAs(f, phase[m], at[m])
      /\ Undoable => SecuredAs(f, phase[m], at[m])
  BY Before
<1> USE DEF Parts, RestoredAs, SecuredAs, Unsuccessful
<1>1. CASE Download(m)
  <2>1. CASE Goto(m, "check")
    BY <1>1, <1>b, <2>1, JustGo DEF Download
  <2>2. CASE FailTask(m)
    BY <1>1, <1>b, <2>2, JustFails DEF Download, Serving, Kept
  <2> QED
    BY <1>1, <2>1, <2>2 DEF Download
<1>2. CASE CheckFile(m)
  <2>1. CASE Goto(m, "clearManifests")
    BY <1>2, <1>b, <2>1, JustGo DEF CheckFile
  <2>2. CASE FailTask(m)
    BY <1>2, <1>b, <2>2, JustFails DEF CheckFile, Serving, Kept
  <2>3. CASE "read" \in Faults /\ Goto(m, "resetRemove")
    BY <1>2, <1>b, <2>3, JustGo DEF CheckFile, Undoable
  <2> QED
    BY <1>2, <2>1, <2>2, <2>3 DEF CheckFile
<1>3. CASE ClearManifests(m)
  <2> DEFINE g == [f EXCEPT !.tmpManifests = FALSE]
  <2>1. g \in Directories /\ g.manifests = f.manifests /\ g.etcd = f.etcd
    BY <1>b DEF Directories
  <2>2. Set(m, g) /\ Go(m, "moveManifests") /\ at[m] = "clearManifests"
    BY <1>3 DEF ClearManifests
  <2> HIDE DEF g
  <2> QED
    BY <1>b, <2>1, <2>2, SetAndGo DEF Serving
<1>4. CASE MoveManifests(m)
  <2> DEFINE g == [f EXCEPT !.manifests = FALSE, !.tmpManifests = TRUE]
  <2>1. CASE f.manifests /\ Set(m, g) /\ Go(m, "waitStopped")
    <3>1. g \in Directories /\ g.tmpManifests = TRUE /\ g.etcd = f.etcd
      BY <1>b DEF Directories
    <3>2. Set(m, g) /\ Go(m, "waitStopped") /\ at[m] = "moveManifests"
      BY <1>4, <2>1 DEF MoveManifests
    <3> HIDE DEF g
    <3> QED
      BY <1>b, <3>1, <3>2, SetAndGo DEF Serving
  <2>2. CASE ("move" \in Faults \/ ~f.manifests) /\ Goto(m, "resetRemove")
    <3>1. ~Undoable
      BY <1>4, <1>b, <2>2 DEF MoveManifests, Undoable, Serving
    <3> QED
      BY <1>4, <1>b, <2>2, <3>1, JustGo DEF MoveManifests
  <2> QED
    BY <1>4, <2>1, <2>2 DEF MoveManifests
<1>5. CASE WaitStopped(m)
  BY <1>5, <1>b, JustGo DEF WaitStopped
<1>6. CASE ClearEtcd(m)
  <2> DEFINE g == [f EXCEPT !.tmpEtcd = "absent"]
  <2>1. g \in Directories /\ g.tmpManifests = f.tmpManifests /\ g.etcd = f.etcd
    BY <1>b DEF Directories, Content
  <2>2. Set(m, g) /\ Go(m, "moveEtcd") /\ at[m] = "clearEtcd"
    BY <1>6 DEF ClearEtcd
  <2> HIDE DEF g
  <2> QED
    BY <1>b, <2>1, <2>2, SetAndGo
<1>7. CASE MoveEtcd(m)
  <2> DEFINE g == [f EXCEPT !.etcd = "absent", !.tmpEtcd = f.etcd]
  <2>1. CASE f.etcd # "absent" /\ Set(m, g) /\ Go(m, "host")
    <3>1. /\ g \in Directories /\ g.tmpManifests = f.tmpManifests
          /\ g.etcd = "absent" /\ g.tmpEtcd = f.etcd
      BY <1>b DEF Directories, Content
    <3>2. Set(m, g) /\ Go(m, "host") /\ at[m] = "moveEtcd"
      BY <1>7, <2>1 DEF MoveEtcd
    <3> HIDE DEF g
    <3> QED
      BY <1>b, <2>1, <3>1, <3>2, SetAndGo DEF Aside
  <2>2. CASE ("move" \in Faults \/ f.etcd = "absent") /\ Goto(m, "resetRemove")
    <3>1. ~Undoable
      BY <1>7, <1>b, <2>2 DEF MoveEtcd, Undoable
    <3> QED
      BY <1>7, <1>b, <2>2, <3>1, JustGo DEF MoveEtcd
  <2> QED
    BY <1>7, <2>1, <2>2 DEF MoveEtcd
<1> QED
  BY <1>1, <1>2, <1>3, <1>4, <1>5, <1>6, <1>7


\* Recovering and failedOperate.
LEMMA RecoveringStep ==
    ASSUME RestoreIInv, NEW m \in Masters,
           \/ HostInfo(m) \/ MakeDataDir(m) \/ RestoreSnapshot(m) \/ CopyManifests(m)
           \/ CheckHealth(m) \/ RestartKubelet(m)
    PROVE  RestoreIInv'
<1> DEFINE f == files[m]
<1>b. /\ f \in Directories /\ RestoredAs(f, phase[m], at[m])
      /\ Undoable => SecuredAs(f, phase[m], at[m])
  BY Before
<1> USE DEF Parts, RestoredAs, SecuredAs, Unsuccessful
<1>r. ASSUME at[m] \in {"mkdir", "snapshot", "copyManifests", "kubelet"}, Goto(m, "resetRemove")
      PROVE  RestoreIInv'
  BY <1>b, <1>r, JustGo
<1>1. CASE HostInfo(m)
  <2>1. CASE Goto(m, "mkdir")
    BY <1>1, <1>b, <2>1, JustGo DEF HostInfo
  <2>2. CASE "host" \in Faults /\ FailTask(m)
    BY <1>1, <1>b, <2>2, JustFails DEF HostInfo, Aside, Kept
  <2> QED
    BY <1>1, <2>1, <2>2 DEF HostInfo
<1>2. CASE MakeDataDir(m)
  <2> DEFINE g == [f EXCEPT !.etcd = IF @ = "absent" THEN "empty" ELSE @]
  <2>1. CASE Set(m, g) /\ Go(m, "snapshot")
    <3>1. at[m] = "mkdir" /\ f.etcd = "absent"
      BY <1>2, <1>b DEF MakeDataDir
    <3>2. /\ g \in Directories /\ g.tmpManifests = f.tmpManifests /\ g.tmpEtcd = f.tmpEtcd
          /\ g.etcd = "empty"
      BY <1>b, <3>1 DEF Directories, Content
    <3> HIDE DEF g
    <3> QED
      BY <1>b, <2>1, <3>1, <3>2, SetAndGo DEF Aside
  <2> QED
    BY <1>2, <1>r, <2>1 DEF MakeDataDir
<1>3. CASE RestoreSnapshot(m)
  <2> DEFINE g == [f EXCEPT !.etcd = "snapshot"]
  <2>1. CASE Set(m, g) /\ Go(m, "copyManifests")
    <3>1. at[m] = "snapshot"
      BY <1>3 DEF RestoreSnapshot
    <3>2. /\ g \in Directories /\ g.tmpManifests = f.tmpManifests /\ g.tmpEtcd = f.tmpEtcd
          /\ g.etcd = "snapshot"
      BY <1>b DEF Directories, Content, Data
    <3> HIDE DEF g
    <3> QED
      BY <1>b, <2>1, <3>1, <3>2, SetAndGo DEF Aside
  <2> QED
    BY <1>3, <1>r, <2>1 DEF RestoreSnapshot
<1>4. CASE CopyManifests(m)
  <2> DEFINE g == [f EXCEPT !.manifests = TRUE]
  <2>1. CASE Set(m, g) /\ Go(m, "health")
    <3>1. at[m] = "copyManifests"
      BY <1>4 DEF CopyManifests
    <3>2. /\ g \in Directories /\ g.tmpManifests = f.tmpManifests /\ g.tmpEtcd = f.tmpEtcd
          /\ g.etcd = f.etcd /\ g.manifests
      BY <1>b DEF Directories
    <3> HIDE DEF g
    <3> QED
      BY <1>b, <2>1, <3>1, <3>2, SetAndGo DEF Aside, Snapshot
  <2> QED
    BY <1>4, <1>r, <2>1 DEF CopyManifests
<1>5. CASE CheckHealth(m)
  BY <1>5, <1>b, JustGo DEF CheckHealth
<1>6. CASE RestartKubelet(m)
  <2>1. CASE End(m, "Succeeded") /\ UNCHANGED files
    <3>1. Set(m, f) /\ "Succeeded" \in Phases
      BY <2>1 DEF Set, Phases, RestoreIInv, RestoreTypeOK
    <3> QED
      BY <1>6, <1>b, <2>1, <3>1, EndsAs DEF RestartKubelet
  <2> QED
    BY <1>6, <1>r, <2>1 DEF RestartKubelet
<1> QED
  BY <1>1, <1>2, <1>3, <1>4, <1>5, <1>6

\* The parts of the reset: remove what was restored, put the data back, then the manifests.
LEMMA ResetStep ==
    ASSUME RestoreIInv, NEW m \in Masters,
           ResetRemove(m) \/ ResetEtcd(m) \/ ResetManifests(m)
    PROVE  RestoreIInv'
<1> DEFINE f == files[m]
<1>b. /\ f \in Directories /\ RestoredAs(f, phase[m], at[m])
      /\ Undoable => SecuredAs(f, phase[m], at[m])
  BY Before
<1> USE DEF Parts, RestoredAs, SecuredAs, Unsuccessful
<1>1. CASE ResetRemove(m)
  <2> DEFINE g == [f EXCEPT !.manifests = FALSE, !.etcd = "absent"]
  <2>1. g \in Directories /\ g.tmpManifests = f.tmpManifests /\ g.tmpEtcd = f.tmpEtcd
    BY <1>b DEF Directories, Content
  <2>2. Set(m, g) /\ Go(m, "resetEtcd") /\ at[m] = "resetRemove"
    BY <1>1 DEF ResetRemove
  <2> HIDE DEF g
  <2> QED
    BY <1>b, <2>1, <2>2, SetAndGo DEF Aside
<1>2. CASE ResetEtcd(m)
  <2>1. CASE f.tmpEtcd = "absent"
    <3>1. ~Undoable /\ FailTask(m)
      BY <1>2, <1>b, <2>1 DEF ResetEtcd, Aside
    <3> QED
      BY <3>1, JustFails
  <2>2. CASE f.tmpEtcd # "absent"
    <3> DEFINE g == [f EXCEPT !.etcd = f.tmpEtcd]
    <3>1. /\ g \in Directories /\ g.tmpManifests = f.tmpManifests /\ g.tmpEtcd = f.tmpEtcd
          /\ g.etcd = f.tmpEtcd
      BY <1>b DEF Directories
    <3>2. Set(m, g) /\ Go(m, "resetManifests") /\ at[m] = "resetEtcd"
      BY <1>2, <2>2 DEF ResetEtcd
    <3> HIDE DEF g
    <3> QED
      BY <1>b, <3>1, <3>2, SetAndGo DEF Aside
  <2> QED
    BY <2>1, <2>2
<1>3. CASE ResetManifests(m)
  <2> DEFINE g == [f EXCEPT !.manifests = f.tmpManifests]
  <2>1. g \in Directories /\ g.manifests = f.tmpManifests /\ g.etcd = f.etcd
    BY <1>b DEF Directories
  <2>2. Set(m, g) /\ End(m, "Failed") /\ at[m] = "resetManifests" /\ "Failed" \in Phases
    BY <1>3 DEF ResetManifests, Phases
  <2> HIDE DEF g
  <2> QED
    BY <1>b, <2>1, <2>2, EndsAs DEF Aside, Serving, Kept
<1> QED
  BY <1>1, <1>2, <1>3

-----------------------------------------------------------------------------
\* The agent around the step: a restart or a deadline leaves the files where they are.
LEMMA AroundStep ==
    ASSUME RestoreIInv, NEW m \in Masters,
           Start(m) \/ Crash(m) \/ Deadline(m) \/ CancelPending(m)
    PROVE  RestoreIInv'
<1> DEFINE f == files[m]
<1>b. /\ f \in Directories /\ RestoredAs(f, phase[m], at[m])
      /\ Undoable => SecuredAs(f, phase[m], at[m])
      /\ phase[m] \in Phases /\ at[m] \in Parts
  BY Before
<1>t. /\ files = [files EXCEPT ![m] = f] /\ at = [at EXCEPT ![m] = at[m]]
      /\ phase = [phase EXCEPT ![m] = phase[m]]
  BY DEF RestoreIInv, RestoreTypeOK
<1> USE DEF RestoredAs, SecuredAs
<1>1. CASE Start(m)
  <2>1. "Running" \in Phases /\ "download" \in Parts /\ "Running" \notin Unsuccessful
    BY DEF Phases, Parts, Unsuccessful
  <2> QED
    BY <1>1, <1>b, <1>t, <2>1, After DEF Start
<1>2. CASE Crash(m)
  <2>1. ~Undoable /\ "idle" \in Parts
    BY <1>2 DEF Crash, Undoable, Parts
  <2>2. RestoredAs(f, phase[m], "idle")
    BY <1>b
  <2>3. /\ files' = [files EXCEPT ![m] = f] /\ phase' = [phase EXCEPT ![m] = phase[m]]
        /\ at' = [at EXCEPT ![m] = "idle"] /\ UNCHANGED bounds
    BY <1>2, <1>t DEF Crash
  <2> HIDE DEF RestoredAs, SecuredAs
  <2> QED
    BY <1>b, <2>1, <2>2, <2>3, After
<1>3. CASE Deadline(m)
  <2>1. "TimedOut" \in Phases /\ "idle" \in Parts
    BY DEF Phases, Parts, Unsuccessful
  <2>2. Undoable => Kept(f)
    BY <1>3, <1>b DEF Deadline, Kept, Serving, Aside, Parts
  <2>3. /\ RestoredAs(f, "TimedOut", "idle")
        /\ Undoable => SecuredAs(f, "TimedOut", "idle")
    BY <1>3, <1>b, <2>2 DEF Deadline
  <2>4. /\ files' = [files EXCEPT ![m] = f] /\ phase' = [phase EXCEPT ![m] = "TimedOut"]
        /\ at' = [at EXCEPT ![m] = "idle"] /\ UNCHANGED bounds
    BY <1>3, <1>t DEF Deadline
  <2> HIDE DEF RestoredAs, SecuredAs
  <2> QED
    BY <1>b, <2>1, <2>3, <2>4, After
<1>4. CASE CancelPending(m)
  <2>1. "Canceled" \in Phases /\ (Undoable => Serving(f) /\ Kept(f))
    BY <1>4, <1>b DEF CancelPending, Phases, Unsuccessful, Serving, Kept
  <2>2. at[m] = "idle"
    BY <1>4, <1>b DEF CancelPending
  <2>3. /\ RestoredAs(f, "Canceled", "idle") /\ "idle" \in Parts
        /\ Undoable => SecuredAs(f, "Canceled", "idle")
    BY <2>1 DEF Parts
  <2>4. /\ files' = [files EXCEPT ![m] = f] /\ phase' = [phase EXCEPT ![m] = "Canceled"]
        /\ at' = [at EXCEPT ![m] = "idle"] /\ UNCHANGED bounds
    BY <1>4, <1>t, <2>2 DEF CancelPending
  <2> HIDE DEF RestoredAs, SecuredAs
  <2> QED
    BY <1>b, <2>1, <2>3, <2>4, After
<1> QED
  BY <1>1, <1>2, <1>3, <1>4

\* New tasks, of a retry or of a new recovery, find what was served.
LEMMA NewTasksStep ==
    ASSUME RestoreIInv, RetryRecovery \/ CreateRecovery
    PROVE  RestoreIInv'
<1>1. PICK ms \in SUBSET Masters :
          /\ NewTasks(ms)
          /\ \A m \in ms : \/ phase[m] \in Unsuccessful
                           \/ files[m].manifests /\ files[m].etcd \in Data
  BY DEF RetryRecovery, CreateRecovery
<1>t. /\ files \in [Masters -> Directories] /\ phase \in [Masters -> Phases]
      /\ at \in [Masters -> Parts] /\ given \in Scenarios
      /\ attempts \in 1 .. given.attempts /\ given.attempts \in Nat
  BY RestoreAssumption DEF RestoreIInv, RestoreTypeOK
<1>a. /\ attempts' = attempts + 1 /\ attempts < given.attempts /\ UNCHANGED <<at, given>>
      /\ phase' = [m \in Masters |-> IF m \in ms THEN "Pending" ELSE phase[m]]
      /\ files' = [m \in Masters |-> IF m \in ms THEN Found(files[m]) ELSE files[m]]
  BY <1>1 DEF NewTasks
<1>o. \A m \in Masters : at[m] = "idle"
  BY <1>1 DEF NewTasks, Over, RestoreIInv, Restored
<1>f. ASSUME NEW m \in Masters
      PROVE  /\ Found(files[m]) \in Directories
             /\ files[m].manifests /\ files[m].etcd \in Data => Serving(Found(files[m]))
  BY <1>t DEF Found, Directories, Content, Data, Serving
<1>2. RestoreTypeOK'
  <2>1. files' \in [Masters -> Directories]
    BY <1>a, <1>f, <1>t
  <2>2. phase' \in [Masters -> Phases]
    BY <1>a, <1>t DEF Phases
  <2>3. attempts' \in 1 .. given.attempts
    BY <1>a, <1>t
  <2> QED
    BY <1>a, <1>t, <2>1, <2>2, <2>3 DEF RestoreTypeOK
<1>3. ASSUME NEW m \in Masters PROVE Restored(m)'
  <2>1. CASE m \in ms
    BY <1>a, <1>o, <2>1 DEF Restored
  <2>2. CASE m \notin ms
    BY <1>a, <2>2, Untouched DEF RestoreIInv
  <2> QED
    BY <2>1, <2>2
<1>4. ASSUME Undoable', NEW m \in Masters PROVE Secured(m)'
  <2>1. Undoable /\ Faults \cap {"deadline", "host"} = {}
    BY <1>4, <1>a, <1>t DEF Undoable, Faults
  <2>2. CASE m \in ms
    <3>1. files[m].manifests /\ files[m].etcd \in Data
      BY <1>1, <2>1, <2>2 DEF RestoreIInv, Secured, Serving, Data
    <3>2. Serving(files'[m]) /\ phase'[m] = "Pending" /\ at'[m] = "idle"
      BY <1>a, <1>f, <1>o, <2>2, <3>1
    <3> QED
      BY <3>2 DEF Secured, Serving, Unsuccessful
  <2>3. CASE m \notin ms
    BY <1>a, <2>1, <2>3, Untouched DEF RestoreIInv
  <2> QED
    BY <2>2, <2>3
<1> QED
  BY <1>2, <1>3, <1>4 DEF RestoreIInv

-----------------------------------------------------------------------------
\* Every master serves its own data before the recovery.
LEMMA RestoreBegins ==
    ASSUME RestoreInit PROVE RestoreIInv
<1>1. given.attempts \in Nat \ {0} /\ given \in Scenarios
  BY RestoreAssumption DEF RestoreInit
<1>2. 1 \in 1 .. given.attempts
  BY <1>1
<1>3. RestoreTypeOK
  BY <1>1, <1>2 DEF RestoreInit, RestoreTypeOK, Directories, Content, Data, Phases, Parts
<1> QED
  BY <1>3 DEF RestoreInit, RestoreIInv, Restored, Secured, Serving, Unsuccessful

\* Every step preserves the inductive invariant.
LEMMA RestoreStep ==
    ASSUME RestoreIInv, [RestoreNext]_restoreVars PROVE RestoreIInv'
<1>1. ASSUME NEW m \in Masters, Install(m) PROVE RestoreIInv'
  BY <1>1, BeforeRecoveryStep, RecoveringStep, ResetStep DEF Install
<1>2. CASE UNCHANGED restoreVars
  BY <1>2 DEF restoreVars, bounds, RestoreIInv, RestoreTypeOK, Restored, Secured, Undoable, Faults
<1> QED
  BY <1>1, <1>2, AroundStep, NewTasksStep DEF RestoreNext, Done

\* What a master had is not lost by a recovery, in its place or beside it, until
\* its task has succeeded, on every master and however the agents interleave
\* (BeforeRecovery, Recovering, failedOperate), short of a crash, of a failed move
\* or read, and of another execution after a deadline or a failed host lookup.
THEOREM RecoveryLosesNothing == RestoreSpec => []RestoreInvariant
<1>1. RestoreInit => RestoreIInv
  BY RestoreBegins
<1>2. RestoreIInv /\ [RestoreNext]_restoreVars => RestoreIInv'
  BY RestoreStep
<1>3. RestoreIInv => RestoreInvariant
  <2> SUFFICES ASSUME RestoreIInv,
                      Faults \cap {"crash", "move", "read"} = {},
                      Faults \cap {"deadline", "host"} = {} \/ ~(attempts > 1),
                      NEW m \in Masters, phase[m] # "Succeeded"
               PROVE  Kept(files[m])
    BY DEF RestoreIInv, RestoreInvariant, BeforeIsKept, Kept
  <2>1. Undoable
    BY RestoreAssumption DEF RestoreIInv, RestoreTypeOK, Undoable
  <2>2. /\ SecuredAs(files[m], phase[m], at[m]) /\ RestoredAs(files[m], phase[m], at[m])
        /\ phase[m] \in Phases /\ at[m] \in Parts
    BY <2>1, Before
  <2> QED
    BY <2>2 DEF SecuredAs, RestoredAs, Serving, Aside, Kept, Phases, Parts
<1> QED
  BY <1>1, <1>2, <1>3, PTL DEF RestoreSpec

\* The verdict of a recovery says what the master serves: the snapshot when the
\* task succeeded, whatever went wrong on the way and whichever commands were
\* executed twice, and what it served before when it did not, short of the faults
\* that failedOperate does not meet (Install, failedOperate).
THEOREM RecoveryVerdictIsTrue == RestoreSpec => []VerdictIsTrue
<1>1. RestoreInit => RestoreIInv
  BY RestoreBegins
<1>2. RestoreIInv /\ [RestoreNext]_restoreVars => RestoreIInv'
  BY RestoreStep
<1>3. RestoreIInv => VerdictIsTrue
  <2> SUFFICES ASSUME RestoreIInv PROVE VerdictIsTrue
    OBVIOUS
  <2>1. SucceededServesSnapshot
    BY DEF RestoreIInv, Restored, SucceededServesSnapshot, Snapshot
  <2>2. FailedIsReset
    <3> SUFFICES ASSUME Faults \cap {"crash", "deadline", "host", "move", "read"} = {},
                        NEW m \in Masters, phase[m] \in Unsuccessful
                 PROVE  Serving(files[m])
      BY DEF FailedIsReset, Serving
    <3>1. Undoable /\ Faults \cap {"deadline", "host"} = {}
      BY DEF Undoable
    <3> QED
      BY <3>1 DEF RestoreIInv, Secured
  <2> QED
    BY <2>1, <2>2 DEF VerdictIsTrue
<1> QED
  BY <1>1, <1>2, <1>3, PTL DEF RestoreSpec

=============================================================================
