--------------------------- MODULE OperationStore ---------------------------
(***************************************************************************)
(* The typed store of operation engine v2: Operations, OperationTasks and  *)
(* ExecutionLocks in etcd, and the conditional writes the store offers.    *)
(* Each operator below is the effect of one call on the objects; the       *)
(* caller says what happens to its own state.  A call that reads before it *)
(* writes is one step because the write is conditional on what was read    *)
(* (resourceVersion for operations, name and phase for tasks, UID for      *)
(* locks).                                                                 *)
(*                                                                         *)
(* Every write of a task changes its phase, so "the resourceVersion is     *)
(* still the one I read" is "the phase is still the one I read".           *)
(***************************************************************************)
EXTENDS Reducer

VARIABLES
    ops,     \* [Ops -> Operation]
    tasks,   \* the tasks that exist: a map from names to tasks
    lock,    \* [Targets -> Lock]; the uid of an absent lock is the last one used
    opRev,   \* the last resourceVersion given to an operation
    clock    \* server time against the deadline of each operation's current
             \* run: 0 before it, 1 at or after it, 2 when the termination grace
             \* period is over too; it matters only while the operation runs

storeVars == <<ops, tasks, lock, opRev>>

StoreTypeOK ==
    /\ ops \in [Ops -> Operation]
    /\ IsTaskMap(tasks)
    /\ lock \in [Targets -> Lock]
    /\ opRev \in Nat
    /\ clock \in [Ops -> 0..2]

StoreInit ==
    /\ ops = [o \in Ops |-> AbsentOperation]
    /\ tasks = NoTasks
    /\ lock = [g \in Targets |-> [holder |-> NoOp, uid |-> 0]]
    /\ opRev = 0
    /\ clock = [o \in Ops |-> 0]

-----------------------------------------------------------------------------
\* Every write of an Operation takes the next resourceVersion.
WriteOperation(o, op) ==
    /\ ops' = [ops EXCEPT ![o] = [op EXCEPT !.rv = opRev + 1]]
    /\ opRev' = opRev + 1

\* UpdateOperationStatus succeeds: the resourceVersion is current and the
\* phase transition is allowed.
CanUpdateStatus(o, old, new) ==
    /\ ops[o].rv = old.rv
    /\ ValidPhaseTransition(ops[o].phase, new.phase) \/ IsRetryReopen(ops[o], new)

UpdateOperationStatus(o, new) ==
    WriteOperation(o, new) /\ UNCHANGED <<tasks, lock>>

\* ListTasksByOperationUID, served by quorum reads.
TasksOf(o) == [t \in {u \in DOMAIN tasks : u.op = o} |-> tasks[t]]

\* Mutant: an existing task is overwritten.
CreateTask_Overwrites(t, deadline) ==
    /\ tasks' = [u \in DOMAIN tasks \cup {t} |->
                    IF u = t THEN NewTask(deadline) ELSE tasks[u]]
    /\ UNCHANGED <<ops, lock, opRev>>

\* CreateTask: AlreadyExists leaves the existing task alone.
CreateTask(t, deadline) ==
    /\ tasks' = IF t \in DOMAIN tasks THEN tasks
                ELSE [u \in DOMAIN tasks \cup {t} |->
                        IF u = t THEN NewTask(deadline) ELSE tasks[u]]
    /\ UNCHANGED <<ops, lock, opRev>>

\* UpdateTaskStatus, CancelPendingTask and TimeoutRunningTask.
CanUpdateTask(t, expected) == t \in DOMAIN tasks /\ tasks[t].phase = expected

UpdateTask(t, phase, out) ==
    /\ ValidPhaseTransition(tasks[t].phase, phase)
    /\ tasks' = [tasks EXCEPT ![t].phase = phase, ![t].out = out]
    /\ UNCHANGED <<ops, lock, opRev>>

\* AcquireLock: Create decides; on AlreadyExists the holder is read back.  The
\* result is owned when it was created or already belongs to o.
CanAcquireLock(o) == lock[TargetOf[o]].holder \in {NoOp, o}

AcquireLock(o) ==
    /\ lock' = [lock EXCEPT ![TargetOf[o]] =
                   IF @.holder = o THEN @ ELSE [holder |-> o, uid |-> @.uid + 1]]
    /\ UNCHANGED <<ops, tasks, opRev>>

\* ReleaseLock deletes only the lock with this UID and this holder; any other
\* lock is left alone.
HoldsLock(o, uid) ==
    lock[TargetOf[o]].holder = o /\ lock[TargetOf[o]].uid = uid

ReleaseLock(o, uid) ==
    /\ lock' = [lock EXCEPT ![TargetOf[o]] =
                   IF HoldsLock(o, uid) THEN [@ EXCEPT !.holder = NoOp] ELSE @]
    /\ UNCHANGED <<ops, tasks, opRev>>

=============================================================================
