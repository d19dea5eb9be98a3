------------------------------ MODULE OrderProofs ------------------------------
(***************************************************************************)
(* With one leader, the operations of a target form a queue: they run in   *)
(* the order of their creation although every worker decides from a list   *)
(* it read earlier, and the engine implements module TargetQueue.          *)
(*                                                                         *)
(* And the tasks of an operation tell its story: steps one after another,  *)
(* the attempts of a node one after another and within their budget, and a *)
(* verdict that is the truth about them.                                   *)
(***************************************************************************)
EXTENDS OperationEngineProofs, FiniteSetTheorems

OlderRivals(o) ==
    {p \in Ops \ {o} : /\ TargetOf[p] = TargetOf[o]
                       /\ ops[p].phase # "Absent" /\ ops[o].phase # "Absent"
                       /\ ops[p].created < ops[o].created}

OlderAreOver(o) == \A p \in OlderRivals(o) : Terminal(p)

WaitPcs == {"listTasks", "listOps"}

\* q has not run yet, and its worker, if any, has not got past isEarliestRunnable.
Waits(q) ==
    /\ ops[q].phase = "Pending" /\ ops[q].observed = 0
    /\ \A c \in Ctrls : ctl[c].op = q => ctl[c].pc \in WaitPcs

\* An older rival of q is about to be reopened, and its write will succeed.
HeldBack(q) ==
    \E c \in Ctrls : /\ ctl[c].pc = "reopen" /\ ctl[c].op \in OlderRivals(q)
                     /\ ctl[c].snap.rv = ops[ctl[c].op].rv

\* What a worker may rely on about the order: the creation time it read, its copy
\* as long as the resourceVersion is current, and the answers of
\* isEarliestRunnable and isLatestOperation it acts on.
WorkerInOrder(w) ==
    w.pc # "idle" =>
        /\ w.snap.created = ops[w.op].created
        /\ w.snap.rv <= opRev
        /\ w.snap.rv = ops[w.op].rv => w.snap = ops[w.op]
        /\ w.pc \in {"relist", "reopen"} => RetryRequested(w.snap)
        /\ w.pc \in {"acquire", "start"} => OlderAreOver(w.op)

OrderInvariant ==
    /\ \A o \in Ops : ops[o].phase = "Running" => OlderAreOver(o)
    /\ \A c \in Ctrls : WorkerInOrder(ctl[c])
    /\ \A q \in Ops : HeldBack(q) => Waits(q)

-----------------------------------------------------------------------------
\* The worker's record and what the two invariants say of it.
LEMMA BusyFacts ==
    ASSUME TypeInv, LockInvariant, OrderInvariant, NEW c \in Ctrls, Busy(c)
    PROVE  /\ ctl[c] \in [pc : Pcs, op : Ops, snap : Operation, view : {ctl[c].view},
                          todo : SUBSET TaskId, goal : Goal, lockUID : Nat]
           /\ WorkerKnows(ctl[c]) /\ WorkerInOrder(ctl[c])
           /\ ctl[c].pc \notin WaitPcs => ~HeldBack(ctl[c].op)
           /\ \A d \in Ctrls \ {c} : ctl[d].op # ctl[c].op
BY WorkerFacts DEF OrderInvariant, Waits, Busy, LockInvariant, OneWorkerPerOperation, At

\* The operations do not change; a worker moves on.
LEMMA MoveInOrder ==
    ASSUME TypeInv, LockInvariant, OrderInvariant, NEW c \in Ctrls, Busy(c),
           UNCHANGED <<ops, opRev>>, NEW w, Become(c, w),
           \/ w = IdleWorker
           \/ /\ w.op = ctl[c].op /\ w.snap = ctl[c].snap
              /\ HeldBack(w.op) => w.pc \in WaitPcs
              /\ w.pc \in {"relist", "reopen"} => RetryRequested(w.snap)
              /\ w.pc \in {"acquire", "start"} => OlderAreOver(w.op)
              /\ w.pc = "reopen" => \A q \in Ops : w.op \notin OlderRivals(q)
    PROVE  OrderInvariant'
<1>1. ctl'[c] = w /\ \A d \in Ctrls \ {c} : ctl'[d] = ctl[d]
  BY TypeInvParts DEF Become, WorkersTyped, ControllerTypeOK
<1>2. WorkerInOrder(ctl[c]) /\ Busy(c)
  BY DEF OrderInvariant
<1>3. \A o : OlderRivals(o)' = OlderRivals(o) /\ (OlderAreOver(o)' <=> OlderAreOver(o))
  BY DEF OlderRivals, OlderAreOver, Terminal
<1>i. IdleWorker.pc = "idle" /\ IdleWorker.op = NoOp
  BY DEF IdleWorker
<1>4. WorkerInOrder(ctl[c])'
  BY <1>1, <1>2, <1>3, <1>i DEF WorkerInOrder, Busy
<1>5. \A d \in Ctrls \ {c} : WorkerInOrder(ctl[d])'
  BY <1>1, <1>3 DEF OrderInvariant, WorkerInOrder
<1>6. \A o \in Ops : ops'[o].phase = "Running" => OlderAreOver(o)'
  BY <1>3 DEF OrderInvariant
<1>7. ASSUME NEW q \in Ops, HeldBack(q)'
      PROVE  Waits(q)'
  <2>1. PICK d \in Ctrls : /\ ctl'[d].pc = "reopen" /\ ctl'[d].op \in OlderRivals(q)
                           /\ ctl'[d].snap.rv = ops[ctl'[d].op].rv
    BY <1>7, <1>3 DEF HeldBack
  <2>2. d # c
    BY <1>1, <1>i, <2>1
  <2>3. HeldBack(q)
    BY <1>1, <2>1, <2>2 DEF HeldBack
  <2>4. Waits(q)
    BY <2>3 DEF OrderInvariant
  <2>5. ctl'[c].op = q => ctl'[c].pc \in WaitPcs
    BY <1>1, <1>i, <2>3, ConstantsAssumption
  <2> QED
    BY <1>1, <2>4, <2>5 DEF Waits
<1> QED
  BY <1>4, <1>5, <1>6, <1>7 DEF OrderInvariant

\* The worker writes the status of its operation and returns or goes on to release
\* the lock: the creation time stays, and no rival is overtaken.
LEMMA StatusInOrder ==
    ASSUME TypeInv, LockInvariant, OrderInvariant, NEW c \in Ctrls, Busy(c),
           NEW new \in Operation, UpdateOperationStatus(ctl[c].op, new),
           Done(c) \/ Goto(c, "release"),
           ctl[c].pc \notin WaitPcs \cup {"release"},
           new.created = ctl[c].snap.created, new.phase # "Absent",
           new.phase = "Running" => OlderAreOver(ctl[c].op),
           \/ new.phase \in TerminalPhases \/ ~Terminal(ctl[c].op)
           \/ \A q \in Ops : ctl[c].op \in OlderRivals(q) => Waits(q)
    PROVE  OrderInvariant'
<1> DEFINE o == ctl[c].op
<1>t. /\ ops \in [Ops -> Operation] /\ opRev \in Nat
  BY TypeInvParts DEF StoreTyped, StoreTypeOK
<1>w. /\ ctl[c] \in [pc : Pcs, op : Ops, snap : Operation, view : {ctl[c].view},
                      todo : SUBSET TaskId, goal : Goal, lockUID : Nat]
      /\ WorkerKnows(ctl[c]) /\ WorkerInOrder(ctl[c])
      /\ ~HeldBack(o) /\ \A d \in Ctrls \ {c} : ctl[d].op # o
  BY BusyFacts
<1>1. opRev' = opRev + 1 /\ ops' = [ops EXCEPT ![o] = [new EXCEPT !.rv = opRev + 1]]
  BY DEF UpdateOperationStatus, WriteOperation
<1>2. /\ \A p \in Ops \ {o} : ops'[p] = ops[p]
      /\ ops'[o].phase = new.phase /\ ops'[o].rv = opRev + 1
      /\ ops'[o].created = ops[o].created
      /\ ops[o].phase # "Absent"
  BY <1>t, <1>w, <1>1 DEF Operation, WorkerInOrder, WorkerKnows, Busy
<1>3. /\ \A d \in Ctrls \ {c} : ctl'[d] = ctl[d]
      /\ ctl'[c].pc \in {"idle", "release"} /\ ctl'[c].op \in {NoOp, o}
      /\ ctl'[c].pc # "idle" => ctl'[c].op = o /\ ctl'[c].snap = ctl[c].snap
  BY <1>w, TypeInvParts DEF Done, Goto, Become, WorkersTyped, ControllerTypeOK, IdleWorker
<1>4. \A p \in Ops : OlderRivals(p)' = OlderRivals(p)
  BY <1>2 DEF OlderRivals
<1>5. ASSUME NEW p \in Ops, OlderAreOver(p), ~Waits(p)
      PROVE  OlderAreOver(p)'
  <2>1. o \in OlderRivals(p) => Terminal(o) /\ new.phase \in TerminalPhases
    BY <1>5 DEF OlderAreOver
  <2> QED
    BY <1>2, <1>4, <1>5, <2>1 DEF OlderAreOver, Terminal, OlderRivals
<1>6. ASSUME NEW p \in Ops, ops'[p].phase = "Running"
      PROVE  OlderAreOver(p)'
  <2>1. CASE p = o
    <3>1. OlderAreOver(o)
      BY <1>2, <1>6, <2>1
    <3>2. o \notin OlderRivals(o)
      BY DEF OlderRivals
    <3> QED
      BY <1>2, <1>4, <2>1, <3>1, <3>2 DEF OlderAreOver, Terminal, OlderRivals
  <2>2. CASE p # o
    BY <1>2, <1>5, <1>6, <2>2 DEF OrderInvariant, Waits
  <2> QED
    BY <2>1, <2>2
<1>7. ASSUME NEW d \in Ctrls
      PROVE  WorkerInOrder(ctl[d])'
  <2>1. CASE d = c
    <3>1. ctl[c].snap.rv \in Nat /\ ctl[c].snap.rv <= opRev
      BY <1>w DEF WorkerInOrder, Operation, Busy
    <3> QED
      BY <1>t, <1>w, <1>1, <1>2, <1>3, <2>1, <3>1 DEF WorkerInOrder, Busy
  <2>2. CASE d # c /\ ctl[d].pc = "idle"
    BY <1>3, <2>2 DEF WorkerInOrder
  <2>3. CASE d # c /\ ctl[d].pc # "idle"
    <3>1. /\ ctl[d].op \in Ops \ {o} /\ WorkerInOrder(ctl[d]) /\ ctl'[d] = ctl[d]
          /\ ctl[d].snap.rv \in Nat
      BY <1>w, <1>3, <2>3, BusyFacts DEF Busy, Operation
    <3>2. ctl[d].pc \in {"acquire", "start"} => ~Waits(ctl[d].op)
      BY DEF Waits, WaitPcs
    <3> QED
      BY <1>t, <1>1, <1>2, <1>5, <2>3, <3>1, <3>2 DEF WorkerInOrder
  <2> QED
    BY <2>1, <2>2, <2>3
<1>8. ASSUME NEW q \in Ops, HeldBack(q)'
      PROVE  Waits(q)'
  <2>1. PICK d \in Ctrls : /\ ctl'[d].pc = "reopen" /\ ctl'[d].op \in OlderRivals(q)
                           /\ ctl'[d].snap.rv = ops'[ctl'[d].op].rv
    BY <1>8, <1>4 DEF HeldBack
  <2>2. d # c /\ ctl'[d] = ctl[d] /\ ctl[d].op \in Ops \ {o}
    BY <1>w, <1>3, <2>1 DEF OlderRivals
  <2>3. HeldBack(q)
    BY <1>2, <2>1, <2>2 DEF HeldBack
  <2>4. Waits(q) /\ q # o
    BY <1>w, <2>3 DEF OrderInvariant
  <2> QED
    BY <1>2, <1>3, <2>4, ConstantsAssumption DEF Waits
<1> QED
  BY <1>6, <1>7, <1>8 DEF OrderInvariant

\* A handler writes an operation: a new one is at least as young as all others, an
\* existing one keeps its creation time, its phase and what is observed.
LEMMA APIWriteInOrder ==
    ASSUME TypeInv, LockInvariant, OrderInvariant, NEW o \in Ops, NEW new \in Operation,
           WriteOperation(o, new), UNCHANGED ctl,
           \/ /\ new.created = ops[o].created /\ new.phase = ops[o].phase
              /\ new.observed = ops[o].observed
           \/ /\ ops[o].phase = "Absent" /\ new.phase = "Pending" /\ new.observed = 0
              /\ \A p \in Ops : ops[p].created <= new.created
    PROVE  OrderInvariant'
<1>t. ops \in [Ops -> Operation] /\ opRev \in Nat
  BY TypeInvParts DEF StoreTyped, StoreTypeOK
<1>1. opRev' = opRev + 1 /\ ops' = [ops EXCEPT ![o] = [new EXCEPT !.rv = opRev + 1]]
  BY DEF WriteOperation
<1>2. /\ \A p \in Ops \ {o} : ops'[p] = ops[p]
      /\ ops'[o].phase = new.phase /\ ops'[o].rv = opRev + 1
      /\ ops'[o].created = new.created /\ ops'[o].observed = new.observed
  BY <1>t, <1>1 DEF Operation
<1>3. \A p \in Ops : ops[p].created \in Nat /\ new.created \in Nat
  BY <1>t DEF Operation
<1>4. \A p \in Ops : (p # o \/ ops[o].phase # "Absent") => OlderRivals(p)' = OlderRivals(p)
  <2> SUFFICES ASSUME NEW p \in Ops, p # o \/ ops[o].phase # "Absent", NEW r \in Ops
               PROVE  r \in OlderRivals(p)' <=> r \in OlderRivals(p)
    BY DEF OlderRivals
  <2>1. CASE ops[o].phase # "Absent"
    BY <1>2, <2>1 DEF OlderRivals
  <2>2. CASE ops[o].phase = "Absent" /\ new.phase = "Pending"
    BY <1>2, <1>3, <2>2 DEF OlderRivals
  <2>3. CASE ops[o].phase = "Absent" /\ new.phase = "Absent"
    BY <1>2, <1>3, <2>3 DEF OlderRivals
  <2> QED
    BY <2>1, <2>2, <2>3
<1>5. \A p \in Ops : OlderAreOver(p) /\ (p # o \/ ops[o].phase # "Absent") => OlderAreOver(p)'
  <2> SUFFICES ASSUME NEW p \in Ops, OlderAreOver(p), p # o \/ ops[o].phase # "Absent",
                      NEW r \in OlderRivals(p)
               PROVE  ops'[r].phase \in TerminalPhases
    BY <1>4 DEF OlderAreOver, Terminal
  <2>1. ops[r].phase \in TerminalPhases /\ r \in Ops
    BY DEF OlderAreOver, Terminal, OlderRivals
  <2> QED
    BY <1>2, <2>1 DEF TerminalPhases
<1>6. ASSUME NEW p \in Ops, ops'[p].phase = "Running"
      PROVE  OlderAreOver(p)'
  BY <1>2, <1>5, <1>6 DEF OrderInvariant
<1>w. ASSUME NEW d \in Ctrls, ctl[d].pc # "idle"
      PROVE  /\ ctl[d].op \in Ops /\ WorkerInOrder(ctl[d]) /\ ctl[d].snap.rv \in Nat
             /\ ops[ctl[d].op].phase # "Absent"
  <2>1. /\ ctl[d].op \in Ops /\ WorkerInOrder(ctl[d]) /\ ctl[d].snap \in Operation
        /\ WorkerKnows(ctl[d])
    BY <1>w, BusyFacts DEF Busy
  <2> QED
    BY <1>w, <2>1 DEF WorkerKnows, Terminal, TerminalPhases, Operation
<1>7. ASSUME NEW d \in Ctrls
      PROVE  WorkerInOrder(ctl[d])'
  <2>1. CASE ctl[d].pc = "idle"
    BY <2>1 DEF WorkerInOrder
  <2>2. CASE ctl[d].pc # "idle"
    <3>1. /\ ctl[d].op \in Ops /\ WorkerInOrder(ctl[d]) /\ ctl[d].snap.rv \in Nat
          /\ ops[ctl[d].op].phase # "Absent"
      BY <1>w, <2>2
    <3>2. /\ ctl[d].snap.rv <= opRev /\ ctl[d].snap.rv <= opRev' /\ ctl[d].snap.rv # opRev + 1
          /\ ctl[d].snap.created = ops'[ctl[d].op].created
      BY <1>t, <1>1, <1>2, <2>2, <3>1 DEF WorkerInOrder
    <3>3. OlderAreOver(ctl[d].op) => OlderAreOver(ctl[d].op)'
      BY <1>5, <3>1
    <3>4. ctl[d].snap.rv = ops'[ctl[d].op].rv => ctl[d].snap = ops'[ctl[d].op]
      BY <1>2, <2>2, <3>1, <3>2 DEF WorkerInOrder
    <3> QED
      BY <2>2, <3>1, <3>2, <3>3, <3>4 DEF WorkerInOrder
  <2> QED
    BY <2>1, <2>2
<1>8. ASSUME NEW q \in Ops, HeldBack(q)'
      PROVE  Waits(q)'
  <2>1. PICK d \in Ctrls : /\ ctl[d].pc = "reopen" /\ ctl[d].op \in OlderRivals(q)'
                           /\ ctl[d].snap.rv = ops'[ctl[d].op].rv
    BY <1>8 DEF HeldBack
  <2>2. ctl[d].op # o
    BY <1>t, <1>2, <1>w, <2>1 DEF WorkerInOrder
  <2>3. CASE q # o \/ ops[o].phase # "Absent"
    <3>1. HeldBack(q)
      BY <1>2, <1>4, <1>w, <2>1, <2>2, <2>3 DEF HeldBack
    <3>2. Waits(q)
      BY <3>1 DEF OrderInvariant
    <3> QED
      BY <1>2, <2>3, <3>2 DEF Waits
  <2>4. CASE q = o /\ ops[o].phase = "Absent"
    <3>1. \A e \in Ctrls : ctl[e].op # o
      <4> SUFFICES ASSUME NEW e \in Ctrls, ctl[e].op = o PROVE FALSE
        OBVIOUS
      <4>1. ctl[e].pc # "idle"
        BY TypeInvParts, ConstantsAssumption DEF WorkersTyped, ControllerTypeOK, WorkerOK
      <4> QED
        BY <1>w, <2>4, <4>1
    <3>2. ops'[o].phase # "Absent"
      BY <2>1, <2>4 DEF OlderRivals
    <3> QED
      BY <1>2, <2>4, <3>1, <3>2 DEF Waits
  <2> QED
    BY <2>3, <2>4
<1> QED
  BY <1>6, <1>7, <1>8 DEF OrderInvariant

\* Neither the operations nor the workers change.
LEMMA OutsideInOrder ==
    ASSUME OrderInvariant, UNCHANGED <<ops, opRev, ctl>>
    PROVE  OrderInvariant'
<1>1. \A o : OlderRivals(o)' = OlderRivals(o) /\ (OlderAreOver(o)' <=> OlderAreOver(o))
  BY DEF OlderRivals, OlderAreOver, Terminal
<1>2. \A c \in Ctrls : WorkerInOrder(ctl[c])'
  BY <1>1 DEF OrderInvariant, WorkerInOrder
<1>3. \A q \in Ops : (HeldBack(q)' <=> HeldBack(q)) /\ (Waits(q)' <=> Waits(q))
  BY <1>1 DEF HeldBack, Waits
<1> QED
  BY <1>1, <1>2, <1>3 DEF OrderInvariant

\* A worker that returns.
LEMMA DoneInOrder ==
    ASSUME TypeInv, LockInvariant, OrderInvariant, NEW c \in Ctrls, Busy(c), Done(c),
           UNCHANGED <<ops, opRev>>
    PROVE  OrderInvariant'
BY MoveInOrder DEF Done

-----------------------------------------------------------------------------
\* reconcileOperation lets an operation past isEarliestRunnable only when the older
\* ones are over and none of them is being reopened.
LEMMA EarliestIsNotHeld ==
    ASSUME TypeInv, LockInvariant, OrderInvariant, NEW c \in Ctrls, Busy(c),
           IsEarliestRunnable(ctl[c].op, ctl[c].snap, ops)
    PROVE  OlderAreOver(ctl[c].op) /\ ~HeldBack(ctl[c].op)
<1> DEFINE o == ctl[c].op
<1>t. ops \in [Ops -> Operation]
  BY TypeInvParts DEF StoreTyped, StoreTypeOK
<1>w. o \in Ops /\ ctl[c].snap \in Operation /\ ctl[c].snap.created = ops[o].created
  BY BusyFacts DEF WorkerInOrder, Busy
<1>1. ASSUME NEW p \in OlderRivals(o)
      PROVE  Terminal(p) /\ ~RetryRequested(ops[p])
  <2>1. p \in Others(o, ops) /\ ops[p].created < ctl[c].snap.created
    BY <1>w DEF Others, OlderRivals
  <2>2. OperationBefore(ops[p], ctl[c].snap)
    <3>1. ops[p].created \in Nat /\ ctl[c].snap.created \in Nat
      BY <1>t, <1>w DEF Operation, OlderRivals
    <3> QED
      BY <2>1, <3>1 DEF OperationBefore
  <2>3. ~OperationNeedsExecution(ops[p])
    BY <2>1, <2>2 DEF IsEarliestRunnable
  <2> QED
    BY <2>3 DEF OperationNeedsExecution, Terminal
<1>2. ~HeldBack(o)
  <2> SUFFICES ASSUME NEW d \in Ctrls, ctl[d].pc = "reopen", ctl[d].op \in OlderRivals(o),
                      ctl[d].snap.rv = ops[ctl[d].op].rv
               PROVE  FALSE
    BY DEF HeldBack
  <2>1. ctl[d].snap = ops[ctl[d].op] /\ RetryRequested(ctl[d].snap)
    BY DEF OrderInvariant, WorkerInOrder
  <2> QED
    BY <1>1, <2>1
<1> QED
  BY <1>1, <1>2 DEF OlderAreOver

\* retryStillLatest lets a retry on only when nothing younger exists.
LEMMA LatestIsYoungest ==
    ASSUME TypeInv, LockInvariant, OrderInvariant, NEW c \in Ctrls, Busy(c),
           IsLatestOperation(ctl[c].op, ctl[c].snap, ops)
    PROVE  \A q \in Ops : ctl[c].op \notin OlderRivals(q)
<1> DEFINE o == ctl[c].op
<1>t. ops \in [Ops -> Operation]
  BY TypeInvParts DEF StoreTyped, StoreTypeOK
<1>w. o \in Ops /\ ctl[c].snap \in Operation /\ ctl[c].snap.created = ops[o].created
  BY BusyFacts DEF WorkerInOrder, Busy
<1> SUFFICES ASSUME NEW q \in Ops, o \in OlderRivals(q) PROVE FALSE
  OBVIOUS
<1>1. q # o /\ TargetOf[q] = TargetOf[o] /\ ctl[c].snap.created < ops[q].created
  BY <1>w DEF OlderRivals
<1>2. OperationBefore(ctl[c].snap, ops[q])
  <2>1. ops[q].created \in Nat /\ ctl[c].snap.created \in Nat
    BY <1>t, <1>w DEF Operation
  <2> QED
    BY <1>1, <2>1 DEF OperationBefore
<1>3. ops[q].phase # "Absent"
  BY DEF OlderRivals
<1> QED
  BY <1>1, <1>2, <1>3 DEF IsLatestOperation, Others

\* The steps that leave the operations alone.
LEMMA ReadStepsInOrder ==
    ASSUME TypeInv, LockInvariant, OrderInvariant, NEW c \in Ctrls,
           \/ ListTasks(c) \/ ListOperations(c) \/ AcquireLockStep(c)
           \/ RetryStillLatest(c) \/ UnlockSkippedRetry(c)
           \/ FinishList(c) \/ GetLock(c) \/ ReleaseTerminalLock(c)
    PROVE  OrderInvariant'
<1>b. Busy(c)
  BY DEF Busy, At, ListTasks, ListOperations, AcquireLockStep, RetryStillLatest,
         UnlockSkippedRetry, FinishList, GetLock, ReleaseTerminalLock
<1>u. UNCHANGED <<ops, opRev>>
  BY DEF ListTasks, ListOperations, AcquireLockStep, RetryStillLatest, UnlockSkippedRetry,
         FinishList, GetLock, ReleaseTerminalLock, AcquireLock, ReleaseLock, storeVars
<1>w. /\ ctl[c] \in [pc : Pcs, op : Ops, snap : Operation, view : {ctl[c].view},
                      todo : SUBSET TaskId, goal : Goal, lockUID : Nat]
      /\ WorkerKnows(ctl[c]) /\ WorkerInOrder(ctl[c])
      /\ ctl[c].pc \notin WaitPcs => ~HeldBack(ctl[c].op)
  BY <1>b, BusyFacts
\* An operation that is held back is Pending.
<1>h. ctl[c].pc \in WaitPcs /\ ctl[c].snap.phase \in TerminalPhases => ~HeldBack(ctl[c].op)
  <2>1. ctl[c].pc \in WaitPcs => ops[ctl[c].op].phase = ctl[c].snap.phase
    BY <1>w DEF WorkerKnows, WaitPcs
  <2> QED
    BY <1>w, <2>1 DEF OrderInvariant, Waits, TerminalPhases
<1>1. CASE ListTasks(c)
  <2> DEFINE v == [ctl[c] EXCEPT !.view = TasksOf(ctl[c].op)]
             v1 == [v EXCEPT !.pc = "listOps"]
             v2 == [v EXCEPT !.pc = "getLock", !.todo = {}, !.goal = NoGoal,
                             !.view = NoTasks]
  <2>1. v.snap = ctl[c].snap /\ ctl[c].pc = "listTasks"
    BY <1>w, <1>1 DEF ListTasks, At
  <2>2. \/ Become(c, v1)
        \/ Done(c)
        \/ Become(c, v2) /\ ctl[c].snap.phase \in TerminalPhases
    BY <1>1, <2>1 DEF ListTasks, Follow, Return, Loop, Done
  <2>3. /\ v1.op = ctl[c].op /\ v1.snap = ctl[c].snap /\ v1.pc = "listOps"
        /\ v2.op = ctl[c].op /\ v2.snap = ctl[c].snap /\ v2.pc = "getLock"
    BY <1>w
  <2> HIDE DEF v1, v2
  <2> QED
    BY <1>b, <1>u, <1>h, <2>1, <2>2, <2>3, MoveInOrder, DoneInOrder DEF WaitPcs
<1>2. CASE ListOperations(c)
  <2> DEFINE v1 == [ctl[c] EXCEPT !.pc = "skipRetry", !.todo = {}, !.goal = NoGoal,
                                  !.view = NoTasks]
             v2 == [ctl[c] EXCEPT !.pc = "finishList", !.todo = {},
                          !.goal = [phase |-> "Canceled", reason |-> "CancelledByRequest"],
                          !.view = NoTasks]
             v3 == [ctl[c] EXCEPT !.pc = "acquire"]
  <2>1. ctl[c].pc = "listOps"
    BY <1>2 DEF ListOperations, At
  <2>2. \/ Become(c, v1) /\ RetryRequested(ctl[c].snap)
        \/ /\ Become(c, v2) \/ Become(c, v3)
           /\ IsEarliestRunnable(ctl[c].op, ctl[c].snap, ops)
        \/ Done(c)
    BY <1>2 DEF ListOperations, Follow, Loop, Finish, Done, Goto
  <2>3. /\ v1.op = ctl[c].op /\ v1.snap = ctl[c].snap /\ v1.pc = "skipRetry"
        /\ v2.op = ctl[c].op /\ v2.snap = ctl[c].snap /\ v2.pc = "finishList"
        /\ v3.op = ctl[c].op /\ v3.snap = ctl[c].snap /\ v3.pc = "acquire"
    BY <1>w
  <2>4. RetryRequested(ctl[c].snap) => ~HeldBack(ctl[c].op)
    BY <1>w, <1>h, <2>1 DEF WorkerKnows, WaitPcs
  <2> HIDE DEF v1, v2, v3
  <2> QED
    BY <1>b, <1>u, <2>2, <2>3, <2>4, MoveInOrder, DoneInOrder, EarliestIsNotHeld
<1>3. CASE AcquireLockStep(c)
  <2>1. CASE ~CanAcquireLock(ctl[c].op)
    BY <1>3, <1>b, <1>u, <2>1, DoneInOrder DEF AcquireLockStep
  <2>2. CASE CanAcquireLock(ctl[c].op)
    <3> DEFINE v == [ctl[c] EXCEPT !.lockUID = lock'[TargetOf[ctl[c].op]].uid]
               d == ReconcileLocked(v.op, v.snap, v.view, clock[v.op])
               next == [v EXCEPT !.pc = d.pc, !.todo = d.todo, !.goal = d.goal,
                                 !.view = NoTasks]
    <3>1. ctl[c].pc = "acquire" /\ Become(c, IF d.pc = "idle" THEN IdleWorker ELSE next)
      BY <1>3, <2>2 DEF AcquireLockStep, Follow, At
    <3>2. /\ v.op = ctl[c].op /\ v.snap = ctl[c].snap /\ v.view = ctl[c].view
          /\ next.op = ctl[c].op /\ next.snap = ctl[c].snap /\ next.pc = d.pc
      BY <1>w
    <3>3. DecisionSound(ctl[c].op, ctl[c].snap, ctl[c].view, clock[ctl[c].op], d)
      <4>1. clock[ctl[c].op] \in 0..2
        BY <1>w, TypeInvParts DEF StoreTyped, StoreTypeOK
      <4>2. IsTaskMap(ctl[c].view) /\ AttemptsBounded(ctl[c].view)
        BY <1>b, WorkerFacts
      <4> QED
        BY <1>w, <3>2, <4>1, <4>2, ReconcileLockedSound
    <3>4. /\ d.pc = "relist" => RetryRequested(ctl[c].snap)
          /\ d.pc # "acquire" /\ d.pc # "reopen"
      BY <3>3 DEF DecisionSound, DecisionPcs
    <3>5. OlderAreOver(ctl[c].op) /\ ~HeldBack(ctl[c].op)
      BY <1>w, <3>1 DEF WorkerInOrder, WaitPcs
    <3> HIDE DEF next, d
    <3> QED
      BY <1>b, <1>u, <3>1, <3>2, <3>4, <3>5, MoveInOrder
  <2> QED
    BY <2>1, <2>2
<1>4. CASE RetryStillLatest(c)
  <2>1. /\ ctl[c].pc = "relist"
        /\ \/ /\ Become(c, [ctl[c] EXCEPT !.pc = "reopen"])
              /\ IsLatestOperation(ctl[c].op, ctl[c].snap, ops)
           \/ Become(c, [ctl[c] EXCEPT !.pc = "unlock"])
    BY <1>4 DEF RetryStillLatest, At, Goto
  <2>2. RetryRequested(ctl[c].snap) /\ ~HeldBack(ctl[c].op)
    BY <1>w, <2>1 DEF WorkerInOrder, WaitPcs
  <2>3. \A pc \in Pcs : LET v == [ctl[c] EXCEPT !.pc = pc]
                        IN  v.op = ctl[c].op /\ v.snap = ctl[c].snap /\ v.pc = pc
    BY <1>w
  <2> QED
    BY <1>b, <1>u, <2>1, <2>2, <2>3, MoveInOrder, LatestIsYoungest DEF Pcs
<1>5. CASE UnlockSkippedRetry(c) \/ FinishList(c) \/ GetLock(c) \/ ReleaseTerminalLock(c)
  <2>1. /\ ctl[c].pc \notin WaitPcs
        /\ \/ Become(c, IdleWorker)
           \/ \E pc \in {"skipRetry", "finishWrite"} : Become(c, [ctl[c] EXCEPT !.pc = pc])
           \/ Become(c, [ctl[c] EXCEPT !.pc = "release",
                                       !.lockUID = lock[TargetOf[ctl[c].op]].uid])
    BY <1>5 DEF UnlockSkippedRetry, FinishList, GetLock, ReleaseTerminalLock, At, Goto,
                Done, WaitPcs
  <2>2. \A pc \in {"skipRetry", "finishWrite"} :
            LET v == [ctl[c] EXCEPT !.pc = pc]
            IN  v.op = ctl[c].op /\ v.snap = ctl[c].snap /\ v.pc = pc
    BY <1>w
  <2>3. LET v == [ctl[c] EXCEPT !.pc = "release", !.lockUID = lock[TargetOf[ctl[c].op]].uid]
        IN  v.op = ctl[c].op /\ v.snap = ctl[c].snap /\ v.pc = "release"
    BY <1>w
  <2> QED
    BY <1>b, <1>u, <1>w, <2>1, <2>2, <2>3, MoveInOrder
<1> QED
  BY <1>1, <1>2, <1>3, <1>4, <1>5

\* One iteration of a loop over tasks leaves the operations alone as well.
LEMMA LoopStepsInOrder ==
    ASSUME TypeInv, LockInvariant, OrderInvariant, NEW c \in Ctrls, NEW t \in ctl[c].todo,
           CancelPendingTask(c, t) \/ TimeoutRunningTask(c, t) \/ CreateAttempt(c, t)
    PROVE  OrderInvariant'
<1>1. /\ ctl[c].pc \in {"cancel", "timeout", "create"} /\ UNCHANGED <<ops, opRev>>
      /\ \/ Become(c, IdleWorker)
         \/ Become(c, [ctl[c] EXCEPT !.todo = ctl[c].todo \ {t}])
  BY DEF CancelPendingTask, TimeoutRunningTask, CreateAttempt, TerminateTask, UpdateTask,
         CreateTask, NextOf, Done, At, storeVars
<1>b. Busy(c)
  BY <1>1 DEF Busy
<1>w. /\ ctl[c] \in [pc : Pcs, op : Ops, snap : Operation, view : {ctl[c].view},
                      todo : SUBSET TaskId, goal : Goal, lockUID : Nat]
      /\ ~HeldBack(ctl[c].op)
  BY <1>b, <1>1, BusyFacts DEF WaitPcs
<1>2. LET v == [ctl[c] EXCEPT !.todo = ctl[c].todo \ {t}]
      IN  v.op = ctl[c].op /\ v.snap = ctl[c].snap /\ v.pc = ctl[c].pc
  BY <1>w
<1> QED
  BY <1>b, <1>w, <1>1, <1>2, MoveInOrder

\* The four status writes of a worker; a refused one changes nothing.
LEMMA WriteStepsInOrder ==
    ASSUME TypeInv, LockInvariant, OrderInvariant, NEW c \in Ctrls,
           SkipRetry(c) \/ ReopenForRetry(c) \/ StartOperation(c) \/ FinishWrite(c)
    PROVE  OrderInvariant'
<1> DEFINE o == ctl[c].op
           op == ctl[c].snap
<1>b. Busy(c) /\ ctl[c].pc \in {"skipRetry", "reopen", "start", "finishWrite"}
  BY DEF Busy, At, SkipRetry, ReopenForRetry, StartOperation, FinishWrite
<1>w. /\ ctl[c] \in [pc : Pcs, op : Ops, snap : Operation, view : {ctl[c].view},
                      todo : SUBSET TaskId, goal : Goal, lockUID : Nat]
      /\ WorkerKnows(ctl[c]) /\ WorkerInOrder(ctl[c])
  BY <1>b, BusyFacts
<1>r. ASSUME NEW new, WriteStatus(c, new), ~CanUpdateStatus(o, op, new), Done(c)
      PROVE  OrderInvariant'
  BY <1>r, <1>b, DoneInOrder DEF WriteStatus, storeVars
<1>s. ASSUME NEW new \in Operation, WriteStatus(c, new), CanUpdateStatus(o, op, new),
             Done(c) \/ Goto(c, "release"),
             new.created = op.created, new.phase # "Absent",
             new.phase = "Running" => OlderAreOver(o),
             \/ new.phase \in TerminalPhases \/ ~Terminal(o)
             \/ \A q \in Ops : o \in OlderRivals(q) => Waits(q)
      PROVE  OrderInvariant'
  BY <1>s, <1>b, StatusInOrder DEF WriteStatus, WaitPcs
<1>1. CASE SkipRetry(c)
  <2> DEFINE new == [op EXCEPT !.observed = op.gen]
  <2>1. ctl[c].pc = "skipRetry" /\ WriteStatus(c, new) /\ Done(c)
    BY <1>1 DEF SkipRetry, At
  <2>2. new \in Operation /\ new.created = op.created /\ new.phase = op.phase
    BY <1>w DEF Operation
  <2>3. op.phase \in TerminalPhases
    BY <1>w, <2>1 DEF WorkerKnows
  <2> HIDE DEF new
  <2> QED
    BY <1>r, <1>s, <2>1, <2>2, <2>3 DEF TerminalPhases
<1>2. CASE ReopenForRetry(c)
  <2> DEFINE new == [op EXCEPT !.phase = "Pending", !.reason = "",
                               !.observed = op.gen, !.deadline = NoDeadline]
  <2>1. ctl[c].pc = "reopen" /\ WriteStatus(c, new) /\ Done(c)
    BY <1>2 DEF ReopenForRetry, At
  <2>2. new \in Operation /\ new.created = op.created /\ new.phase = "Pending"
    BY <1>w DEF Operation, Phases, ActivePhases, Reasons
  <2>3. CanUpdateStatus(o, op, new) => \A q \in Ops : o \in OlderRivals(q) => Waits(q)
    BY <2>1 DEF CanUpdateStatus, OrderInvariant, HeldBack
  <2> HIDE DEF new
  <2> QED
    BY <1>r, <1>s, <2>1, <2>2, <2>3
<1>3. CASE StartOperation(c)
  <2> DEFINE new == [op EXCEPT !.phase = "Running", !.observed = op.gen,
                               !.deadline = op.gen, !.reason = ""]
  <2>1. ctl[c].pc = "start" /\ WriteStatus(c, new) /\ Done(c)
    BY <1>3 DEF StartOperation, At
  <2>2. new \in Operation /\ new.created = op.created /\ new.phase = "Running"
    BY <1>w DEF Operation, Phases, ActivePhases, Reasons
  <2>3. OlderAreOver(o)
    BY <1>w, <2>1 DEF WorkerInOrder
  <2>4. CanUpdateStatus(o, op, new) => ~Terminal(o)
    BY <2>2 DEF CanUpdateStatus, ValidPhaseTransition, IsRetryReopen, Terminal, TerminalPhases
  <2> HIDE DEF new
  <2> QED
    BY <1>r, <1>s, <2>1, <2>2, <2>3, <2>4
<1>4. CASE FinishWrite(c)
  <2> DEFINE new == [op EXCEPT !.phase = ctl[c].goal.phase, !.reason = ctl[c].goal.reason,
                               !.observed = op.gen]
  <2>1. /\ ctl[c].pc = "finishWrite" /\ WriteStatus(c, new)
        /\ \/ Goto(c, "release") /\ CanUpdateStatus(o, op, new)
           \/ Done(c)
    BY <1>4 DEF FinishWrite, At
  <2>2. ctl[c].goal.phase \in TerminalPhases
    BY <1>w, <2>1 DEF WorkerKnows
  <2>3. new \in Operation /\ new.created = op.created /\ new.phase = ctl[c].goal.phase
    BY <1>w, <2>2 DEF Operation, Goal, Phases
  <2> HIDE DEF new
  <2> QED
    BY <1>r, <1>s, <2>1, <2>2, <2>3 DEF TerminalPhases
<1> QED
  BY <1>1, <1>2, <1>3, <1>4

\* The workqueue hands out an operation: its worker starts at the first read.
LEMMA GetOperationInOrder ==
    ASSUME TypeInv, LockInvariant, OrderInvariant, SingleLeader, NEW c \in Ctrls,
           NEW o \in Ops, GetOperation(c, o)
    PROVE  OrderInvariant'
<1> DEFINE w == [IdleWorker EXCEPT !.pc = "listTasks", !.op = o, !.snap = ops[o]]
<1>1. /\ ctl'[c] = w /\ \A d \in Ctrls \ {c} : ctl'[d] = ctl[d]
      /\ UNCHANGED <<ops, opRev>>
  BY TypeInvParts DEF GetOperation, Become, WorkersTyped, ControllerTypeOK, storeVars
<1>2. w.pc = "listTasks" /\ w.op = o /\ w.snap = ops[o]
  BY DEF IdleWorker
<1> HIDE DEF w
<1>3. ops[o].rv <= opRev
  BY DEF LockInvariant, RetryRevisions
<1>4. \A p : OlderRivals(p)' = OlderRivals(p) /\ (OlderAreOver(p)' <=> OlderAreOver(p))
  BY <1>1 DEF OlderRivals, OlderAreOver, Terminal
<1>5. \A d \in Ctrls : WorkerInOrder(ctl[d])'
  BY <1>1, <1>2, <1>3, <1>4 DEF OrderInvariant, WorkerInOrder
<1>6. ASSUME NEW q \in Ops, HeldBack(q)' PROVE Waits(q)'
  <2>1. HeldBack(q)
    BY <1>1, <1>2, <1>4, <1>6 DEF HeldBack
  <2> QED
    BY <1>1, <1>2, <2>1 DEF OrderInvariant, Waits, WaitPcs
<1> QED
  BY <1>1, <1>4, <1>5, <1>6 DEF OrderInvariant

\* The create, cancel and retry handlers.
LEMMA APIStepInOrder ==
    ASSUME TypeInv, LockInvariant, OrderInvariant, NEW o \in Ops, APIStep(o), UNCHANGED ctl
    PROVE  OrderInvariant'
<1>t. ops \in [Ops -> Operation] /\ ops[o] \in Operation
  BY TypeInvParts DEF StoreTyped, StoreTypeOK
<1>1. CASE CreateOperation(o)
  <2>1. PICK second \in UNION {{ops[p].created, ops[p].created + 1} : p \in Ops} :
            /\ \A p \in Ops : ops[p].created <= second
            /\ WriteOperation(o, [AbsentOperation EXCEPT !.phase = "Pending",
                                                         !.created = second])
    BY <1>1 DEF CreateOperation
  <2> DEFINE new == [AbsentOperation EXCEPT !.phase = "Pending", !.created = second]
  <2>2. second \in Nat
    BY <1>t DEF Operation
  <2>3. /\ new \in Operation /\ new.phase = "Pending" /\ new.observed = 0
        /\ new.created = second
    BY <2>2 DEF AbsentOperation, Operation, Phases, ActivePhases, Reasons
  <2>4. WriteOperation(o, new) /\ ops[o].phase = "Absent"
    BY <1>1, <2>1 DEF CreateOperation
  <2> HIDE DEF new
  <2> QED
    BY <2>1, <2>3, <2>4, APIWriteInOrder
<1>2. CASE CancelOperation(o)
  <2> DEFINE new == [ops[o] EXCEPT !.desired = "Canceled"]
  <2>1. /\ new \in Operation /\ new.phase = ops[o].phase /\ new.created = ops[o].created
        /\ new.observed = ops[o].observed
    BY <1>t DEF Operation
  <2>2. WriteOperation(o, new)
    BY <1>2 DEF CancelOperation
  <2> HIDE DEF new
  <2> QED
    BY <2>1, <2>2, APIWriteInOrder
<1>3. CASE LoadRetryableOperation(o)
  BY <1>3, OutsideInOrder DEF LoadRetryableOperation, storeVars
<1>4. CASE RetryOperation(o)
  <2>1. CASE ops[o].rv = retrying[o]
    <3> DEFINE new == [ops[o] EXCEPT !.desired = "Active", !.gen = ops[o].gen + 1]
    <3>1. /\ new \in Operation /\ new.phase = ops[o].phase /\ new.created = ops[o].created
          /\ new.observed = ops[o].observed
      <4>1. \A p \in Operation, g \in Nat :
               LET n == [p EXCEPT !.desired = "Active", !.gen = g]
               IN  /\ n \in Operation /\ n.phase = p.phase /\ n.created = p.created
                   /\ n.observed = p.observed
        BY DEF Operation
      <4>2. ops[o].gen + 1 \in Nat
        BY <1>t DEF Operation
      <4> QED
        BY <1>t, <4>1, <4>2
    <3>2. WriteOperation(o, new)
      BY <1>4, <2>1 DEF RetryOperation
    <3> HIDE DEF new
    <3> QED
      BY <3>1, <3>2, APIWriteInOrder
  <2>2. CASE ops[o].rv # retrying[o]
    BY <1>4, <2>2, OutsideInOrder DEF RetryOperation
  <2> QED
    BY <2>1, <2>2
<1> QED
  BY <1>1, <1>2, <1>3, <1>4 DEF APIStep

\* What the agents, their faults and the clock leave alone.
LEMMA OutsideSteps ==
    ASSUME \/ \E n \in Nodes : AgentNext(n)
           \/ \E o \in Ops : DeadlineReached(o) \/ GraceOver(o)
           \/ \E n \in Nodes : /\ \/ \E t \in DOMAIN tasks : StartResponseLost(n, t)
                                  \/ StopAgent(n)
                               /\ UNCHANGED <<ctl, clock>>
    PROVE  UNCHANGED <<ops, opRev, ctl>>
<1>1. ASSUME NEW n \in Nodes, AgentNext(n) PROVE UNCHANGED <<ops, opRev, ctl>>
  BY <1>1 DEF AgentNext, AgentStep, StartPendingTask, ResumeTask, ReportExpired, FinishTask,
              UpdateTask, storeVars
<1>2. ASSUME NEW o \in Ops, DeadlineReached(o) \/ GraceOver(o)
      PROVE  UNCHANGED <<ops, opRev, ctl>>
  BY <1>2 DEF DeadlineReached, GraceOver, storeVars
<1>3. ASSUME NEW n \in Nodes, UNCHANGED ctl,
             (\E t \in DOMAIN tasks : StartResponseLost(n, t)) \/ StopAgent(n)
      PROVE  UNCHANGED <<ops, opRev, ctl>>
  BY <1>3 DEF StartResponseLost, StopAgent, UpdateTask, storeVars
<1> QED
  BY <1>1, <1>2, <1>3

\* OrderInvariant holds initially ...
LEMMA OrderInit == Init => OrderInvariant
<1> SUFFICES ASSUME Init PROVE OrderInvariant
  OBVIOUS
<1>1. \A o \in Ops : ops[o].phase = "Absent"
  BY DEF Init, StoreInit, AbsentOperation
<1>2. \A c \in Ctrls : ctl[c].pc = "idle"
  BY DEF Init, ControllerInit, IdleWorker
<1> QED
  BY <1>1, <1>2 DEF OrderInvariant, WorkerInOrder, HeldBack

\* ... and is inductive, with the help of LockInvariant.
LEMMA OrderStep ==
    SingleLeader /\ TypeInv /\ LockInvariant /\ OrderInvariant /\ [Next]_vars => OrderInvariant'
<1> SUFFICES ASSUME SingleLeader, TypeInv, LockInvariant, OrderInvariant, [Next]_vars
             PROVE  OrderInvariant'
  OBVIOUS
<1>1. CASE \E c \in Ctrls : ControllerNext(c)
  BY <1>1, ReadStepsInOrder, LoopStepsInOrder, WriteStepsInOrder, GetOperationInOrder
     DEF ControllerNext, ReconcileStep
<1>2. CASE \E o \in Ops : APINext(o)
  BY <1>2, APIStepInOrder DEF APINext
<1>3. CASE \/ \E n \in Nodes : AgentNext(n)
           \/ \E o \in Ops : DeadlineReached(o) \/ GraceOver(o)
  BY <1>3, OutsideSteps, OutsideInOrder
<1>4. CASE Fault
  <2>1. CASE \E c \in Ctrls : Abort(c)
    BY <2>1, DoneInOrder DEF Abort, At, Busy, storeVars
  <2> QED
    BY <1>4, <2>1, OutsideSteps, OutsideInOrder DEF Fault
<1>5. CASE UNCHANGED vars
  BY <1>5, OutsideInOrder DEF vars
<1> QED
  BY <1>1, <1>2, <1>3, <1>4, <1>5 DEF Next

\* With one leader, the operations of a target run in the order of their creation,
\* although a retry handler and two workers may each have checked the order before
\* the others moved (isEarliestRunnable, retryStillLatest).
THEOREM OperationsRunInOrder == SingleLeader => (Spec => []RunInCreationOrder)
<1> SUFFICES ASSUME SingleLeader PROVE Spec => []RunInCreationOrder
  OBVIOUS
<1>1. TypeInv /\ OrderInvariant => RunInCreationOrder
  <2> SUFFICES ASSUME OrderInvariant, NEW o \in Ops, NEW p \in Ops,
                      TargetOf[o] = TargetOf[p], ops[o].phase = "Running",
                      ops[p].phase # "Absent", ops[p].created < ops[o].created, TypeInv
               PROVE  Terminal(p)
    BY DEF RunInCreationOrder
  <2>1. ops[o].created \in Nat /\ ops[p].created \in Nat
    BY TypeInvParts DEF StoreTyped, StoreTypeOK, Operation
  <2>2. p \in OlderRivals(o)
    BY <2>1 DEF OlderRivals
  <2> QED
    BY <2>2 DEF OrderInvariant, OlderAreOver
<1>2. TypeInv /\ LockInvariant /\ OrderInvariant /\ [Next]_vars => OrderInvariant'
  BY OrderStep
<1>3. TypeInv /\ LockInvariant /\ [Next]_vars => LockInvariant'
  BY LockStep
<1> QED
  BY TypeInit, TypeStep, LockInit, OrderInit, <1>1, <1>2, <1>3, PTL DEF Spec

-----------------------------------------------------------------------------
(***************************************************************************)
(* The engine implements TargetQueue: every step is a step of the queue or *)
(* leaves it alone.                                                        *)
(***************************************************************************)
StateOf == [o \in Ops |-> QueueState(ops[o])]
AgeOf == [o \in Ops |-> ops[o].created]
BusyOps == {o \in Ops : ActiveTasksOf(o) # {} \/ Executing(o)}

\* An agent executes one command at a time.
OneCommand == \A n \in Nodes : \A t, u \in exec[n] : t = u

\* No agent executes anything at the beginning.
LEMMA OneCommandInit == Init => OneCommand
BY DEF Init, AgentInit, OneCommand

\* How a step changes the commands of the agents.
LEMMA ExecSteps ==
    ASSUME TypeInv, [Next]_vars
    PROVE  \/ exec' = exec
           \/ \E n \in Nodes : \/ exec' = [exec EXCEPT ![n] = {}]
                               \/ \E t \in TaskId : exec' = [exec EXCEPT ![n] = {t}]
<1>1. CASE \E c \in Ctrls : ControllerNext(c)
  BY <1>1 DEF ControllerNext
<1>2. CASE \E o \in Ops : APINext(o)
  BY <1>2 DEF APINext
<1>3. CASE \E n \in Nodes : AgentNext(n)
  <2>1. PICK n \in Nodes : AgentStep(n)
    BY <1>3 DEF AgentNext
  <2>2. \A t \in DOMAIN tasks : t \in TaskId
    BY TypeInvParts DEF StoreTyped, StoreTypeOK, IsTaskMap
  <2>3. CASE \E t \in DOMAIN tasks :
                StartPendingTask(n, t) \/ ResumeTask(n, t) \/ ReportExpired(n, t)
    BY <2>2, <2>3 DEF StartPendingTask, ResumeTask, ReportExpired
  <2>4. CASE \E t \in exec[n] : FinishTask(n, t)
    BY <2>4 DEF FinishTask
  <2> QED
    BY <2>1, <2>3, <2>4 DEF AgentStep
<1>4. CASE \E o \in Ops : DeadlineReached(o) \/ GraceOver(o)
  BY <1>4 DEF DeadlineReached, GraceOver
<1>5. CASE Fault
  BY <1>5 DEF Fault, StartResponseLost, StopAgent
<1>6. CASE UNCHANGED vars
  BY <1>6 DEF vars
<1> QED
  BY <1>1, <1>2, <1>3, <1>4, <1>5, <1>6 DEF Next

\* Agents go on one command at a time.
LEMMA OneCommandStep == TypeInv /\ OneCommand /\ [Next]_vars => OneCommand'
<1> SUFFICES ASSUME TypeInv, OneCommand, [Next]_vars, NEW n \in Nodes,
                    NEW t \in exec'[n], NEW u \in exec'[n]
             PROVE  t = u
  BY DEF OneCommand
<1>1. DOMAIN exec = Nodes
  BY TypeInvParts DEF AgentTypeOK
<1>2. \/ exec' = exec
      \/ \E m \in Nodes : \/ exec' = [exec EXCEPT ![m] = {}]
                          \/ \E v \in TaskId : exec' = [exec EXCEPT ![m] = {v}]
  BY ExecSteps
<1> QED
  BY <1>1, <1>2 DEF OneCommand

-----------------------------------------------------------------------------
\* Nothing the queue shows has changed.
LEMMA QueueStutters ==
    ASSUME UNCHANGED <<ops, tasks, exec>>
    PROVE  UNCHANGED Queue!queueVars
<1>1. (\A o \in Ops : ActiveTasksOf(o)' = ActiveTasksOf(o) /\ (Executing(o)' <=> Executing(o)))
  BY DEF ActiveTasksOf, Active, Executing
<1> QED
  BY <1>1 DEF Queue!queueVars

\* A write of one operation, as the queue sees it.
LEMMA WriteMaps ==
    ASSUME TypeInv, NEW o \in Ops, NEW new \in Operation, WriteOperation(o, new),
           UNCHANGED <<tasks, exec>>
    PROVE  /\ StateOf' = [StateOf EXCEPT ![o] = QueueState(new)]
           /\ AgeOf' = [AgeOf EXCEPT ![o] = new.created]
           /\ BusyOps' = BusyOps
<1>t. ops \in [Ops -> Operation] /\ opRev \in Nat
  BY TypeInvParts DEF StoreTyped, StoreTypeOK
<1>1. ops' = [ops EXCEPT ![o] = [new EXCEPT !.rv = opRev + 1]]
  BY DEF WriteOperation
<1>2. /\ \A p \in Ops \ {o} : ops'[p] = ops[p]
      /\ ops'[o].phase = new.phase /\ ops'[o].observed = new.observed
      /\ ops'[o].created = new.created
  BY <1>t, <1>1 DEF Operation
<1>3. QueueState(ops'[o]) = QueueState(new)
  BY <1>2 DEF QueueState
<1>4. StateOf' = [StateOf EXCEPT ![o] = QueueState(new)]
  BY <1>2, <1>3 DEF StateOf
<1>5. AgeOf' = [AgeOf EXCEPT ![o] = new.created]
  BY <1>2 DEF AgeOf
<1>6. BusyOps' = BusyOps
  BY DEF BusyOps, ActiveTasksOf, Active, Executing
<1> QED
  BY <1>4, <1>5, <1>6

\* A write that keeps the creation time and the place in the queue shows nothing.
LEMMA WriteStutters ==
    ASSUME TypeInv, NEW o \in Ops, NEW new \in Operation, WriteOperation(o, new),
           UNCHANGED <<tasks, exec>>, new.created = ops[o].created,
           QueueState(new) = QueueState(ops[o])
    PROVE  UNCHANGED Queue!queueVars
<1>1. /\ StateOf' = [StateOf EXCEPT ![o] = QueueState(new)]
      /\ AgeOf' = [AgeOf EXCEPT ![o] = new.created] /\ BusyOps' = BusyOps
  BY WriteMaps
<1>2. StateOf' = StateOf
  BY <1>1 DEF StateOf
<1>3. AgeOf' = AgeOf
  BY <1>1 DEF AgeOf
<1> QED
  BY <1>1, <1>2, <1>3 DEF Queue!queueVars, StateOf, AgeOf, BusyOps

\* Tasks and commands of one running operation change: it works.
LEMMA WorkMaps ==
    ASSUME TypeInv, UNCHANGED ops, NEW o \in Ops, ops[o].phase = "Running",
           \A t : t.op # o => (t \in DOMAIN tasks' <=> t \in DOMAIN tasks),
           \A t \in DOMAIN tasks : t.op # o => tasks'[t] = tasks[t],
           \A n \in Nodes : \A t : t.op # o => (t \in exec'[n] <=> t \in exec[n])
    PROVE  Queue!QueueNext
<1>1. ASSUME NEW p \in Ops, p # o
      PROVE  p \in BusyOps' <=> p \in BusyOps
  <2>1. ActiveTasksOf(p)' = ActiveTasksOf(p)
    BY <1>1 DEF ActiveTasksOf, Active
  <2>2. Executing(p)' <=> Executing(p)
    BY <1>1 DEF Executing
  <2> QED
    BY <2>1, <2>2 DEF BusyOps
<1>2. BusyOps' \in {BusyOps \cup {o}, BusyOps \ {o}}
  <2>1. BusyOps \subseteq Ops /\ BusyOps' \subseteq Ops
    BY DEF BusyOps
  <2>2. CASE o \in BusyOps'
    BY <1>1, <2>1, <2>2
  <2>3. CASE o \notin BusyOps'
    BY <1>1, <2>1, <2>3
  <2> QED
    BY <2>2, <2>3
<1>3. StateOf[o] = "running" /\ StateOf' = StateOf /\ AgeOf' = AgeOf
  BY DEF StateOf, AgeOf, QueueState
<1>4. Queue!Work(o)
  BY <1>2, <1>3 DEF Queue!Work, StateOf, AgeOf, BusyOps
<1> QED
  BY <1>4 DEF Queue!QueueNext

\* Creating an operation submits it; a cancel or retry request shows nothing.
LEMMA APIMaps ==
    ASSUME TypeInv, LockInvariant, ~SameSecond, NEW o \in Ops, APINext(o)
    PROVE  Queue!QueueNext \/ UNCHANGED Queue!queueVars
<1>t. ops \in [Ops -> Operation] /\ ops[o] \in Operation /\ UNCHANGED exec
  BY TypeInvParts DEF StoreTyped, StoreTypeOK, APINext
<1>1. CASE CreateOperation(o)
  <2>1. PICK second \in UNION {{ops[p].created, ops[p].created + 1} : p \in Ops} :
            /\ \A p \in Ops : ops[p].created <= second
            /\ (\E p \in Ops : ops[p].created = second) => SameSecond
            /\ WriteOperation(o, [AbsentOperation EXCEPT !.phase = "Pending",
                                                         !.created = second])
    BY <1>1 DEF CreateOperation
  <2> DEFINE new == [AbsentOperation EXCEPT !.phase = "Pending", !.created = second]
  <2>2. second \in Nat /\ \A p \in Ops : ops[p].created \in Nat
    BY <1>t DEF Operation
  <2>3. /\ new \in Operation /\ new.phase = "Pending" /\ new.observed = 0
        /\ new.created = second
    BY <2>2 DEF AbsentOperation, Operation, Phases, ActivePhases, Reasons
  <2>4. WriteOperation(o, new) /\ ops[o].phase = "Absent" /\ UNCHANGED tasks
    BY <1>1, <2>1 DEF CreateOperation
  <2> HIDE DEF new
  <2>5. QueueState(new) = "fresh" /\ StateOf[o] = "absent"
    BY <2>3, <2>4 DEF QueueState, StateOf
  <2>6. /\ StateOf' = [StateOf EXCEPT ![o] = "fresh"]
        /\ AgeOf' = [AgeOf EXCEPT ![o] = second] /\ BusyOps' = BusyOps
    BY <1>t, <2>3, <2>4, <2>5, WriteMaps
  <2>7. AgeOf'[o] = second /\ \A p \in Ops : AgeOf[p] < second
    BY <2>1, <2>2, <2>6 DEF AgeOf
  <2>8. Queue!Submit(o)
    BY <2>5, <2>6, <2>7 DEF Queue!Submit, Queue!Move, StateOf, AgeOf, BusyOps
  <2> QED
    BY <2>8 DEF Queue!QueueNext
<1>2. CASE CancelOperation(o)
  <2> DEFINE new == [ops[o] EXCEPT !.desired = "Canceled"]
  <2>1. /\ new \in Operation /\ new.phase = ops[o].phase /\ new.created = ops[o].created
        /\ new.observed = ops[o].observed
    BY <1>t DEF Operation
  <2>2. WriteOperation(o, new) /\ UNCHANGED tasks
    BY <1>2 DEF CancelOperation
  <2> HIDE DEF new
  <2>3. QueueState(new) = QueueState(ops[o])
    BY <2>1 DEF QueueState
  <2> QED
    BY <1>t, <2>1, <2>2, <2>3, WriteStutters
<1>3. CASE LoadRetryableOperation(o)
  BY <1>t, <1>3, QueueStutters DEF LoadRetryableOperation, storeVars
<1>4. CASE RetryOperation(o)
  <2>1. CASE ops[o].rv = retrying[o]
    <3> DEFINE new == [ops[o] EXCEPT !.desired = "Active", !.gen = ops[o].gen + 1]
    <3>1. /\ new \in Operation /\ new.phase = ops[o].phase /\ new.created = ops[o].created
          /\ new.observed = ops[o].observed
      <4>1. \A p \in Operation, g \in Nat :
               LET n == [p EXCEPT !.desired = "Active", !.gen = g]
               IN  /\ n \in Operation /\ n.phase = p.phase /\ n.created = p.created
                   /\ n.observed = p.observed
        BY DEF Operation
      <4>2. ops[o].gen + 1 \in Nat
        BY <1>t DEF Operation
      <4> QED
        BY <1>t, <4>1, <4>2
    <3>2. WriteOperation(o, new) /\ UNCHANGED tasks
      BY <1>4, <2>1 DEF RetryOperation
    <3> HIDE DEF new
    <3>3. QueueState(new) = QueueState(ops[o])
      BY <3>1 DEF QueueState
    <3> QED
      BY <1>t, <3>1, <3>2, <3>3, WriteStutters
  <2>2. CASE ops[o].rv # retrying[o]
    BY <1>t, <1>4, <2>2, QueueStutters DEF RetryOperation
  <2> QED
    BY <2>1, <2>2
<1> QED
  BY <1>1, <1>2, <1>3, <1>4 DEF APINext, APIStep

\* A status write by a worker, given what it does to the place in the queue.
LEMMA StatusMaps ==
    ASSUME TypeInv, NEW o \in Ops, NEW new \in Operation, WriteOperation(o, new),
           UNCHANGED <<tasks, exec>>, new.created = ops[o].created
    PROVE  /\ StateOf' = [StateOf EXCEPT ![o] = QueueState(new)]
           /\ AgeOf' = AgeOf /\ BusyOps' = BusyOps
<1>1. /\ StateOf' = [StateOf EXCEPT ![o] = QueueState(new)]
      /\ AgeOf' = [AgeOf EXCEPT ![o] = new.created] /\ BusyOps' = BusyOps
  BY WriteMaps
<1> QED
  BY <1>1 DEF AgeOf

\* The loops over tasks and the agents work on running operations.
LEMMA LoopStepsMap ==
    ASSUME TypeInv, LockInvariant, NEW c \in Ctrls, NEW t \in ctl[c].todo,
           UNCHANGED exec,
           CancelPendingTask(c, t) \/ TimeoutRunningTask(c, t) \/ CreateAttempt(c, t)
    PROVE  Queue!QueueNext \/ UNCHANGED Queue!queueVars
<1>b. Busy(c) /\ ctl[c].op \in Ops /\ WorkerKnows(ctl[c]) /\ t.op = ctl[c].op
  <2>1. Busy(c)
    BY DEF CancelPendingTask, TimeoutRunningTask, CreateAttempt, TerminateTask, At, Busy
  <2> QED
    BY <2>1, TypeInvParts, BusyWorkerTyped DEF LockInvariant, WorkerKnows, Busy
<1>1. CASE UNCHANGED storeVars
  BY <1>1, QueueStutters DEF storeVars
<1>2. ASSUME NEW expected \in ActivePhases, NEW phase,
             CanUpdateTask(t, expected), UpdateTask(t, phase, FALSE)
      PROVE  Queue!QueueNext
  <2>1. /\ UNCHANGED ops /\ DOMAIN tasks' = DOMAIN tasks /\ t \in DOMAIN tasks
        /\ \A u \in DOMAIN tasks : u # t => tasks'[u] = tasks[u]
        /\ Active(t)
    BY <1>2 DEF UpdateTask, CanUpdateTask, Active
  <2>2. ops[t.op].phase = "Running"
    BY <2>1 DEF LockInvariant, ActiveOnlyWhileRunning
  <2> QED
    BY <1>b, <2>1, <2>2, WorkMaps
<1>3. CASE CancelPendingTask(c, t) \/ TimeoutRunningTask(c, t)
  BY <1>1, <1>2, <1>3 DEF CancelPendingTask, TimeoutRunningTask, TerminateTask, ActivePhases
<1>4. CASE CreateAttempt(c, t)
  <2>1. ops[t.op].phase = "Running"
    BY <1>b, <1>4 DEF CreateAttempt, At, WorkerKnows
  <2>2. /\ UNCHANGED ops
        /\ \A u : u # t => (u \in DOMAIN tasks' <=> u \in DOMAIN tasks)
        /\ \A u \in DOMAIN tasks : u # t => tasks'[u] = tasks[u]
    BY <1>4 DEF CreateAttempt, CreateTask
  <2> QED
    BY <1>b, <2>1, <2>2, WorkMaps
<1> QED
  BY <1>3, <1>4

\* What an agent does, and its failures, are steps of the queue that quiet an operation,
\* or none at all.
LEMMA AgentStepsMap ==
    ASSUME TypeInv, LockInvariant, OneCommand, ClockSync, NEW n \in Nodes,
           AgentStep(n) \/ (\E t \in DOMAIN tasks : StartResponseLost(n, t)) \/ StopAgent(n)
    PROVE  Queue!QueueNext \/ UNCHANGED Queue!queueVars
<1>t. IsTaskMap(tasks) /\ DOMAIN exec = Nodes
  BY TypeInvParts DEF StoreTyped, StoreTypeOK, AgentTypeOK
<1>1. ASSUME NEW t \in DOMAIN tasks, Active(t), UNCHANGED ops,
             tasks' = tasks \/ \E phase, out : UpdateTask(t, phase, out),
             \/ exec' = exec
             \/ exec[n] \subseteq {t} /\ \E new \in SUBSET {t} : exec' = [exec EXCEPT ![n] = new]
      PROVE  Queue!QueueNext
  <2>1. t.op \in Ops /\ ops[t.op].phase = "Running"
    BY <1>t, <1>1 DEF LockInvariant, ActiveOnlyWhileRunning, IsTaskMap, TaskId
  <2>2. /\ DOMAIN tasks' = DOMAIN tasks
        /\ \A u \in DOMAIN tasks : u # t => tasks'[u] = tasks[u]
    BY <1>1 DEF UpdateTask
  <2>3. \A m \in Nodes : \A u : u # t => (u \in exec'[m] <=> u \in exec[m])
    BY <1>t, <1>1
  <2> QED
    BY <1>1, <2>1, <2>2, <2>3, WorkMaps
<1>2. CASE \E t \in DOMAIN tasks :
              \/ StartPendingTask(n, t) \/ ResumeTask(n, t) \/ ReportExpired(n, t)
              \/ StartResponseLost(n, t)
  <2>1. PICK t \in DOMAIN tasks : \/ StartPendingTask(n, t) \/ ResumeTask(n, t)
                                  \/ ReportExpired(n, t) \/ StartResponseLost(n, t)
    BY <1>2
  <2>2. /\ Active(t) /\ exec[n] = {} /\ UNCHANGED ops
        /\ tasks' = tasks \/ \E phase, out : UpdateTask(t, phase, out)
        /\ exec' = exec \/ exec' = [exec EXCEPT ![n] = {t}]
    BY <2>1 DEF StartPendingTask, ResumeTask, ReportExpired, StartResponseLost,
                CanUpdateTask, Active, ActivePhases, UpdateTask, storeVars
  <2> QED
    BY <1>1, <2>2
<1>3. CASE (\E t \in exec[n] : FinishTask(n, t)) \/ StopAgent(n)
  <2>1. PICK t \in exec[n] : FinishTask(n, t) \/ StopAgent(n)
    BY <1>3 DEF StopAgent
  <2>2. t \in DOMAIN tasks /\ Active(t) /\ exec[n] \subseteq {t}
    BY <2>1 DEF LockInvariant, CommandsInStep, OneCommand, Active, ActivePhases
  <2>3. /\ UNCHANGED ops /\ exec' = [exec EXCEPT ![n] = {}]
        /\ tasks' = tasks \/ \E phase, out : UpdateTask(t, phase, out)
    BY <2>1 DEF FinishTask, StopAgent, UpdateTask, storeVars
  <2> QED
    BY <1>1, <2>2, <2>3
<1> QED
  BY <1>2, <1>3 DEF AgentStep

\* The four status writes: begin, reopen, withdraw or end, or nothing at all.
LEMMA WriteStepsMap ==
    ASSUME TypeInv, LockInvariant, OrderInvariant, ClockSync, NEW c \in Ctrls, UNCHANGED exec,
           SkipRetry(c) \/ ReopenForRetry(c) \/ StartOperation(c) \/ FinishWrite(c)
    PROVE  Queue!QueueNext \/ UNCHANGED Queue!queueVars
<1> DEFINE o == ctl[c].op
           op == ctl[c].snap
<1>b. Busy(c) /\ ctl[c].pc \in {"skipRetry", "reopen", "start", "finishWrite"}
  BY DEF Busy, At, SkipRetry, ReopenForRetry, StartOperation, FinishWrite
<1>w. /\ ctl[c] \in [pc : Pcs, op : Ops, snap : Operation, view : {ctl[c].view},
                      todo : SUBSET TaskId, goal : Goal, lockUID : Nat]
      /\ WorkerKnows(ctl[c]) /\ WorkerInOrder(ctl[c])
      /\ ops[o].phase = op.phase /\ op.phase # "Absent"
      /\ op.created = ops[o].created
  BY <1>b, BusyFacts DEF WorkerKnows, WorkerInOrder
<1>t. \A p \in Ops : ops[p] \in Operation /\ ops[p].created \in Nat
  BY TypeInvParts DEF StoreTyped, StoreTypeOK, Operation
<1>r. ASSUME NEW new, WriteStatus(c, new), ~CanUpdateStatus(o, op, new)
      PROVE  UNCHANGED Queue!queueVars
  BY <1>r, QueueStutters DEF WriteStatus, storeVars
<1>s. ASSUME NEW new \in Operation, WriteStatus(c, new), CanUpdateStatus(o, op, new),
             new.created = op.created
      PROVE  /\ StateOf' = [StateOf EXCEPT ![o] = QueueState(new)]
             /\ AgeOf' = AgeOf /\ BusyOps' = BusyOps
  BY <1>s, <1>w, StatusMaps DEF WriteStatus, UpdateOperationStatus
<1>n. ASSUME NEW new \in Operation, WriteStatus(c, new), CanUpdateStatus(o, op, new),
             new.created = op.created, QueueState(new) = QueueState(ops[o])
      PROVE  UNCHANGED Queue!queueVars
  BY <1>n, <1>w, WriteStutters DEF WriteStatus, UpdateOperationStatus
<1>v. Ops = DOMAIN StateOf /\ \A p \in Ops : StateOf[p] = QueueState(ops[p])
  BY DEF StateOf
<1>1. CASE SkipRetry(c)
  <2> DEFINE new == [op EXCEPT !.observed = op.gen]
  <2>1. ctl[c].pc = "skipRetry" /\ WriteStatus(c, new)
    BY <1>1 DEF SkipRetry, At
  <2>2. new \in Operation /\ new.created = op.created /\ new.phase = op.phase
    BY <1>w DEF Operation
  <2>3. op.phase \in TerminalPhases
    BY <1>w, <2>1 DEF WorkerKnows
  <2>4. QueueState(new) = QueueState(ops[o])
    BY <1>w, <2>2, <2>3 DEF QueueState, TerminalPhases
  <2> HIDE DEF new
  <2> QED
    BY <1>r, <1>n, <2>1, <2>2, <2>4
<1>2. CASE ReopenForRetry(c)
  <2> DEFINE new == [op EXCEPT !.phase = "Pending", !.reason = "",
                               !.observed = op.gen, !.deadline = NoDeadline]
  <2>1. ctl[c].pc = "reopen" /\ WriteStatus(c, new)
    BY <1>2 DEF ReopenForRetry, At
  <2>2. /\ new \in Operation /\ new.created = op.created /\ new.phase = "Pending"
        /\ new.observed = op.gen
    BY <1>w DEF Operation, Phases, ActivePhases, Reasons
  <2>3. op.phase \in TerminalPhases /\ RetryRequested(op)
    BY <1>w, <2>1 DEF WorkerKnows, WorkerInOrder
  <2>4. op.gen > 0
    BY <1>w, <2>3 DEF RetryRequested, Operation
  <2>5. QueueState(new) = "reopened" /\ QueueState(ops[o]) = "ended"
    BY <1>w, <2>2, <2>3, <2>4 DEF QueueState, TerminalPhases
  <2> HIDE DEF new
  <2>6. CASE CanUpdateStatus(o, op, new)
    <3>1. ASSUME NEW p \in Ops, p # o, TargetOf[p] = TargetOf[o], StateOf[p] # "absent",
                 AgeOf[o] < AgeOf[p]
          PROVE  StateOf[p] = "fresh"
      <4>1. ops[p].phase # "Absent" /\ ops[o].created < ops[p].created
        BY <1>v, <1>w, <3>1 DEF QueueState, AgeOf
      <4>2. o \in OlderRivals(p)
        BY <1>w, <3>1, <4>1 DEF OlderRivals
      <4>3. Waits(p)
        BY <2>1, <2>6, <4>2 DEF OrderInvariant, HeldBack, CanUpdateStatus
      <4> QED
        BY <1>v, <4>3 DEF Waits, QueueState
    <3>2. StateOf[o] = "ended" /\ StateOf' = [StateOf EXCEPT ![o] = "reopened"]
      BY <1>s, <1>v, <1>w, <2>1, <2>2, <2>5, <2>6
    <3>3. AgeOf' = AgeOf /\ BusyOps' = BusyOps
      BY <1>s, <2>1, <2>2, <2>6
    <3>4. Queue!Reopen(o)
      BY <3>1, <3>2, <3>3
         DEF Queue!Reopen, Queue!Move, Queue!Younger, Queue!Rivals, StateOf, AgeOf, BusyOps
    <3> QED
      BY <1>w, <3>4 DEF Queue!QueueNext
  <2> QED
    BY <1>r, <2>1, <2>6
<1>3. CASE StartOperation(c)
  <2> DEFINE new == [op EXCEPT !.phase = "Running", !.observed = op.gen,
                               !.deadline = op.gen, !.reason = ""]
  <2>1. ctl[c].pc = "start" /\ WriteStatus(c, new)
    BY <1>3 DEF StartOperation, At
  <2>2. new \in Operation /\ new.created = op.created /\ new.phase = "Running"
    BY <1>w DEF Operation, Phases, ActivePhases, Reasons
  <2>3. QueueState(new) = "running"
    BY <2>2 DEF QueueState
  <2> HIDE DEF new
  <2>4. CASE CanUpdateStatus(o, op, new) /\ ops[o].phase = "Running"
    BY <1>n, <2>1, <2>2, <2>3, <2>4 DEF QueueState
  <2>5. CASE CanUpdateStatus(o, op, new) /\ ops[o].phase = "Pending"
    <3>1. StateOf[o] \in {"fresh", "reopened"}
      <4>1. ops[o].observed \in Nat
        BY <1>t, <1>w DEF Operation
      <4> QED
        BY <1>v, <1>w, <2>5, <4>1 DEF QueueState
    <3>2. ASSUME NEW p \in Ops, p # o, TargetOf[p] = TargetOf[o] PROVE StateOf[p] # "running"
      <4>1. lock[TargetOf[o]].holder = o
        BY <1>w, <2>1 DEF WorkerKnows
      <4>2. ops[p].phase # "Running"
        BY <3>2, <4>1 DEF LockInvariant, RunningHoldsLock
      <4> QED
        BY <1>v, <4>2 DEF QueueState
    <3>3. ASSUME NEW p \in Ops, p # o, TargetOf[p] = TargetOf[o], StateOf[p] # "absent",
                 AgeOf[p] < AgeOf[o]
          PROVE  StateOf[p] = "ended"
      <4>1. ops[p].phase # "Absent" /\ ops[p].created < ops[o].created
        BY <1>v, <1>w, <3>3 DEF QueueState, AgeOf
      <4>2. p \in OlderRivals(o) /\ OlderAreOver(o)
        BY <1>w, <2>1, <3>3, <4>1 DEF OlderRivals, WorkerInOrder
      <4> QED
        BY <1>v, <4>2 DEF OlderAreOver, Terminal, TerminalPhases, QueueState
    <3>4. /\ StateOf' = [StateOf EXCEPT ![o] = "running"]
          /\ AgeOf' = AgeOf /\ BusyOps' = BusyOps
      BY <1>s, <2>1, <2>2, <2>3, <2>5
    <3>5. Queue!Begin(o)
      BY <3>1, <3>2, <3>3, <3>4
         DEF Queue!Begin, Queue!Move, Queue!Older, Queue!Rivals, StateOf, AgeOf, BusyOps
    <3> QED
      BY <1>w, <3>5 DEF Queue!QueueNext
  <2>6. CanUpdateStatus(o, op, new) => ops[o].phase \in {"Pending", "Running"}
    BY <2>2 DEF CanUpdateStatus, ValidPhaseTransition, IsRetryReopen, TerminalPhases
  <2> QED
    BY <1>r, <2>1, <2>4, <2>5, <2>6
<1>4. CASE FinishWrite(c)
  <2> DEFINE new == [op EXCEPT !.phase = ctl[c].goal.phase, !.reason = ctl[c].goal.reason,
                               !.observed = op.gen]
  <2>1. ctl[c].pc = "finishWrite" /\ WriteStatus(c, new)
    BY <1>4 DEF FinishWrite, At
  <2>2. ctl[c].goal.phase \in TerminalPhases /\ ActiveTasksOf(o) = {}
    BY <1>w, <2>1 DEF WorkerKnows
  <2>3. new \in Operation /\ new.created = op.created /\ new.phase \in TerminalPhases
    BY <1>w, <2>2 DEF Operation, Goal, Phases
  <2>4. QueueState(new) = "ended"
    BY <2>3 DEF QueueState, TerminalPhases
  <2> HIDE DEF new
  <2>5. CASE CanUpdateStatus(o, op, new) /\ ops[o].phase \in TerminalPhases
    <3>1. QueueState(ops[o]) = "ended"
      BY <2>5 DEF QueueState, TerminalPhases
    <3> QED
      BY <1>n, <2>1, <2>3, <2>4, <2>5, <3>1
  <2>6. CASE CanUpdateStatus(o, op, new) /\ ops[o].phase \in {"Pending", "Running"}
    <3>1. /\ StateOf' = [StateOf EXCEPT ![o] = "ended"]
          /\ AgeOf' = AgeOf /\ BusyOps' = BusyOps
      BY <1>s, <2>1, <2>3, <2>4, <2>6
    <3>2. CASE ops[o].phase = "Pending"
      <4>1. ops[o].observed \in Nat
        BY <1>t, <1>w DEF Operation
      <4>2. StateOf[o] \in {"fresh", "reopened"}
        BY <1>v, <1>w, <3>2, <4>1 DEF QueueState
      <4>3. Queue!Withdraw(o)
        BY <3>1, <4>2 DEF Queue!Withdraw, Queue!Move, StateOf, AgeOf, BusyOps
      <4> QED
        BY <1>w, <4>3 DEF Queue!QueueNext
    <3>3. CASE ops[o].phase = "Running"
      <4>1. StateOf[o] = "running"
        BY <1>v, <1>w, <3>3 DEF QueueState
      <4>2. ~Executing(o)
        BY <2>2 DEF LockInvariant, CommandsInStep, Executing, ActiveTasksOf, Active, ActivePhases
      <4>3. o \notin BusyOps
        BY <2>2, <4>2 DEF BusyOps
      <4>4. Queue!End(o)
        BY <3>1, <4>1, <4>3 DEF Queue!End, Queue!Move, StateOf, AgeOf, BusyOps
      <4> QED
        BY <1>w, <4>4 DEF Queue!QueueNext
    <3> QED
      BY <2>6, <3>2, <3>3
  <2>7. CanUpdateStatus(o, op, new) => ops[o].phase \in TerminalPhases \cup {"Pending", "Running"}
    BY <2>3 DEF CanUpdateStatus, ValidPhaseTransition, IsRetryReopen, TerminalPhases
  <2> QED
    BY <1>r, <2>1, <2>5, <2>6, <2>7
<1> QED
  BY <1>1, <1>2, <1>3, <1>4

\* The reads and the steps on locks show nothing.
LEMMA ReadStepsMap ==
    ASSUME NEW c \in Ctrls, UNCHANGED exec,
           \/ \E o \in Ops : GetOperation(c, o)
           \/ ListTasks(c) \/ ListOperations(c) \/ AcquireLockStep(c)
           \/ RetryStillLatest(c) \/ UnlockSkippedRetry(c) \/ FinishList(c)
           \/ GetLock(c) \/ ReleaseTerminalLock(c) \/ Abort(c)
    PROVE  UNCHANGED Queue!queueVars
<1>1. UNCHANGED <<ops, tasks>>
  BY DEF GetOperation, ListTasks, ListOperations, AcquireLockStep, RetryStillLatest,
         UnlockSkippedRetry, FinishList, GetLock, ReleaseTerminalLock, Abort,
         AcquireLock, ReleaseLock, storeVars
<1> QED
  BY <1>1, QueueStutters

\* The engine begins as an empty queue.
LEMMA QueueStarts == Init => Queue!QueueInit
<1> SUFFICES ASSUME Init PROVE Queue!QueueInit
  OBVIOUS
<1>1. \A o \in Ops : QueueState(ops[o]) = "absent" /\ ops[o].created = 0
  BY DEF Init, StoreInit, AbsentOperation, QueueState
<1>2. \A o \in Ops : ActiveTasksOf(o) = {} /\ ~Executing(o)
  BY DEF Init, StoreInit, NoTasks, AgentInit, ActiveTasksOf, Executing
<1> QED
  BY <1>1, <1>2 DEF Queue!QueueInit

\* Every step of the engine is a step of the queue or leaves it alone.
LEMMA QueueStep ==
    ASSUME ClockSync, ~SameSecond
    PROVE  TypeInv /\ LockInvariant /\ OrderInvariant /\ OneCommand /\ [Next]_vars
              => [Queue!QueueNext]_Queue!queueVars
<1> SUFFICES ASSUME TypeInv, LockInvariant, OrderInvariant, OneCommand, [Next]_vars
             PROVE  Queue!QueueNext \/ UNCHANGED Queue!queueVars
  OBVIOUS
<1>1. CASE \E c \in Ctrls : ControllerNext(c)
  BY <1>1, ReadStepsMap, LoopStepsMap, WriteStepsMap DEF ControllerNext, ReconcileStep
<1>2. CASE \E o \in Ops : APINext(o)
  BY <1>2, APIMaps
<1>3. CASE \E n \in Nodes : AgentNext(n)
  BY <1>3, AgentStepsMap DEF AgentNext
<1>4. CASE \E o \in Ops : DeadlineReached(o) \/ GraceOver(o)
  BY <1>4, QueueStutters DEF DeadlineReached, GraceOver, storeVars
<1>5. CASE Fault
  BY <1>5, ReadStepsMap, AgentStepsMap DEF Fault
<1>6. CASE UNCHANGED vars
  BY <1>6, QueueStutters DEF vars
<1> QED
  BY <1>1, <1>2, <1>3, <1>4, <1>5, <1>6 DEF Next

\* Workers, handlers, agents, faults and the clock together implement the queue of
\* each target, for any number of operations, retries, workers and faults.  Needed
\* are one leader, node clocks that follow the server's (a command dies with its
\* deadline), and creation times that differ (operations created in the same second
\* have no fixed order).
THEOREM EngineImplementsTargetQueue ==
    SingleLeader /\ ClockSync /\ ~SameSecond => (Spec => ImplementsTargetQueue)
<1> SUFFICES ASSUME SingleLeader, ClockSync, ~SameSecond PROVE Spec => ImplementsTargetQueue
  OBVIOUS
<1>1. TypeInv /\ LockInvariant /\ [Next]_vars => LockInvariant'
  BY LockStep
<1>2. TypeInv /\ LockInvariant /\ OrderInvariant /\ [Next]_vars => OrderInvariant'
  BY OrderStep
<1>3. TypeInv /\ LockInvariant /\ OrderInvariant /\ OneCommand /\ [Next]_vars
         => [Queue!QueueNext]_Queue!queueVars
  BY QueueStep
<1> QED
  BY TypeInit, TypeStep, LockInit, OrderInit, OneCommandInit, OneCommandStep, QueueStarts,
     <1>1, <1>2, <1>3, PTL DEF Spec, ImplementsTargetQueue, Queue!QueueSpec

-----------------------------------------------------------------------------
(***************************************************************************)
(* The tasks of an operation.                                              *)
(***************************************************************************)

Lost == {"Failed", "TimedOut", "Canceled"}

\* The tasks of one node in one step of an operation.
Slot(o, s, n) == {u \in DOMAIN tasks : u.op = o /\ u.step = s /\ u.node = n}

SlotDone(o, s, n) == \E u \in Slot(o, s, n) : tasks[u].phase = "Succeeded"
SlotLost(o, s, n) == \A u \in Slot(o, s, n) : tasks[u].phase \in Lost

AllDone(o) == \A s \in DOMAIN Plan[o] : \A n \in Plan[o][s].targets : SlotDone(o, s, n)

\* Some node of some step can only be helped by a new task.
Stuck(o) == \E s \in DOMAIN Plan[o] : \E n \in Plan[o][s].targets : SlotLost(o, s, n)

MissingOutput(o) ==
    LET view == TasksOf(o)
    IN  ~Complete(o, view) /\ ~PayloadReady(o, view, CurrentStep(o, view))

-----------------------------------------------------------------------------
EarlierDone(t) ==
    \A s \in 1..(t.step - 1) : \A n \in Plan[t.op][s].targets : SlotDone(t.op, s, n)

Planned(t) ==
    /\ t.step \in DOMAIN Plan[t.op] /\ t.node \in Plan[t.op][t.step].targets
    /\ t.gen <= ops[t.op].gen
    /\ EarlierDone(t)

InSequence(t, u) ==
    t # u => /\ t.attempt # u.attempt
             /\ t.attempt < u.attempt => tasks[t].phase \in Lost /\ t.gen <= u.gen

\* The tasks beside t in its generation, and those that count in its budget.
Peers(t) == {u \in Attempts(t) : u.gen = t.gen}
Counted(t) == {u \in Peers(t) : tasks[u].phase # "Canceled"}

IsBase(t) == \A u \in Attempts(t) : t.gen <= u.gen

Budgeted(t) ==
    IF IsBase(t) THEN Cardinality(Counted(t)) <= 1 + Plan[t.op][t.step].retryLimit
    ELSE Peers(t) = {t}

\* A worker may create t: everything before it on the node is over, was not
\* successful, and leaves room for one more attempt.
MayCreate(t) ==
    /\ Planned(t) /\ t.gen = ops[t.op].gen
    /\ \A u \in Attempts(t) : u.attempt < t.attempt /\ tasks[u].phase \in Lost
    /\ IF IsBase(t) THEN Cardinality(Counted(t)) <= Plan[t.op][t.step].retryLimit
       ELSE Peers(t) = {}

\* The list shows a task only with the successes it waited for.
ViewOrdered(o, view) ==
    \A u \in DOMAIN view : \A s \in 1..(u.step - 1) : \A n \in Plan[o][s].targets :
        NodeSucceeded(view, s, n)

\* The list a worker read still names all tasks of o, and shows the final state of
\* those that were over.
ViewCurrent(o, view) ==
    /\ DOMAIN view = {u \in DOMAIN tasks : u.op = o}
    /\ \A u \in DOMAIN view : view[u].phase \in TerminalPhases => view[u] = tasks[u]
    /\ ViewOrdered(o, view)

\* What a worker in the middle of Reconcile may rely on about the tasks of its
\* operation: only agents move them while it is on its way.
WorkerPrepared(w) ==
    /\ w.pc \notin {"idle", "release"} /\ w.snap.phase \in ActivePhases =>
          w.snap.gen = ops[w.op].gen /\ w.snap.deadline = ops[w.op].deadline
    /\ w.pc \in {"listOps", "acquire"} => ViewCurrent(w.op, w.view)
    /\ w.pc = "create" =>
          /\ \A t \in w.todo : MayCreate(t)
          /\ \A t, u \in w.todo : t # u => t.node # u.node
    /\ w.pc \in {"finishList", "finishWrite"} =>
          /\ w.goal.phase # "Succeeded" => Stuck(w.op)
          /\ w.goal.reason = "InvalidExecutionFacts" =>
                w.goal.phase = "Failed" /\ ActiveTasksOf(w.op) = {} /\ MissingOutput(w.op)
    /\ w.pc = "finishWrite" /\ w.goal.phase = "Succeeded" => AllDone(w.op)

\* The verdict on an operation and the state of its tasks.
VerdictSound(o) ==
    /\ ops[o].phase = "Absent" => ops[o].gen = 0
    /\ ops[o].phase = "Running" => ops[o].deadline # NoDeadline
    /\ Terminal(o) => IF ops[o].phase = "Succeeded" THEN AllDone(o) ELSE Stuck(o)
    /\ ops[o].reason = "InvalidExecutionFacts" => Terminal(o) /\ MissingOutput(o)

TaskInvariant ==
    /\ IsFiniteSet(DOMAIN tasks)
    /\ \A t \in DOMAIN tasks : Planned(t) /\ Budgeted(t)
    /\ \A t \in DOMAIN tasks : \A u \in Attempts(t) : InSequence(t, u)
    /\ \A o \in Ops : VerdictSound(o)
    /\ \A c \in Ctrls : WorkerPrepared(ctl[c])

-----------------------------------------------------------------------------
(***************************************************************************)
(* What the definitions above say of a step that leaves tasks alone.       *)
(***************************************************************************)
SameTasks(o) ==
    \A u : u.op = o => /\ u \in DOMAIN tasks' <=> u \in DOMAIN tasks
                       /\ u \in DOMAIN tasks => tasks'[u] = tasks[u]

\* A plan has a first step, and every step has targets.
LEMMA PlanShape ==
    ASSUME NEW o \in Ops
    PROVE  /\ DOMAIN Plan[o] = 1..Len(Plan[o]) /\ Len(Plan[o]) \in Nat
           /\ 1 \in DOMAIN Plan[o]
           /\ \A s \in DOMAIN Plan[o] : /\ Plan[o][s].targets # {}
                                        /\ Plan[o][s].retryLimit \in Nat
<1>1. Plan[o] \in Seq(OperationStep) /\ ValidPlan(Plan[o])
  BY PlanAssumption
<1>2. DOMAIN Plan[o] = 1..Len(Plan[o]) /\ Len(Plan[o]) \in Nat
  BY <1>1
<1> QED
  BY <1>1, <1>2 DEF ValidPlan, ValidStep, MaxRetryLimit

\* The reducer's Complete is what it says about the stored tasks.
LEMMA CompleteMeans ==
    ASSUME NEW o
    PROVE  Complete(o, TasksOf(o)) <=> AllDone(o)
<1>1. ASSUME NEW s, NEW n PROVE NodeSucceeded(TasksOf(o), s, n) <=> SlotDone(o, s, n)
  BY DEF NodeSucceeded, NodeTasks, StepTasks, TasksOf, SlotDone, Slot
<1> QED
  BY <1>1 DEF Complete, IncompleteSteps, Incomplete, AllDone

\* A stuck operation is not complete.
LEMMA StuckIsIncomplete ==
    ASSUME NEW o, Stuck(o)
    PROVE  ~AllDone(o)
BY DEF Stuck, AllDone, SlotLost, SlotDone, Lost

\* Nothing about an operation changes when its tasks do not.
LEMMA SameTasksSameFacts ==
    ASSUME NEW o, SameTasks(o)
    PROVE  /\ TasksOf(o)' = TasksOf(o) /\ ActiveTasksOf(o)' = ActiveTasksOf(o)
           /\ \A s, n : Slot(o, s, n)' = Slot(o, s, n)
           /\ \A s, n : SlotDone(o, s, n)' <=> SlotDone(o, s, n)
           /\ AllDone(o)' <=> AllDone(o)
           /\ Stuck(o)' <=> Stuck(o)
           /\ MissingOutput(o)' <=> MissingOutput(o)
           /\ \A view : ViewCurrent(o, view)' <=> ViewCurrent(o, view)
<1>1. {u \in DOMAIN tasks' : u.op = o} = {u \in DOMAIN tasks : u.op = o}
  BY DEF SameTasks
<1>2. TasksOf(o)' = TasksOf(o)
  BY <1>1 DEF SameTasks, TasksOf
<1>3. ActiveTasksOf(o)' = ActiveTasksOf(o)
  BY DEF SameTasks, ActiveTasksOf, Active
<1>4. \A s, n : Slot(o, s, n)' = Slot(o, s, n)
  BY DEF SameTasks, Slot
<1>5. \A s, n : \A u \in Slot(o, s, n) : tasks'[u] = tasks[u]
  BY DEF SameTasks, Slot
<1>6. \A s, n : /\ SlotDone(o, s, n)' <=> SlotDone(o, s, n)
                /\ SlotLost(o, s, n)' <=> SlotLost(o, s, n)
  BY <1>4, <1>5 DEF SlotDone, SlotLost
<1>7. (AllDone(o)' <=> AllDone(o)) /\ (Stuck(o)' <=> Stuck(o))
  BY <1>6 DEF AllDone, Stuck
<1>8. MissingOutput(o)' <=> MissingOutput(o)
  BY <1>2 DEF MissingOutput
<1>9. ASSUME NEW view PROVE ViewCurrent(o, view)' <=> ViewCurrent(o, view)
  BY <1>1 DEF ViewCurrent, SameTasks
<1> QED
  BY <1>2, <1>3, <1>4, <1>6, <1>7, <1>8, <1>9

\* The same for what is said of one task.
LEMMA SameTasksSameTask ==
    ASSUME NEW t, SameTasks(t.op), ops'[t.op].gen = ops[t.op].gen
    PROVE  /\ Planned(t)' <=> Planned(t)
           /\ Budgeted(t)' <=> Budgeted(t)
           /\ MayCreate(t)' <=> MayCreate(t)
           /\ Attempts(t)' = Attempts(t)
<1>1. /\ Attempts(t)' = Attempts(t)
      /\ \A u \in Attempts(t) : tasks'[u] = tasks[u]
  BY DEF SameTasks, Attempts
<1>2. EarlierDone(t)' <=> EarlierDone(t)
  BY SameTasksSameFacts DEF EarlierDone
<1>3. Peers(t)' = Peers(t) /\ Counted(t)' = Counted(t) /\ (IsBase(t)' <=> IsBase(t))
  BY <1>1 DEF Peers, Counted, IsBase
<1>4. Planned(t)' <=> Planned(t)
  BY <1>2 DEF Planned
<1> QED
  BY <1>1, <1>3, <1>4 DEF Budgeted, MayCreate

\* A worker that rests, and whose operation's tasks, generation and deadline do.
LEMMA RestingWorker ==
    ASSUME NEW d, ctl'[d] = ctl[d], WorkerPrepared(ctl[d]), WorkerKnows(ctl[d]),
           SameTasks(ctl[d].op),
           ctl[d].snap.phase \in ActivePhases =>
              /\ ops'[ctl[d].op].gen = ops[ctl[d].op].gen
              /\ ops'[ctl[d].op].deadline = ops[ctl[d].op].deadline
    PROVE  WorkerPrepared(ctl[d])'
<1> DEFINE w == ctl[d]
<1>1. w.pc = "create" => w.snap.phase \in ActivePhases /\ \A t \in w.todo : t.op = w.op
  BY DEF WorkerKnows, ActivePhases
<1>2. ASSUME w.pc = "create", NEW t \in w.todo PROVE MayCreate(t)'
  <2>1. t.op = w.op /\ ops'[t.op].gen = ops[t.op].gen
    BY <1>1, <1>2
  <2> QED
    BY <1>2, <2>1, SameTasksSameTask DEF WorkerPrepared
<1> QED
  BY <1>2, SameTasksSameFacts DEF WorkerPrepared

\* An idle worker relies on nothing.
LEMMA IdlePrepared ==
    ASSUME NEW d, ctl'[d] = IdleWorker
    PROVE  WorkerPrepared(ctl[d])'
BY IdleFields DEF WorkerPrepared

\* Where the parts of the invariants are.
LEMMA TaskParts ==
    ASSUME TypeInv, LockInvariant, TaskInvariant
    PROVE  /\ IsFiniteSet(DOMAIN tasks)
           /\ \A t \in DOMAIN tasks : t \in TaskId /\ t.op \in Ops /\ tasks[t] \in OperationTask
           /\ \A o \in Ops : ops[o] \in Operation
           /\ \A d \in Ctrls : WorkerKnows(ctl[d]) /\ WorkerPrepared(ctl[d])
           /\ \A t \in DOMAIN tasks : Active(t) => ops[t.op].phase = "Running"
           /\ ops \in [Ops -> Operation] /\ opRev \in Nat
BY TypeInvParts DEF StoreTyped, StoreTypeOK, IsTaskMap, TaskId, LockInvariant,
                    TaskInvariant, ActiveOnlyWhileRunning

-----------------------------------------------------------------------------
(***************************************************************************)
(* The kinds of steps.                                                     *)
(***************************************************************************)

\* An agent or a loop of a worker moves an active task.
LEMMA AdvanceKeeps ==
    ASSUME TypeInv, LockInvariant, TaskInvariant, UNCHANGED ops,
           NEW t \in DOMAIN tasks, Active(t), DOMAIN tasks' = DOMAIN tasks,
           \A u \in DOMAIN tasks : u # t => tasks'[u] = tasks[u],
           \A d \in Ctrls :
              \/ ctl'[d] = ctl[d] \/ ctl'[d] = IdleWorker
              \/ /\ ctl[d].pc \in {"cancel", "timeout"} /\ ctl'[d].pc = ctl[d].pc
                 /\ ctl'[d].op = ctl[d].op /\ ctl'[d].snap = ctl[d].snap
    PROVE  TaskInvariant'
<1> DEFINE o == t.op
<1>p. /\ IsFiniteSet(DOMAIN tasks) /\ o \in Ops /\ ops[o].phase = "Running"
      /\ \A d \in Ctrls : WorkerKnows(ctl[d]) /\ WorkerPrepared(ctl[d])
      /\ \A u \in DOMAIN tasks : u \in TaskId
  BY TaskParts
<1>a. tasks[t].phase \in {"Pending", "Running"}
  BY DEF Active, ActivePhases
<1>s. \A p : p # o => SameTasks(p)
  BY DEF SameTasks
<1>1. \A p, s, n : /\ Slot(p, s, n)' = Slot(p, s, n)
                   /\ SlotDone(p, s, n) => SlotDone(p, s, n)'
                   /\ SlotLost(p, s, n) => SlotLost(p, s, n)'
  BY <1>a DEF Slot, SlotDone, SlotLost, Lost
<1>2. \A p : (AllDone(p) => AllDone(p)') /\ (Stuck(p) => Stuck(p)')
  BY <1>1 DEF AllDone, Stuck
<1>3. \A u : Attempts(u)' = Attempts(u) /\ Peers(u)' = Peers(u) /\ (IsBase(u)' <=> IsBase(u))
  BY DEF Attempts, Peers, IsBase
<1>4. ASSUME NEW u PROVE Planned(u) => Planned(u)'
  BY <1>1 DEF Planned, EarlierDone
<1>5. ASSUME NEW u \in DOMAIN tasks PROVE Planned(u)' /\ Budgeted(u)'
  <2>1. Planned(u) /\ Budgeted(u)
    BY DEF TaskInvariant
  <2>2. Counted(u)' \subseteq Counted(u)
    BY <1>3, <1>a DEF Counted, Attempts, Peers
  <2>3. IsFiniteSet(Counted(u))
    BY <1>p, FS_Subset DEF Counted, Peers, Attempts
  <2>4. /\ Cardinality(Counted(u)') <= Cardinality(Counted(u))
        /\ Cardinality(Counted(u)') \in Nat /\ Cardinality(Counted(u)) \in Nat
    BY <2>2, <2>3, FS_Subset, FS_CardinalityType
  <2>5. Plan[u.op][u.step].retryLimit \in Nat
    BY <1>p, <2>1, PlanShape DEF Planned, TaskId
  <2>6. Budgeted(u)'
    BY <1>3, <2>1, <2>4, <2>5 DEF Budgeted
  <2> QED
    BY <1>4, <2>1, <2>6
<1>6. ASSUME NEW u \in DOMAIN tasks, NEW v \in Attempts(u) PROVE InSequence(u, v)'
  <2>1. InSequence(u, v) /\ v \in DOMAIN tasks
    BY DEF TaskInvariant, Attempts
  <2> QED
    BY <1>a, <2>1 DEF InSequence, Lost
<1>7. ASSUME NEW p \in Ops PROVE VerdictSound(p)'
  <2>1. VerdictSound(p)
    BY DEF TaskInvariant
  <2>2. CASE p = o
    BY <1>p, <2>1, <2>2 DEF VerdictSound, Terminal, TerminalPhases
  <2>3. CASE p # o
    BY <1>s, <2>1, <2>3, SameTasksSameFacts DEF VerdictSound, Terminal
  <2> QED
    BY <2>2, <2>3
<1>8. ASSUME NEW d \in Ctrls PROVE WorkerPrepared(ctl[d])'
  <2>1. CASE ctl'[d] = IdleWorker
    BY <2>1, IdlePrepared
  <2>2. CASE /\ ctl[d].pc \in {"cancel", "timeout"} /\ ctl'[d].pc = ctl[d].pc
             /\ ctl'[d].op = ctl[d].op /\ ctl'[d].snap = ctl[d].snap
    BY <1>p, <2>2 DEF WorkerPrepared
  <2>3. CASE ctl'[d] = ctl[d] /\ ctl[d].op # o
    BY <1>p, <1>s, <2>3, RestingWorker
  <2>4. CASE ctl'[d] = ctl[d] /\ ctl[d].op = o
    <3> DEFINE w == ctl[d]
    <3>1. ASSUME w.pc \in {"listOps", "acquire"} PROVE ViewCurrent(o, w.view)'
      <4>1. ViewCurrent(o, w.view)
        BY <1>p, <2>4, <3>1 DEF WorkerPrepared
      <4> QED
        BY <1>a, <2>4, <4>1 DEF ViewCurrent, TerminalPhases
    <3>2. ASSUME w.pc = "create", NEW v \in w.todo PROVE MayCreate(v)'
      <4>1. MayCreate(v)
        BY <1>p, <3>2 DEF WorkerPrepared
      <4>2. t \notin Attempts(v)
        BY <1>a, <4>1 DEF MayCreate, Lost
      <4>3. Counted(v)' = Counted(v) /\ \A u \in Attempts(v) : tasks'[u] = tasks[u]
        BY <1>3, <4>2 DEF Counted, Peers, Attempts
      <4> QED
        BY <1>3, <1>4, <4>1, <4>3 DEF MayCreate
    <3>3. ASSUME w.pc \in {"finishList", "finishWrite"} PROVE w.goal.reason # "InvalidExecutionFacts"
      BY <1>p, <2>4, <3>3 DEF WorkerPrepared, ActiveTasksOf
    <3> QED
      BY <1>p, <1>2, <2>4, <3>1, <3>2, <3>3 DEF WorkerPrepared
  <2> QED
    BY <2>1, <2>2, <2>3, <2>4
<1> QED
  BY <1>p, <1>3, <1>5, <1>6, <1>7, <1>8 DEF TaskInvariant

\* A worker creates the next task of its operation.
LEMMA CreateTaskKeeps ==
    ASSUME TypeInv, LockInvariant, TaskInvariant, NEW c \in Ctrls, ctl[c].pc = "create",
           NEW t \in ctl[c].todo, NEW deadline, CreateTask(t, deadline),
           \A d \in Ctrls \ {c} : ctl'[d] = ctl[d],
           \/ ctl'[c] = IdleWorker
           \/ /\ ctl'[c].pc = "create" /\ ctl'[c].op = ctl[c].op
              /\ ctl'[c].snap = ctl[c].snap /\ ctl'[c].todo = ctl[c].todo \ {t}
    PROVE  TaskInvariant'
<1> DEFINE o == t.op
<1>p. /\ IsFiniteSet(DOMAIN tasks)
      /\ \A d \in Ctrls : WorkerKnows(ctl[d]) /\ WorkerPrepared(ctl[d])
      /\ \A u \in DOMAIN tasks : u \in TaskId
  BY TaskParts
<1>k. o = ctl[c].op /\ ops[o].phase = "Running" /\ MayCreate(t)
  BY <1>p DEF WorkerKnows, WorkerPrepared
<1>i. o \in Ops /\ t \in TaskId
  BY <1>k, TypeInvParts, BusyWorkerTyped
<1>n. t \notin DOMAIN tasks
  <2>1. t \notin Attempts(t)
    BY <1>k, <1>i DEF MayCreate, TaskId
  <2> QED
    BY <2>1 DEF Attempts
<1>1. /\ UNCHANGED ops /\ DOMAIN tasks' = DOMAIN tasks \cup {t}
      /\ \A u \in DOMAIN tasks : tasks'[u] = tasks[u]
      /\ tasks'[t].phase = "Pending"
  BY <1>n DEF CreateTask, NewTask
<1>s. \A p : p # o => SameTasks(p)
  BY <1>1 DEF SameTasks
<1>2. \A p, s, n : SlotDone(p, s, n) => SlotDone(p, s, n)'
  BY <1>1 DEF Slot, SlotDone
<1>3. ASSUME NEW u PROVE Planned(u) => Planned(u)'
  BY <1>1, <1>2 DEF Planned, EarlierDone
\* On another node nothing changes.
<1>4. ASSUME NEW u, t \notin Attempts(u)'
      PROVE  /\ Attempts(u)' = Attempts(u) /\ Peers(u)' = Peers(u)
             /\ Counted(u)' = Counted(u) /\ (IsBase(u)' <=> IsBase(u))
             /\ \A v \in Attempts(u) : tasks'[v] = tasks[v]
  <2>1. Attempts(u)' = Attempts(u) /\ Attempts(u) \subseteq DOMAIN tasks
    BY <1>1, <1>4 DEF Attempts
  <2>2. Peers(u)' = Peers(u) /\ (IsBase(u)' <=> IsBase(u))
    BY <2>1 DEF Peers, IsBase
  <2>3. Counted(u)' = Counted(u)
    BY <1>1, <2>1, <2>2 DEF Counted, Peers
  <2> QED
    BY <1>1, <2>1, <2>2, <2>3
\* On t's node, t is the latest attempt.
<1>5. ASSUME NEW u \in DOMAIN tasks', t \in Attempts(u)' PROVE Budgeted(u)'
  <2>1. /\ Attempts(u) = Attempts(t) /\ u.op = t.op /\ u.step = t.step
        /\ Attempts(u)' = Attempts(t) \cup {t}
        /\ Attempts(t) \subseteq DOMAIN tasks
    BY <1>1, <1>5 DEF Attempts
  <2>2. u = t \/ u \in Attempts(t)
    BY <1>1, <1>5 DEF Attempts
  <2>3. \A v \in Attempts(t) : v.gen <= t.gen /\ v.gen \in Nat
    BY <1>k, <1>p DEF MayCreate, TaskInvariant, Planned, TaskId, Attempts
  <2>g. t.gen \in Nat /\ u.gen \in Nat
    BY <1>i, <2>2, <2>3 DEF TaskId
  <2>l. Plan[u.op][u.step].retryLimit \in Nat
    BY <1>i, <1>k, <2>1, PlanShape DEF MayCreate, Planned
  <2>4. CASE u.gen < t.gen
    <3>1. u \in Attempts(t) /\ Budgeted(u)
      BY <2>2, <2>4, <2>g DEF TaskInvariant, Attempts
    <3>2. Peers(u)' = Peers(u)
      BY <2>1, <2>4, <2>g DEF Peers
    <3>3. Counted(u)' = Counted(u)
      BY <1>1, <2>1, <3>2 DEF Counted, Peers
    <3>4. IsBase(u)' <=> IsBase(u)
      BY <2>1, <2>4, <2>g DEF IsBase
    <3> QED
      BY <3>1, <3>2, <3>3, <3>4 DEF Budgeted
  <2>5. CASE u.gen = t.gen
    <3>1. Peers(u) = Peers(t) /\ Peers(u)' = Peers(t) \cup {t}
      BY <2>1, <2>5 DEF Peers
    <3>2. IsBase(u)' <=> IsBase(t)
      BY <2>1, <2>5, <2>g DEF IsBase
    <3>3. CASE IsBase(t)
      <4>1. Counted(u)' = Counted(t) \cup {t}
        BY <1>1, <2>1, <3>1 DEF Counted, Peers
      <4>2. IsFiniteSet(Counted(t)) /\ t \notin Counted(t)
        BY <1>p, <1>n, FS_Subset DEF Counted, Peers, Attempts
      <4>3. /\ Cardinality(Counted(u)') = Cardinality(Counted(t)) + 1
            /\ Cardinality(Counted(t)) \in Nat
        BY <4>1, <4>2, FS_AddElement, FS_CardinalityType
      <4>4. Cardinality(Counted(t)) <= Plan[u.op][u.step].retryLimit
        BY <1>k, <2>1, <3>3 DEF MayCreate
      <4> QED
        BY <2>l, <3>2, <3>3, <4>3, <4>4 DEF Budgeted
    <3>4. CASE ~IsBase(t)
      <4>1. Peers(t) = {}
        BY <1>k, <3>4 DEF MayCreate
      <4>2. u = t
        BY <2>2, <2>5, <4>1 DEF Peers
      <4> QED
        BY <3>1, <3>2, <3>4, <4>1, <4>2 DEF Budgeted
    <3> QED
      BY <3>3, <3>4
  <2> QED
    BY <2>2, <2>3, <2>4, <2>5, <2>g
<1>6. ASSUME NEW u \in DOMAIN tasks' PROVE Planned(u)' /\ Budgeted(u)'
  <2>1. Planned(u)
    BY <1>1, <1>k DEF TaskInvariant, MayCreate
  <2>2. CASE t \in Attempts(u)'
    BY <1>3, <1>5, <2>1, <2>2
  <2>3. CASE t \notin Attempts(u)'
    <3>1. u \in DOMAIN tasks
      BY <1>1, <2>3 DEF Attempts
    <3>2. Budgeted(u)
      BY <3>1 DEF TaskInvariant
    <3> QED
      BY <1>3, <1>4, <2>1, <2>3, <3>2 DEF Budgeted
  <2> QED
    BY <2>2, <2>3
<1>7. ASSUME NEW u \in DOMAIN tasks', NEW v \in Attempts(u)' PROVE InSequence(u, v)'
  <2>1. CASE u # t /\ v # t
    <3>1. u \in DOMAIN tasks /\ v \in Attempts(u)
      BY <1>1, <1>7, <2>1 DEF Attempts
    <3>2. InSequence(u, v)
      BY <3>1 DEF TaskInvariant
    <3> QED
      BY <1>1, <3>1, <3>2 DEF InSequence, Attempts
  <2>2. CASE u = t /\ v # t
    <3>1. v \in Attempts(t)
      BY <1>1, <1>7, <2>2 DEF Attempts
    <3>2. v.attempt < t.attempt /\ v.attempt \in Nat /\ t.attempt \in Nat
      BY <1>i, <1>k, <1>p, <3>1 DEF MayCreate, TaskId, Attempts
    <3> QED
      BY <2>2, <3>2 DEF InSequence
  <2>3. CASE u # t /\ v = t
    <3>1. u \in Attempts(t) /\ u \in DOMAIN tasks
      BY <1>1, <1>7, <2>3 DEF Attempts
    <3>2. u.attempt < t.attempt /\ u.attempt \in Nat /\ t.attempt \in Nat
      BY <1>i, <1>k, <1>p, <3>1 DEF MayCreate, TaskId
    <3>3. u.gen <= t.gen /\ tasks[u].phase \in Lost
      BY <1>k, <3>1 DEF MayCreate, TaskInvariant, Planned, Attempts
    <3> QED
      BY <1>1, <2>3, <3>1, <3>2, <3>3 DEF InSequence
  <2>4. CASE u = t /\ v = t
    BY <2>4 DEF InSequence
  <2> QED
    BY <2>1, <2>2, <2>3, <2>4
<1>8. ASSUME NEW p \in Ops PROVE VerdictSound(p)'
  <2>1. VerdictSound(p)
    BY DEF TaskInvariant
  <2>2. CASE p = o
    BY <1>1, <1>k, <2>1, <2>2 DEF VerdictSound, Terminal, TerminalPhases
  <2>3. CASE p # o
    BY <1>1, <1>s, <2>1, <2>3, SameTasksSameFacts DEF VerdictSound, Terminal
  <2> QED
    BY <2>2, <2>3
<1>9. ASSUME NEW d \in Ctrls PROVE WorkerPrepared(ctl[d])'
  <2>1. CASE ctl'[d] = IdleWorker
    BY <2>1, IdlePrepared
  <2>2. CASE d # c
    <3>1. ctl[d].op # o
      BY <1>k, <2>2 DEF LockInvariant, OneWorkerPerOperation, At
    <3> QED
      BY <1>1, <1>p, <1>s, <2>2, <3>1, RestingWorker
  <2>3. CASE /\ d = c /\ ctl'[c].pc = "create" /\ ctl'[c].op = ctl[c].op
             /\ ctl'[c].snap = ctl[c].snap /\ ctl'[c].todo = ctl[c].todo \ {t}
    <3>1. ASSUME NEW v \in ctl[c].todo \ {t} PROVE MayCreate(v)'
      <4>1. MayCreate(v) /\ v.node # t.node
        BY <1>p DEF WorkerPrepared
      <4>2. t \notin Attempts(v)'
        BY <4>1 DEF Attempts
      <4>3. /\ Attempts(v)' = Attempts(v) /\ Peers(v)' = Peers(v)
            /\ Counted(v)' = Counted(v) /\ (IsBase(v)' <=> IsBase(v))
            /\ \A u \in Attempts(v) : tasks'[u] = tasks[u]
        BY <1>4, <4>2
      <4> QED
        BY <1>1, <1>3, <4>1, <4>3 DEF MayCreate
    <3> QED
      BY <1>1, <1>p, <2>3, <3>1 DEF WorkerPrepared
  <2> QED
    BY <2>1, <2>2, <2>3
<1>10. IsFiniteSet(DOMAIN tasks')
  BY <1>1, <1>p, FS_AddElement
<1> QED
  BY <1>6, <1>7, <1>8, <1>9, <1>10 DEF TaskInvariant

\* A worker moves on; nothing it shares with the others changes.
LEMMA MoveTasks ==
    ASSUME TypeInv, TaskInvariant, NEW c \in Ctrls, UNCHANGED <<ops, tasks>>,
           NEW w, Become(c, w), WorkerPrepared(w)
    PROVE  TaskInvariant'
<1>s. \A p : SameTasks(p)
  BY DEF SameTasks
<1>1. ctl'[c] = w /\ \A d \in Ctrls \ {c} : ctl'[d] = ctl[d]
  BY TypeInvParts DEF Become, WorkersTyped, ControllerTypeOK
<1>f. /\ \A p : /\ ActiveTasksOf(p)' = ActiveTasksOf(p) /\ (AllDone(p)' <=> AllDone(p))
                /\ Stuck(p)' <=> Stuck(p)
                /\ MissingOutput(p)' <=> MissingOutput(p)
                /\ \A view : ViewCurrent(p, view)' <=> ViewCurrent(p, view)
  BY <1>s, SameTasksSameFacts
<1>t. \A t : (Planned(t)' <=> Planned(t)) /\ (Budgeted(t)' <=> Budgeted(t))
             /\ (MayCreate(t)' <=> MayCreate(t)) /\ Attempts(t)' = Attempts(t)
  BY <1>s, SameTasksSameTask
<1>2. \A d \in Ctrls : WorkerPrepared(ctl[d])'
  BY <1>1, <1>f, <1>t DEF WorkerPrepared, TaskInvariant
<1>3. \A o \in Ops : VerdictSound(o)'
  BY <1>f DEF VerdictSound, TaskInvariant, Terminal
<1>4. \A t \in DOMAIN tasks : \A u \in Attempts(t) : InSequence(t, u)'
  BY DEF TaskInvariant, InSequence
<1> QED
  BY <1>t, <1>2, <1>3, <1>4 DEF TaskInvariant

\* Nothing happens to operations, tasks and workers.
LEMMA TasksRest ==
    ASSUME TypeInv, LockInvariant, TaskInvariant, UNCHANGED <<ops, tasks, ctl>>
    PROVE  TaskInvariant'
<1>s. \A p : SameTasks(p)
  BY DEF SameTasks
<1>1. \A d \in Ctrls : WorkerPrepared(ctl[d])'
  BY <1>s, RestingWorker, TaskParts
<1>2. \A o \in Ops : VerdictSound(o)'
  BY <1>s, SameTasksSameFacts DEF VerdictSound, TaskInvariant, Terminal
<1>3. \A t : (Planned(t)' <=> Planned(t)) /\ (Budgeted(t)' <=> Budgeted(t))
             /\ Attempts(t)' = Attempts(t)
  BY <1>s, SameTasksSameTask
<1>4. \A t \in DOMAIN tasks : \A u \in Attempts(t) : InSequence(t, u)'
  BY DEF TaskInvariant, InSequence
<1> QED
  BY <1>1, <1>2, <1>3, <1>4 DEF TaskInvariant

\* An operation is written, by a handler or by its worker.
LEMMA WriteKeeps ==
    ASSUME TypeInv, LockInvariant, TaskInvariant, UNCHANGED tasks,
           NEW o \in Ops, NEW new \in Operation, WriteOperation(o, new),
           ops[o].gen <= new.gen, new.phase # "Absent",
           new.phase = "Running" => new.deadline # NoDeadline,
           new.phase \in TerminalPhases =>
              IF new.phase = "Succeeded" THEN AllDone(o) ELSE Stuck(o),
           new.reason = "InvalidExecutionFacts" =>
              new.phase \in TerminalPhases /\ MissingOutput(o),
           \A d \in Ctrls :
              \/ ctl'[d] = IdleWorker \/ ctl'[d].pc = "release"
              \/ /\ ctl'[d] = ctl[d]
                 /\ \/ ctl[d].op # o
                    \/ ctl[d].snap.phase \notin ActivePhases
                    \/ new.gen = ops[o].gen /\ new.deadline = ops[o].deadline
    PROVE  TaskInvariant'
<1>p. /\ \A d \in Ctrls : WorkerKnows(ctl[d]) /\ WorkerPrepared(ctl[d])
      /\ \A t \in DOMAIN tasks : t \in TaskId /\ t.op \in Ops
      /\ ops \in [Ops -> Operation] /\ opRev \in Nat
  BY TaskParts
<1>1. /\ \A p \in Ops \ {o} : ops'[p] = ops[p]
      /\ ops'[o].phase = new.phase /\ ops'[o].gen = new.gen
      /\ ops'[o].deadline = new.deadline /\ ops'[o].reason = new.reason
  BY <1>p DEF WriteOperation, Operation
<1>s. \A p : SameTasks(p)
  BY DEF SameTasks
<1>f. \A p : /\ (AllDone(p)' <=> AllDone(p)) /\ (Stuck(p)' <=> Stuck(p))
             /\ MissingOutput(p)' <=> MissingOutput(p)
             /\ \A s, n : SlotDone(p, s, n)' <=> SlotDone(p, s, n)
  BY <1>s, SameTasksSameFacts
<1>2. ASSUME NEW t \in DOMAIN tasks PROVE Planned(t)' /\ Budgeted(t)' /\ Attempts(t)' = Attempts(t)
  <2>1. Planned(t) /\ Budgeted(t)
    BY DEF TaskInvariant
  <2>2. t.gen <= ops'[t.op].gen
    <3>1. t.gen \in Nat /\ ops[t.op].gen \in Nat /\ new.gen \in Nat /\ t.gen <= ops[t.op].gen
      BY <1>p, <2>1 DEF Planned, TaskId, Operation
    <3> QED
      BY <1>1, <1>p, <3>1
  <2>3. Planned(t)'
    BY <1>f, <2>1, <2>2 DEF Planned, EarlierDone
  <2>4. Budgeted(t)' /\ Attempts(t)' = Attempts(t)
    BY <2>1 DEF Budgeted, IsBase, Counted, Peers, Attempts
  <2> QED
    BY <2>3, <2>4
<1>3. ASSUME NEW p \in Ops PROVE VerdictSound(p)'
  <2>1. CASE p = o
    BY <1>1, <1>f, <2>1 DEF VerdictSound, Terminal
  <2>2. CASE p # o
    BY <1>1, <1>f, <2>2 DEF VerdictSound, Terminal, TaskInvariant
  <2> QED
    BY <2>1, <2>2
<1>4. ASSUME NEW d \in Ctrls PROVE WorkerPrepared(ctl[d])'
  <2>1. CASE ctl'[d] = IdleWorker
    BY <2>1, IdlePrepared
  <2>2. CASE ctl'[d].pc \in {"release", "idle"}
    BY <2>2 DEF WorkerPrepared
  <2>3. CASE ctl'[d] = ctl[d] /\ ctl[d].pc # "idle" /\ ctl[d].op # o
    <3>1. ctl[d].op \in Ops
      BY <2>3, TypeInvParts, BusyWorkerTyped
    <3> QED
      BY <1>1, <1>p, <1>s, <2>3, <3>1, RestingWorker
  <2>4. CASE /\ ctl'[d] = ctl[d] /\ ctl[d].op = o
             /\ \/ ctl[d].snap.phase \notin ActivePhases
                \/ new.gen = ops[o].gen /\ new.deadline = ops[o].deadline
    BY <1>1, <1>p, <1>s, <2>4, RestingWorker
  <2> QED
    BY <2>1, <2>2, <2>3, <2>4
<1>5. \A t \in DOMAIN tasks : \A u \in Attempts(t) : InSequence(t, u)'
  BY DEF TaskInvariant, InSequence
<1> QED
  BY <1>2, <1>3, <1>4, <1>5 DEF TaskInvariant

-----------------------------------------------------------------------------
(***************************************************************************)
(* What a worker finds in the list of tasks it read.                       *)
(***************************************************************************)

\* A success it sees is stored, and a node without active tasks in the list has
\* exactly the attempts the list shows.
LEMMA ViewFacts ==
    ASSUME NEW o, NEW view, ViewCurrent(o, view), NEW s, NEW n
    PROVE  /\ NodeTasks(view, s, n) = Slot(o, s, n)
           /\ NodeSucceeded(view, s, n) => SlotDone(o, s, n)
           /\ (\A t \in NodeTasks(view, s, n) : view[t].phase \in TerminalPhases) =>
                 /\ \A t \in NodeTasks(view, s, n) : view[t] = tasks[t]
                 /\ ~NodeSucceeded(view, s, n) => SlotLost(o, s, n)
<1>1. NodeTasks(view, s, n) = Slot(o, s, n)
  BY DEF NodeTasks, StepTasks, Slot, ViewCurrent
<1>2. \A t \in NodeTasks(view, s, n) : view[t].phase \in TerminalPhases => view[t] = tasks[t]
  BY DEF NodeTasks, StepTasks, ViewCurrent
<1>3. NodeSucceeded(view, s, n) => SlotDone(o, s, n)
  BY <1>1, <1>2 DEF NodeSucceeded, SlotDone, TerminalPhases
<1>4. ASSUME \A t \in NodeTasks(view, s, n) : view[t].phase \in TerminalPhases,
             ~NodeSucceeded(view, s, n)
      PROVE  SlotLost(o, s, n)
  BY <1>1, <1>2, <1>4 DEF NodeSucceeded, SlotLost, TerminalPhases, Lost
<1> QED
  BY <1>1, <1>2, <1>3, <1>4

\* Without active tasks the list is the truth.
LEMMA QuietView ==
    ASSUME TypeInv, NEW o \in Ops, NEW view, ViewCurrent(o, view), IsTaskMap(view),
           ActiveTasks(view) = {}
    PROVE  /\ view = TasksOf(o) /\ ActiveTasksOf(o) = {}
           /\ \A t \in DOMAIN view : view[t].phase \in TerminalPhases
           /\ ~Complete(o, view) => Stuck(o)
<1>1. \A t \in DOMAIN view : view[t].phase \in TerminalPhases /\ view[t] = tasks[t]
  BY DEF ActiveTasks, TasksIn, IsTaskMap, OperationTask, Phases, ViewCurrent
<1>2. view = TasksOf(o)
  BY <1>1 DEF IsTaskMap, TasksOf, ViewCurrent
<1>3. ActiveTasksOf(o) = {}
  BY <1>1 DEF ActiveTasksOf, Active, ViewCurrent, TerminalPhases, ActivePhases
<1>4. ASSUME ~Complete(o, view) PROVE Stuck(o)
  <2>1. PICK s \in DOMAIN Plan[o] : \E n \in Plan[o][s].targets : ~NodeSucceeded(view, s, n)
    BY <1>4 DEF Complete, IncompleteSteps, Incomplete
  <2>2. PICK n \in Plan[o][s].targets : ~NodeSucceeded(view, s, n)
    BY <2>1
  <2>3. SlotLost(o, s, n)
    BY <1>1, <2>2, ViewFacts DEF NodeTasks, StepTasks
  <2> QED
    BY <2>3 DEF Stuck
<1> QED
  BY <1>1, <1>2, <1>3, <1>4

-----------------------------------------------------------------------------
(***************************************************************************)
(* The reducer's choices.                                                  *)
(***************************************************************************)

\* currentStepFacts: the steps before the current one are complete.
LEMMA CurrentStepFirst ==
    ASSUME NEW o \in Ops, NEW view, ~Complete(o, view)
    PROVE  /\ CurrentStep(o, view) \in DOMAIN Plan[o]
           /\ Incomplete(o, view, CurrentStep(o, view)) # {}
           /\ \A s \in DOMAIN Plan[o] : s < CurrentStep(o, view) => Incomplete(o, view, s) = {}
<1>1. IncompleteSteps(o, view) \subseteq DOMAIN Plan[o] /\ DOMAIN Plan[o] \subseteq Nat
  BY PlanType DEF IncompleteSteps
<1>2. \E s \in IncompleteSteps(o, view) : \A r \in IncompleteSteps(o, view) : s <= r
  BY <1>1, LeastNatural DEF Complete
<1>3. /\ CurrentStep(o, view) \in IncompleteSteps(o, view)
      /\ \A r \in IncompleteSteps(o, view) : CurrentStep(o, view) <= r
  BY <1>2 DEF CurrentStep
<1>4. \A s \in DOMAIN Plan[o] : s < CurrentStep(o, view) => s \notin IncompleteSteps(o, view)
  BY <1>1, <1>3
<1> QED
  BY <1>1, <1>3, <1>4 DEF IncompleteSteps

\* nextAttempt's number is higher than every number the node has used.
LEMMA NextAttemptIsNew ==
    ASSUME NEW view, IsTaskMap(view), AttemptsBounded(view), NEW s, NEW n,
           NEW u \in NodeTasks(view, s, n)
    PROVE  u.attempt < NextAttempt(view, s, n)
<1> DEFINE mine == NodeTasks(view, s, n)
           T == {t.attempt : t \in mine}
<1>1. mine \subseteq DOMAIN view /\ mine \subseteq TaskId
  BY DEF NodeTasks, StepTasks, IsTaskMap
<1>2. T \subseteq Nat /\ T # {}
  BY <1>1 DEF TaskId
<1>3. PICK b \in Nat : \A t \in DOMAIN view : t.attempt <= b
  BY DEF AttemptsBounded
<1>4. \A k \in T : k <= b
  BY <1>1, <1>3
<1>5. PICK m \in T : \A k \in T : k <= m
  <2> HIDE DEF T
  <2> QED
    BY <1>2, <1>4, GreatestNatural
<1>6. \E t \in mine : \A v \in mine : v.attempt <= t.attempt
  BY <1>5
<1>7. /\ LatestTask(view, s, n) \in mine
      /\ \A v \in mine : v.attempt <= LatestTask(view, s, n).attempt
  BY <1>6 DEF LatestTask
<1>8. u.attempt \in Nat /\ LatestTask(view, s, n).attempt \in Nat
  BY <1>1, <1>7 DEF TaskId
<1> QED
  BY <1>7, <1>8 DEF NextAttempt

\* baseGeneration is the least generation of the node's tasks.
LEMMA BaseGenerationIsLeast ==
    ASSUME NEW view, IsTaskMap(view), NEW s, NEW n, NodeTasks(view, s, n) # {}
    PROVE  /\ BaseGeneration(view, s, n) \in Nat
           /\ \E t \in NodeTasks(view, s, n) : t.gen = BaseGeneration(view, s, n)
           /\ \A t \in NodeTasks(view, s, n) : BaseGeneration(view, s, n) <= t.gen
<1> DEFINE T == {t.gen : t \in NodeTasks(view, s, n)}
<1>1. T \subseteq Nat /\ T # {}
  BY DEF NodeTasks, StepTasks, IsTaskMap, TaskId
<1>2. PICK m \in T : \A k \in T : m <= k
  <2> HIDE DEF T
  <2> QED
    BY <1>1, LeastNatural
<1>3. /\ BaseGeneration(view, s, n) \in T
      /\ \A t \in NodeTasks(view, s, n) : BaseGeneration(view, s, n) <= t.gen
  BY <1>2 DEF BaseGeneration
<1> QED
  BY <1>1, <1>3

\* The facts a worker reads are never the ones that validateAndCurrentStep refuses.
LEMMA FactsAreValid ==
    ASSUME TypeInv, LockInvariant, TaskInvariant, NEW o \in Ops, NEW view,
           ViewCurrent(o, view)
    PROVE  ValidFacts(o, ops[o].gen, view)
<1>1. \A t \in DOMAIN view : t \in DOMAIN tasks /\ t.op = o /\ t \in TaskId
  BY TaskParts DEF ViewCurrent
<1>2. \A t \in DOMAIN view : /\ t.op = o /\ t.step \in DOMAIN Plan[o]
                             /\ t.node \in Plan[o][t.step].targets /\ t.gen <= ops[o].gen
  BY <1>1 DEF TaskInvariant, Planned
<1>3. ASSUME ~Complete(o, view), NEW t \in DOMAIN view PROVE t.step <= CurrentStep(o, view)
  <2> DEFINE s == CurrentStep(o, view)
  <2>1. s \in DOMAIN Plan[o] /\ Incomplete(o, view, s) # {}
    BY <1>3, CurrentStepFirst
  <2>2. s \in Nat /\ 1 <= s /\ t.step \in Nat
    BY <1>1, <2>1, PlanShape DEF TaskId
  <2>3. PICK n \in Plan[o][s].targets : ~NodeSucceeded(view, s, n)
    BY <2>1 DEF Incomplete
  <2>4. s \notin 1..(t.step - 1)
    BY <2>3 DEF ViewCurrent, ViewOrdered
  <2> HIDE DEF s
  <2>5. t.step <= s
    BY <2>2, <2>4
  <2> QED
    BY <2>5 DEF s
<1> QED
  BY <1>2, <1>3 DEF ValidFacts

\* An eligible node may get the task that createAttempts makes for it.
LEMMA EligibleMayCreate ==
    ASSUME TypeInv, LockInvariant, TaskInvariant, NEW o \in Ops, NEW view,
           ViewCurrent(o, view), IsTaskMap(view), AttemptsBounded(view),
           ~Complete(o, view), NEW n \in Incomplete(o, view, CurrentStep(o, view)),
           Eligible(o, ops[o].gen, view, CurrentStep(o, view), n)
    PROVE  LET s == CurrentStep(o, view)
           IN  MayCreate(TaskName(o, ops[o].gen, s, n, NextAttempt(view, s, n)))
<1> DEFINE s == CurrentStep(o, view)
           g == ops[o].gen
           mine == NodeTasks(view, s, n)
           t == TaskName(o, g, s, n, NextAttempt(view, s, n))
           limit == Plan[o][s].retryLimit
<1>t. t.op = o /\ t.gen = g /\ t.step = s /\ t.node = n /\ t.attempt = NextAttempt(view, s, n)
  BY DEF TaskName
<1>c. /\ s \in DOMAIN Plan[o] /\ n \in Plan[o][s].targets
      /\ \A r \in DOMAIN Plan[o] : r < s => Incomplete(o, view, r) = {}
  BY CurrentStepFirst DEF Incomplete
<1>l. limit \in Nat /\ g \in Nat
  BY <1>c, PlanShape, TaskParts DEF Operation
<1>e. /\ \A u \in mine : view[u].phase \notin ActivePhases \cup {"Succeeded"}
      /\ \/ mine = {}
         \/ /\ mine # {} /\ g = BaseGeneration(view, s, n)
            /\ ExecutedAttempts(view, s, n, BaseGeneration(view, s, n)) < 1 + limit
         \/ /\ mine # {} /\ g > BaseGeneration(view, s, n)
            /\ \A u \in mine : u.gen # g
  BY DEF Eligible
<1>1. Attempts(t) = mine /\ \A u \in mine : u \in DOMAIN tasks /\ u \in DOMAIN view
  BY <1>t DEF Attempts, NodeTasks, StepTasks, ViewCurrent
<1>2. ASSUME NEW u \in mine
      PROVE  /\ tasks[u] = view[u] /\ tasks[u].phase \in Lost
             /\ u.attempt < t.attempt /\ u.gen \in Nat /\ u.gen <= g
             /\ view[u].phase \in Phases
  <2>1. u \in DOMAIN view /\ u \in TaskId /\ view[u].phase \in Phases
    BY <1>1 DEF IsTaskMap, OperationTask
  <2>2. view[u].phase \in Lost /\ view[u].phase \in TerminalPhases
    BY <1>e, <2>1 DEF Phases, ActivePhases, TerminalPhases, Lost
  <2>3. tasks[u] = view[u]
    BY <2>1, <2>2 DEF ViewCurrent
  <2>4. u.attempt < t.attempt
    BY <1>t, NextAttemptIsNew
  <2>5. u.gen <= g
    BY <1>1, <2>1 DEF TaskInvariant, Planned, ViewCurrent
  <2> QED
    BY <2>1, <2>2, <2>3, <2>4, <2>5 DEF TaskId
<1>3. EarlierDone(t)
  <2> SUFFICES ASSUME NEW r \in 1..(s - 1), NEW m \in Plan[o][r].targets
               PROVE  SlotDone(o, r, m)
    BY <1>t DEF EarlierDone
  <2>1. r \in DOMAIN Plan[o] /\ r < s
    BY <1>c, PlanShape
  <2>2. NodeSucceeded(view, r, m)
    BY <1>c, <2>1 DEF Incomplete
  <2> QED
    BY <2>2, ViewFacts
<1>4. Planned(t) /\ t.gen = ops[t.op].gen
  BY <1>t, <1>c, <1>l, <1>3 DEF Planned
<1>5. CASE IsBase(t)
  <2>1. \A u \in mine : u.gen = g
    BY <1>1, <1>2, <1>5, <1>l, <1>t DEF IsBase
  <2>2. CASE mine = {}
    <3>1. Counted(t) = {}
      BY <1>1, <2>2 DEF Counted, Peers
    <3> QED
      BY <3>1, <1>1, <1>2, <1>4, <1>5, <1>l, <1>t, FS_EmptySet DEF MayCreate
  <2>3. CASE mine # {}
    <3>1. g = BaseGeneration(view, s, n)
      BY <2>1, <2>3, BaseGenerationIsLeast
    <3>2. ExecutedAttempts(view, s, n, g) < 1 + limit
      BY <1>e, <1>l, <2>3, <3>1
    <3>3. Counted(t) = {u \in mine : u.gen = g /\ view[u].phase \in Phases \ {"Pending", "Canceled"}}
      BY <1>1, <1>2, <1>t DEF Counted, Peers, Lost
    <3>4. Cardinality(Counted(t)) < 1 + limit
      BY <3>2, <3>3 DEF ExecutedAttempts
    <3>5. Cardinality(Counted(t)) \in Nat
      <4>1. IsFiniteSet(DOMAIN tasks) /\ Counted(t) \subseteq DOMAIN tasks
        BY TaskParts DEF Counted, Peers, Attempts
      <4> QED
        BY <4>1, FS_Subset, FS_CardinalityType
    <3>6. Cardinality(Counted(t)) <= limit
      BY <1>l, <3>4, <3>5
    <3> QED
      BY <1>1, <1>2, <1>4, <1>5, <1>t, <3>6 DEF MayCreate
  <2> QED
    BY <2>2, <2>3
<1>6. CASE ~IsBase(t)
  <2>1. PICK u \in mine : ~(g <= u.gen)
    BY <1>1, <1>6, <1>t DEF IsBase
  <2>2. BaseGeneration(view, s, n) <= u.gen /\ BaseGeneration(view, s, n) \in Nat
    BY <2>1, BaseGenerationIsLeast
  <2>3. g # BaseGeneration(view, s, n)
    BY <1>2, <1>l, <2>1, <2>2
  <2>4. \A v \in mine : v.gen # g
    BY <1>e, <2>1, <2>3
  <2>5. Peers(t) = {}
    BY <1>1, <1>t, <2>4 DEF Peers
  <2> QED
    BY <1>1, <1>2, <1>4, <1>6, <2>5 DEF MayCreate
<1> QED
  BY <1>5, <1>6

-----------------------------------------------------------------------------
(***************************************************************************)
(* What Reconcile decides under the lock.                                  *)
(***************************************************************************)
DecisionPrepared(o, d) ==
    /\ d.pc \notin {"listOps", "acquire", "finishWrite"}
    /\ d.pc = "create" => /\ \A t \in d.todo : MayCreate(t)
                          /\ \A t, u \in d.todo : t # u => t.node # u.node
    /\ d.pc = "finishList" =>
          /\ d.goal.phase # "Succeeded" => Stuck(o)
          /\ d.goal.reason = "InvalidExecutionFacts" =>
                d.goal.phase = "Failed" /\ ActiveTasksOf(o) = {} /\ MissingOutput(o)

\* Returning and the loops that only end tasks need nothing.
LEMMA PlainDecisions ==
    ASSUME NEW o
    PROVE  /\ DecisionPrepared(o, Return)
           /\ \A pc \in {"cancel", "timeout", "relist", "start"} : \A todo :
                 DecisionPrepared(o, Loop(pc, todo))
           /\ DecisionPrepared(o, Finish("Succeeded", ""))
           /\ Stuck(o) => \A phase \in TerminalPhases, reason \in Reasons \ {"InvalidExecutionFacts"} :
                             DecisionPrepared(o, Finish(phase, reason))
           /\ Stuck(o) /\ ActiveTasksOf(o) = {} /\ MissingOutput(o) =>
                 DecisionPrepared(o, Finish("Failed", "InvalidExecutionFacts"))
BY DEF DecisionPrepared, Return, Loop, Finish, NoGoal

\* The ends of reconcileCancellation and reconcileDeadline.
LEMMA ConcludePrepared ==
    ASSUME TypeInv, LockInvariant, TaskInvariant, NEW o \in Ops, NEW op, op.gen = ops[o].gen,
           NEW view, ViewCurrent(o, view), IsTaskMap(view), ActiveTasks(view) = {},
           NEW phase \in TerminalPhases, NEW reason \in Reasons \ {"InvalidExecutionFacts"}
    PROVE  DecisionPrepared(o, Conclude(o, op, view, phase, reason))
<1>1. ValidFacts(o, op.gen, view)
  BY FactsAreValid
<1>2. ~Complete(o, view) => Stuck(o)
  BY QuietView
<1> QED
  BY <1>1, <1>2, PlainDecisions DEF Conclude

\* createAttempts, when no task of the current step is active.
LEMMA CreateAttemptsPrepared ==
    ASSUME TypeInv, LockInvariant, TaskInvariant, NEW o \in Ops, NEW op, op.gen = ops[o].gen,
           NEW view, ViewCurrent(o, view), IsTaskMap(view), AttemptsBounded(view),
           ~Complete(o, view),
           StepTasks(view, CurrentStep(o, view)) \cap ActiveTasks(view) = {}
    PROVE  DecisionPrepared(o, CreateAttempts(o, op, view, CurrentStep(o, view)))
<1> DEFINE s == CurrentStep(o, view)
           todo == {TaskName(o, op.gen, s, n, NextAttempt(view, s, n)) :
                        n \in Incomplete(o, view, s)}
<1>1. CASE \E n \in Incomplete(o, view, s) : ~Eligible(o, op.gen, view, s, n)
  <2>1. PICK n \in Incomplete(o, view, s) : TRUE
    BY <1>1
  <2>2. s \in DOMAIN Plan[o] /\ n \in Plan[o][s].targets /\ ~NodeSucceeded(view, s, n)
    BY CurrentStepFirst DEF Incomplete
  <2>3. \A t \in NodeTasks(view, s, n) : view[t].phase \in TerminalPhases
    BY DEF NodeTasks, StepTasks, ActiveTasks, TasksIn, IsTaskMap, OperationTask, Phases
  <2>4. SlotLost(o, s, n)
    BY <2>2, <2>3, ViewFacts
  <2>5. Stuck(o)
    BY <2>2, <2>4 DEF Stuck
  <2>6. DecisionPrepared(o, Finish("Failed", "StepFailed"))
    BY <2>5, PlainDecisions DEF TerminalPhases, Reasons
  <2> QED
    BY <1>1, <2>6 DEF CreateAttempts
<1>2. CASE ~PayloadReady(o, view, s)
  <2>1. CASE ActiveTasks(view) # {}
    <3>1. RunningTasks(view) # {} \/ PendingTasks(view) # {}
      BY <2>1 DEF ActiveTasks, RunningTasks, PendingTasks, TasksIn, ActivePhases
    <3> QED
      BY <1>1, <1>2, <3>1, PlainDecisions DEF CreateAttempts, FailInvalidFacts
  <2>2. CASE ActiveTasks(view) = {}
    <3>1. view = TasksOf(o) /\ ActiveTasksOf(o) = {} /\ Stuck(o)
      BY <2>2, QuietView
    <3>2. MissingOutput(o)
      BY <1>2, <3>1 DEF MissingOutput
    <3>3. FailInvalidFacts(view) = Finish("Failed", "InvalidExecutionFacts")
      BY <2>2 DEF FailInvalidFacts, ActiveTasks, RunningTasks, PendingTasks, TasksIn, ActivePhases
    <3> QED
      BY <1>1, <1>2, <3>1, <3>2, <3>3, PlainDecisions DEF CreateAttempts
  <2> QED
    BY <2>1, <2>2
<1>3. CASE /\ PayloadReady(o, view, s)
           /\ \A n \in Incomplete(o, view, s) : Eligible(o, op.gen, view, s, n)
  <2>1. \A t \in todo : MayCreate(t)
    BY <1>3, EligibleMayCreate
  <2>2. ASSUME NEW t \in todo, NEW u \in todo, t.node = u.node PROVE t = u
    BY <2>2 DEF TaskName
  <2>3. CreateAttempts(o, op, view, s) = Loop("create", todo)
    BY <1>3 DEF CreateAttempts
  <2>4. Loop("create", todo).pc = "create" /\ Loop("create", todo).todo = todo
    BY DEF Loop
  <2> HIDE DEF todo
  <2> QED
    BY <2>1, <2>2, <2>3, <2>4 DEF DecisionPrepared
<1> QED
  BY <1>1, <1>2, <1>3

\* reconcileLockedOperation.
LEMMA ReconcileLockedPrepared ==
    ASSUME TypeInv, LockInvariant, TaskInvariant, NEW o \in Ops, NEW op, op.phase = ops[o].phase,
           op.phase \in ActivePhases => op.gen = ops[o].gen /\ op.deadline = ops[o].deadline,
           NEW view, ViewCurrent(o, view), IsTaskMap(view), AttemptsBounded(view), NEW now
    PROVE  DecisionPrepared(o, ReconcileLocked(o, op, view, now))
<1> DEFINE s == CurrentStep(o, view)
<1>1. CASE RetryRequested(op) \/ op.phase = "Pending" \/ op.phase # "Running"
  BY <1>1, PlainDecisions DEF ReconcileLocked
<1>2. CASE ~RetryRequested(op) /\ op.phase = "Running"
  <2>1. op.gen = ops[o].gen /\ op.deadline # NoDeadline
    BY <1>2 DEF ActivePhases, TaskInvariant, VerdictSound
  <2>2. ValidFacts(o, op.gen, view)
    BY <2>1, FactsAreValid
  <2>3. PendingTasks(view) = {} /\ RunningTasks(view) = {} => ActiveTasks(view) = {}
    BY DEF ActiveTasks, RunningTasks, PendingTasks, TasksIn, ActivePhases
  <2>4. DecisionPrepared(o, ReconcileDeadline(o, op, view, now))
    BY <2>1, <2>3, PlainDecisions, ConcludePrepared DEF ReconcileDeadline, TerminalPhases, Reasons
  <2>5. DecisionPrepared(o, ReconcileCancellation(o, op, view))
    BY <2>1, <2>3, PlainDecisions, ConcludePrepared DEF ReconcileCancellation, TerminalPhases, Reasons
  <2>6. DecisionPrepared(o, ReconcileRunning(o, op, view))
    <3>1. CASE Complete(o, view) \/ op.desired = "Canceled"
      BY <2>2, <2>5, <3>1, PlainDecisions DEF ReconcileRunning
    <3>2. CASE ~Complete(o, view) /\ op.desired # "Canceled"
      <4>1. StepTasks(view, s) \cap ActiveTasks(view) = {} =>
               DecisionPrepared(o, CreateAttempts(o, op, view, s))
        BY <2>1, <3>2, CreateAttemptsPrepared
      <4> QED
        BY <2>2, <3>2, <4>1, PlainDecisions DEF ReconcileRunning
    <3> QED
      BY <3>1, <3>2
  <2> QED
    BY <1>2, <2>1, <2>4, <2>6 DEF ReconcileLocked
<1> QED
  BY <1>1, <1>2

-----------------------------------------------------------------------------
(***************************************************************************)
(* The steps of a worker.                                                  *)
(***************************************************************************)

\* The list a worker has just read is current.
LEMMA FreshView ==
    ASSUME TypeInv, LockInvariant, TaskInvariant, NEW o \in Ops
    PROVE  ViewCurrent(o, TasksOf(o))
<1>1. /\ DOMAIN TasksOf(o) = {u \in DOMAIN tasks : u.op = o}
      /\ \A u \in DOMAIN TasksOf(o) : TasksOf(o)[u] = tasks[u]
  BY DEF TasksOf
<1>2. ASSUME NEW s, NEW n, SlotDone(o, s, n) PROVE NodeSucceeded(TasksOf(o), s, n)
  BY <1>1, <1>2 DEF SlotDone, Slot, NodeSucceeded, NodeTasks, StepTasks
<1>3. ViewOrdered(o, TasksOf(o))
  BY <1>1, <1>2 DEF ViewOrdered, TaskInvariant, Planned, EarlierDone
<1> QED
  BY <1>1, <1>3 DEF ViewCurrent

\* A worker follows a decision.
LEMMA FollowPrepared ==
    ASSUME TypeInv, LockInvariant, TaskInvariant, UNCHANGED <<ops, tasks>>,
           NEW c \in Ctrls, Busy(c), ctl[c].pc # "release",
           NEW w \in [pc : Pcs, op : Ops, snap : Operation, view : {ctl[c].view, TasksOf(ctl[c].op)},
                      todo : SUBSET TaskId, goal : Goal, lockUID : Nat],
           w.op = ctl[c].op, w.snap = ctl[c].snap,
           NEW d, DecisionPrepared(ctl[c].op, d), Follow(c, w, d)
    PROVE  TaskInvariant'
<1>1. WorkerPrepared(ctl[c])
  BY DEF TaskInvariant
<1>2. CASE d.pc = "idle"
  <2>1. WorkerPrepared(IdleWorker)
    BY IdleFields DEF WorkerPrepared
  <2> QED
    BY <1>2, <2>1, MoveTasks DEF Follow
<1>3. CASE d.pc # "idle"
  <2> DEFINE v == [w EXCEPT !.pc = d.pc, !.todo = d.todo, !.goal = d.goal, !.view = NoTasks]
  <2>1. /\ v.pc = d.pc /\ v.todo = d.todo /\ v.goal = d.goal /\ v.op = ctl[c].op
        /\ v.snap = ctl[c].snap
    OBVIOUS
  <2>2. Become(c, v)
    BY <1>3 DEF Follow
  <2> HIDE DEF v
  <2>3. WorkerPrepared(v)
    BY <1>1, <2>1 DEF WorkerPrepared, DecisionPrepared, Busy
  <2> QED
    BY <2>2, <2>3, MoveTasks
<1> QED
  BY <1>2, <1>3

\* A worker goes to a step that relies on nothing but its copy.
LEMMA GotoPrepared ==
    ASSUME TypeInv, LockInvariant, TaskInvariant, UNCHANGED <<ops, tasks>>,
           NEW c \in Ctrls, Busy(c), ctl[c].pc # "release",
           NEW pc \in {"relist", "unlock", "skipRetry", "reopen", "getLock", "release"},
           NEW w, w.pc = pc, w.op = ctl[c].op, w.snap = ctl[c].snap, Become(c, w)
    PROVE  TaskInvariant'
<1>1. WorkerPrepared(ctl[c])
  BY DEF TaskInvariant
<1>2. WorkerPrepared(w)
  BY <1>1 DEF WorkerPrepared, Busy
<1> QED
  BY <1>2, MoveTasks

\* A worker returns.
LEMMA DonePrepared ==
    ASSUME TypeInv, TaskInvariant, NEW c \in Ctrls, UNCHANGED <<ops, tasks>>, Done(c)
    PROVE  TaskInvariant'
<1>1. WorkerPrepared(IdleWorker)
  BY IdleFields DEF WorkerPrepared
<1> QED
  BY <1>1, MoveTasks DEF Done

\* The reads and the steps on locks.
LEMMA ReadStepsPrepared ==
    ASSUME TypeInv, LockInvariant, TaskInvariant, NEW c \in Ctrls,
           \/ ListTasks(c) \/ ListOperations(c) \/ AcquireLockStep(c)
           \/ RetryStillLatest(c) \/ UnlockSkippedRetry(c) \/ FinishList(c)
           \/ GetLock(c) \/ ReleaseTerminalLock(c) \/ Abort(c)
    PROVE  TaskInvariant'
<1> DEFINE o == ctl[c].op
<1>u. UNCHANGED <<ops, tasks>>
  BY DEF ListTasks, ListOperations, AcquireLockStep, RetryStillLatest, UnlockSkippedRetry,
         FinishList, GetLock, ReleaseTerminalLock, Abort, AcquireLock, ReleaseLock, storeVars
<1>b. Busy(c)
  BY DEF ListTasks, ListOperations, AcquireLockStep, RetryStillLatest, UnlockSkippedRetry,
         FinishList, GetLock, ReleaseTerminalLock, Abort, At, Busy
<1>w. /\ ctl[c] \in [pc : Pcs, op : Ops, snap : Operation, view : {ctl[c].view},
                     todo : SUBSET TaskId, goal : Goal, lockUID : Nat]
      /\ IsTaskMap(ctl[c].view) /\ AttemptsBounded(ctl[c].view)
      /\ WorkerKnows(ctl[c]) /\ WorkerPrepared(ctl[c])
  BY <1>b, TypeInvParts, BusyWorkerTyped DEF WorkersTyped, ControllerTypeOK, WorkerOK, Busy,
                                             LockInvariant, TaskInvariant
<1>1. CASE ListTasks(c)
  <2> DEFINE w == [ctl[c] EXCEPT !.view = TasksOf(o)]
  <2>1. /\ w \in [pc : Pcs, op : Ops, snap : Operation, view : {ctl[c].view, TasksOf(o)},
                  todo : SUBSET TaskId, goal : Goal, lockUID : Nat]
        /\ w.op = o /\ w.snap = ctl[c].snap /\ w.view = TasksOf(o)
    BY <1>w
  <2>2. /\ ctl[c].pc = "listTasks"
        /\ \/ Follow(c, w, Return) \/ Follow(c, w, Loop("getLock", {}))
           \/ Become(c, [w EXCEPT !.pc = "listOps"])
    BY <1>1 DEF ListTasks, At
  <2>3. DecisionPrepared(o, Return) /\ DecisionPrepared(o, Loop("getLock", {}))
    BY DEF DecisionPrepared, Return, Loop
  <2>4. CASE Become(c, [w EXCEPT !.pc = "listOps"])
    <3> DEFINE v == [w EXCEPT !.pc = "listOps"]
    <3>1. v.pc = "listOps" /\ v.op = o /\ v.snap = ctl[c].snap /\ v.view = TasksOf(o)
      BY <2>1
    <3> HIDE DEF v, w
    <3>2. WorkerPrepared(v)
      BY <1>w, <2>2, <3>1, FreshView DEF WorkerPrepared
    <3> QED
      BY <1>u, <2>4, <3>2, MoveTasks DEF v
  <2> HIDE DEF w
  <2> QED
    BY <1>b, <1>u, <2>1, <2>2, <2>3, <2>4, FollowPrepared DEF w
<1>2. CASE ListOperations(c)
  <2>1. /\ ctl[c].pc = "listOps"
        /\ \/ Follow(c, ctl[c], Loop("skipRetry", {})) \/ Done(c)
           \/ /\ DOMAIN ctl[c].view = {}
              /\ Follow(c, ctl[c], Finish("Canceled", "CancelledByRequest"))
           \/ Goto(c, "acquire")
    BY <1>2 DEF ListOperations, At
  <2>2. ViewCurrent(o, ctl[c].view)
    BY <1>w, <2>1 DEF WorkerPrepared
  <2>3. DecisionPrepared(o, Loop("skipRetry", {}))
    BY DEF DecisionPrepared, Loop
  <2>4. DOMAIN ctl[c].view = {} => Stuck(o)
    <3>1. 1 \in DOMAIN Plan[o] /\ Plan[o][1].targets # {}
      BY <1>w, PlanShape
    <3> QED
      BY <2>2, <3>1 DEF Stuck, SlotLost, Slot, ViewCurrent
  <2>5. DOMAIN ctl[c].view = {} => DecisionPrepared(o, Finish("Canceled", "CancelledByRequest"))
    BY <2>4, PlainDecisions DEF TerminalPhases, Reasons
  <2>6. CASE Goto(c, "acquire")
    <3> DEFINE v == [ctl[c] EXCEPT !.pc = "acquire"]
    <3>1. v.pc = "acquire" /\ v.op = o /\ v.snap = ctl[c].snap /\ v.view = ctl[c].view
      BY <1>w
    <3> HIDE DEF v
    <3>2. WorkerPrepared(v)
      BY <1>w, <2>1, <2>2, <3>1 DEF WorkerPrepared
    <3> QED
      BY <1>u, <2>6, <3>2, MoveTasks DEF v, Goto
  <2> QED
    BY <1>b, <1>u, <1>w, <2>1, <2>3, <2>5, <2>6, FollowPrepared, DonePrepared
<1>3. CASE AcquireLockStep(c)
  <2>1. CASE CanAcquireLock(o)
    <3> DEFINE w == [ctl[c] EXCEPT !.lockUID = lock'[TargetOf[o]].uid]
    <3>1. lock'[TargetOf[o]].uid \in Nat
      <4>1. lock \in [Targets -> Lock] /\ TargetOf[o] \in Targets
        BY <1>w, TypeInvParts, ConstantsAssumption DEF StoreTyped, StoreTypeOK
      <4> QED
        BY <1>3, <2>1, <4>1 DEF AcquireLockStep, AcquireLock, Lock
    <3>2. /\ w \in [pc : Pcs, op : Ops, snap : Operation, view : {ctl[c].view, TasksOf(o)},
                    todo : SUBSET TaskId, goal : Goal, lockUID : Nat]
          /\ w.op = o /\ w.snap = ctl[c].snap /\ w.view = ctl[c].view
      BY <1>w, <3>1
    <3>3. /\ ctl[c].pc = "acquire"
          /\ Follow(c, w, ReconcileLocked(w.op, w.snap, w.view, clock[w.op]))
      BY <1>3, <2>1 DEF AcquireLockStep, At
    <3> HIDE DEF w
    <3>4. /\ ViewCurrent(o, ctl[c].view) /\ ctl[c].snap.phase = ops[o].phase
          /\ ctl[c].snap.phase \in ActivePhases =>
                ctl[c].snap.gen = ops[o].gen /\ ctl[c].snap.deadline = ops[o].deadline
      BY <1>w, <3>3 DEF WorkerPrepared, WorkerKnows
    <3>5. DecisionPrepared(o, ReconcileLocked(w.op, w.snap, w.view, clock[w.op]))
      BY <1>w, <3>2, <3>4, ReconcileLockedPrepared
    <3> QED
      BY <1>b, <1>u, <3>2, <3>3, <3>5, FollowPrepared
  <2>2. CASE ~CanAcquireLock(o)
    BY <1>3, <1>u, <2>2, DonePrepared DEF AcquireLockStep
  <2> QED
    BY <2>1, <2>2
<1>4. ASSUME NEW pc \in Pcs, Goto(c, pc)
      PROVE  \E w : w.pc = pc /\ w.op = o /\ w.snap = ctl[c].snap /\ w.goal = ctl[c].goal
                    /\ Become(c, w)
  <2> DEFINE v == [ctl[c] EXCEPT !.pc = pc]
  <2>1. v.pc = pc /\ v.op = o /\ v.snap = ctl[c].snap /\ v.goal = ctl[c].goal
    BY <1>w
  <2>2. Become(c, v)
    BY <1>4 DEF Goto
  <2> QED
    BY <2>1, <2>2
<1>5. CASE RetryStillLatest(c) \/ UnlockSkippedRetry(c)
  <2>1. /\ ctl[c].pc \in {"relist", "unlock"}
        /\ \/ Done(c) \/ Goto(c, "reopen") \/ Goto(c, "unlock") \/ Goto(c, "skipRetry")
    BY <1>5 DEF RetryStillLatest, UnlockSkippedRetry, At
  <2> QED
    BY <1>4, <1>b, <1>u, <2>1, GotoPrepared, DonePrepared DEF Pcs
<1>6. CASE FinishList(c)
  <2>1. /\ ctl[c].pc = "finishList"
        /\ \/ Done(c)
           \/ /\ Goto(c, "finishWrite")
              /\ ctl[c].goal.phase = "Succeeded" => Complete(o, TasksOf(o))
    BY <1>6 DEF FinishList, At
  <2>2. CASE Goto(c, "finishWrite") /\ (ctl[c].goal.phase = "Succeeded" => Complete(o, TasksOf(o)))
    <3>1. PICK v : /\ v.pc = "finishWrite" /\ v.op = o /\ v.snap = ctl[c].snap
                   /\ v.goal = ctl[c].goal /\ Become(c, v)
      BY <1>4, <2>2 DEF Pcs
    <3>2. WorkerPrepared(v)
      BY <1>w, <2>1, <2>2, <3>1, CompleteMeans DEF WorkerPrepared
    <3> QED
      BY <1>u, <3>1, <3>2, MoveTasks
  <2> QED
    BY <1>u, <2>1, <2>2, DonePrepared
<1>7. CASE GetLock(c)
  <2> DEFINE v == [ctl[c] EXCEPT !.pc = "release", !.lockUID = lock[TargetOf[o]].uid]
  <2>1. ctl[c].pc = "getLock" /\ (Done(c) \/ Become(c, v))
    BY <1>7 DEF GetLock, At
  <2>2. v.pc = "release" /\ v.op = o /\ v.snap = ctl[c].snap
    BY <1>w
  <2> HIDE DEF v
  <2> QED
    BY <1>b, <1>u, <2>1, <2>2, GotoPrepared, DonePrepared
<1>8. CASE ReleaseTerminalLock(c) \/ Abort(c)
  BY <1>8, <1>u, DonePrepared DEF ReleaseTerminalLock, Abort
<1> QED
  BY <1>1, <1>2, <1>3, <1>5, <1>6, <1>7, <1>8

\* The loops over tasks.
LEMMA LoopStepsPrepared ==
    ASSUME TypeInv, LockInvariant, TaskInvariant, NEW c \in Ctrls, NEW t \in ctl[c].todo,
           CancelPendingTask(c, t) \/ TimeoutRunningTask(c, t) \/ CreateAttempt(c, t)
    PROVE  TaskInvariant'
<1>b. Busy(c) /\ ctl[c].pc \in {"cancel", "timeout", "create"}
  BY DEF CancelPendingTask, TimeoutRunningTask, CreateAttempt, TerminateTask, At, Busy
<1>w. ctl[c] \in [pc : Pcs, op : Ops, snap : Operation, view : {ctl[c].view},
                  todo : SUBSET TaskId, goal : Goal, lockUID : Nat]
  BY <1>b, TypeInvParts, BusyWorkerTyped DEF WorkersTyped, ControllerTypeOK, WorkerOK, Busy
<1>n. ASSUME NextOf(c, t)
      PROVE  /\ \A d \in Ctrls \ {c} : ctl'[d] = ctl[d]
             /\ \/ ctl'[c] = IdleWorker
                \/ /\ ctl'[c].pc = ctl[c].pc /\ ctl'[c].op = ctl[c].op
                   /\ ctl'[c].snap = ctl[c].snap /\ ctl'[c].todo = ctl[c].todo \ {t}
  <2>1. /\ \A d \in Ctrls \ {c} : ctl'[d] = ctl[d]
        /\ ctl'[c] = IdleWorker \/ ctl'[c] = [ctl[c] EXCEPT !.todo = ctl[c].todo \ {t}]
    BY <1>n, TypeInvParts DEF NextOf, Done, Become, WorkersTyped, ControllerTypeOK
  <2> QED
    BY <1>w, <2>1
<1>1. ASSUME NEW expected \in ActivePhases, NEW phase, CanUpdateTask(t, expected),
             UpdateTask(t, phase, FALSE), NextOf(c, t), ctl[c].pc \in {"cancel", "timeout"}
      PROVE  TaskInvariant'
  <2>1. /\ UNCHANGED ops /\ DOMAIN tasks' = DOMAIN tasks /\ t \in DOMAIN tasks /\ Active(t)
        /\ \A u \in DOMAIN tasks : u # t => tasks'[u] = tasks[u]
    BY <1>1 DEF UpdateTask, CanUpdateTask, Active
  <2> QED
    BY <1>1, <1>n, <2>1, AdvanceKeeps
<1>2. CASE CancelPendingTask(c, t) \/ TimeoutRunningTask(c, t)
  BY <1>1, <1>2, DonePrepared
     DEF CancelPendingTask, TimeoutRunningTask, TerminateTask, ActivePhases, At, storeVars
<1>3. CASE CreateAttempt(c, t)
  BY <1>3, <1>n, CreateTaskKeeps DEF CreateAttempt, At
<1> QED
  BY <1>2, <1>3

\* The four status writes.
LEMMA WriteStepsPrepared ==
    ASSUME TypeInv, LockInvariant, OrderInvariant, TaskInvariant, NEW c \in Ctrls,
           SkipRetry(c) \/ ReopenForRetry(c) \/ StartOperation(c) \/ FinishWrite(c)
    PROVE  TaskInvariant'
<1> DEFINE o == ctl[c].op
           op == ctl[c].snap
<1>b. Busy(c) /\ ctl[c].pc \in {"skipRetry", "reopen", "start", "finishWrite"}
  BY DEF Busy, At, SkipRetry, ReopenForRetry, StartOperation, FinishWrite
<1>w. /\ ctl[c] \in [pc : Pcs, op : Ops, snap : Operation, view : {ctl[c].view},
                      todo : SUBSET TaskId, goal : Goal, lockUID : Nat]
      /\ WorkerKnows(ctl[c]) /\ WorkerInOrder(ctl[c]) /\ WorkerPrepared(ctl[c])
      /\ \A d \in Ctrls \ {c} : ctl[d].op # ctl[c].op
      /\ VerdictSound(o) /\ op.phase # "Absent"
  BY <1>b, BusyFacts DEF TaskInvariant, WorkerKnows
<1>r. ASSUME NEW new, WriteStatus(c, new), ~CanUpdateStatus(o, op, new), Done(c)
      PROVE  TaskInvariant'
  BY <1>r, <1>b, DonePrepared DEF WriteStatus, storeVars
<1>s. ASSUME NEW new \in Operation, WriteStatus(c, new), CanUpdateStatus(o, op, new),
             Done(c) \/ Goto(c, "release"), new.gen = op.gen, new.phase # "Absent",
             new.phase = "Running" => new.deadline # NoDeadline,
             new.phase \in TerminalPhases =>
                IF new.phase = "Succeeded" THEN AllDone(o) ELSE Stuck(o),
             new.reason = "InvalidExecutionFacts" =>
                new.phase \in TerminalPhases /\ MissingOutput(o)
      PROVE  TaskInvariant'
  <2>1. op = ops[o] /\ ops[o].gen \in Nat
    BY <1>b, <1>s, <1>w DEF CanUpdateStatus, WorkerInOrder, Busy, Operation
  <2>2. /\ \A d \in Ctrls \ {c} : ctl'[d] = ctl[d]
        /\ ctl'[c] = IdleWorker \/ ctl'[c] = [ctl[c] EXCEPT !.pc = "release"]
    BY <1>s, TypeInvParts DEF Done, Goto, Become, WorkersTyped, ControllerTypeOK
  <2>3. \A d \in Ctrls : \/ ctl'[d] = IdleWorker \/ ctl'[d].pc = "release"
                         \/ ctl'[d] = ctl[d] /\ ctl[d].op # o
    BY <1>w, <2>2
  <2>4. WriteOperation(o, new) /\ UNCHANGED tasks
    BY <1>s DEF WriteStatus, UpdateOperationStatus
  <2>5. ops[o].gen <= new.gen
    BY <1>s, <2>1
  <2> QED
    BY <1>s, <1>w, <2>3, <2>4, <2>5, WriteKeeps
<1>1. CASE SkipRetry(c)
  <2> DEFINE new == [op EXCEPT !.observed = op.gen]
  <2>1. WriteStatus(c, new) /\ Done(c)
    BY <1>1 DEF SkipRetry
  <2>2. /\ new \in Operation /\ new.gen = op.gen /\ new.phase = op.phase
        /\ new.deadline = op.deadline /\ new.reason = op.reason
    BY <1>w DEF Operation
  <2> HIDE DEF new
  <2>3. CASE CanUpdateStatus(o, op, new)
    <3>1. op = ops[o]
      BY <1>b, <1>w, <2>3 DEF CanUpdateStatus, WorkerInOrder, Busy
    <3> QED
      BY <1>s, <1>w, <2>1, <2>2, <2>3, <3>1 DEF VerdictSound, Terminal
  <2> QED
    BY <1>r, <2>1, <2>3
<1>2. CASE ReopenForRetry(c)
  <2> DEFINE new == [op EXCEPT !.phase = "Pending", !.reason = "",
                               !.observed = op.gen, !.deadline = NoDeadline]
  <2>1. WriteStatus(c, new) /\ Done(c)
    BY <1>2 DEF ReopenForRetry
  <2>2. new \in Operation /\ new.gen = op.gen /\ new.phase = "Pending" /\ new.reason = ""
    BY <1>w DEF Operation, Phases, ActivePhases, Reasons
  <2> HIDE DEF new
  <2> QED
    BY <1>r, <1>s, <2>1, <2>2 DEF TerminalPhases
<1>3. CASE StartOperation(c)
  <2> DEFINE new == [op EXCEPT !.phase = "Running", !.observed = op.gen,
                               !.deadline = op.gen, !.reason = ""]
  <2>1. WriteStatus(c, new) /\ Done(c)
    BY <1>3 DEF StartOperation
  <2>2. /\ new \in Operation /\ new.gen = op.gen /\ new.phase = "Running" /\ new.reason = ""
        /\ new.deadline = op.gen /\ op.gen \in Nat
    BY <1>w DEF Operation, Phases, ActivePhases, Reasons
  <2>3. new.deadline # NoDeadline
    BY <2>2 DEF NoDeadline
  <2> HIDE DEF new
  <2> QED
    BY <1>r, <1>s, <2>1, <2>2, <2>3 DEF TerminalPhases
<1>4. CASE FinishWrite(c)
  <2> DEFINE new == [op EXCEPT !.phase = ctl[c].goal.phase, !.reason = ctl[c].goal.reason,
                               !.observed = op.gen]
  <2>1. /\ ctl[c].pc = "finishWrite" /\ WriteStatus(c, new)
        /\ \/ Goto(c, "release") /\ CanUpdateStatus(o, op, new)
           \/ Done(c)
    BY <1>4 DEF FinishWrite, At
  <2>2. /\ new \in Operation /\ new.gen = op.gen /\ new.phase = ctl[c].goal.phase
        /\ new.reason = ctl[c].goal.reason /\ new.phase \in TerminalPhases
    BY <1>w, <2>1 DEF WorkerKnows, Operation, Goal, Phases
  <2>3. /\ IF new.phase = "Succeeded" THEN AllDone(o) ELSE Stuck(o)
        /\ new.reason = "InvalidExecutionFacts" => MissingOutput(o)
    BY <1>w, <2>1, <2>2 DEF WorkerPrepared
  <2> HIDE DEF new
  <2> QED
    BY <1>r, <1>s, <2>1, <2>2, <2>3 DEF TerminalPhases
<1> QED
  BY <1>1, <1>2, <1>3, <1>4

\* The workqueue hands out an operation.
LEMMA GetOperationPrepared ==
    ASSUME TypeInv, TaskInvariant, NEW c \in Ctrls, NEW o \in Ops, GetOperation(c, o)
    PROVE  TaskInvariant'
<1> DEFINE w == [IdleWorker EXCEPT !.pc = "listTasks", !.op = o, !.snap = ops[o]]
<1>1. Become(c, w) /\ UNCHANGED <<ops, tasks>>
  BY DEF GetOperation, storeVars
<1>2. w.pc = "listTasks" /\ w.op = o /\ w.snap = ops[o]
  BY DEF IdleWorker
<1> HIDE DEF w
<1>3. WorkerPrepared(w)
  BY <1>2 DEF WorkerPrepared
<1> QED
  BY <1>1, <1>3, MoveTasks

-----------------------------------------------------------------------------
\* The handlers, the agents and the clock.
LEMMA APIStepPrepared ==
    ASSUME TypeInv, LockInvariant, TaskInvariant, NEW o \in Ops, APIStep(o), UNCHANGED ctl
    PROVE  TaskInvariant'
<1>t. ops[o] \in Operation /\ VerdictSound(o)
  BY TaskParts DEF TaskInvariant
<1>k. \A d \in Ctrls : ctl[d].op = o => /\ ctl[d].pc # "idle"
                                        /\ \/ ctl[d].pc = "release"
                                           \/ ops[o].phase = ctl[d].snap.phase /\ ops[o].phase # "Absent"
  BY TypeInvParts, TaskParts, ConstantsAssumption
     DEF WorkerKnows, WorkersTyped, ControllerTypeOK, WorkerOK
<1>c. ASSUME NEW new \in Operation, WriteOperation(o, new), UNCHANGED tasks,
             ops[o].phase = "Absent",
             new.phase = "Pending", new.gen = 0, new.reason = ""
      PROVE  TaskInvariant'
  <2>1. ops[o].gen = 0
    BY <1>c, <1>t DEF VerdictSound
  <2>2. \A d \in Ctrls : ctl'[d] = ctl[d] /\ (ctl'[d].pc = "release" \/ ctl[d].op # o)
    BY <1>c, <1>k
  <2>3. ops[o].gen <= new.gen
    <3>1. ops[o].gen \in Nat /\ new.gen \in Nat /\ new.gen = ops[o].gen
      BY <1>c, <1>t, <2>1 DEF Operation
    <3> QED
      BY <3>1
  <2>4. /\ new.phase # "Absent" /\ new.phase # "Running" /\ new.phase \notin TerminalPhases
        /\ new.reason # "InvalidExecutionFacts"
    BY <1>c DEF TerminalPhases
  <2> QED
    BY <1>c, <2>2, <2>3, <2>4, WriteKeeps
<1>1. CASE CreateOperation(o)
  <2>1. PICK second \in UNION {{ops[p].created, ops[p].created + 1} : p \in Ops} :
            WriteOperation(o, [AbsentOperation EXCEPT !.phase = "Pending",
                                                      !.created = second])
    BY <1>1 DEF CreateOperation
  <2> DEFINE new == [AbsentOperation EXCEPT !.phase = "Pending", !.created = second]
  <2>2. second \in Nat
    <3>1. \A p \in Ops : ops[p].created \in Nat
      BY TaskParts DEF Operation
    <3> QED
      BY <3>1
  <2>3. /\ new \in Operation /\ new.phase = "Pending" /\ new.gen = 0 /\ new.reason = ""
    BY <2>2 DEF AbsentOperation, Operation, Phases, ActivePhases, Reasons
  <2>4. WriteOperation(o, new) /\ ops[o].phase = "Absent" /\ UNCHANGED tasks
    BY <1>1, <2>1 DEF CreateOperation
  <2> HIDE DEF new
  <2> QED
    BY <1>c, <2>3, <2>4
<1>2. CASE CancelOperation(o)
  <2> DEFINE new == [ops[o] EXCEPT !.desired = "Canceled"]
  <2>1. /\ new \in Operation /\ new.phase = ops[o].phase /\ new.gen = ops[o].gen
        /\ new.deadline = ops[o].deadline /\ new.reason = ops[o].reason /\ new.gen \in Nat
    BY <1>t DEF Operation
  <2>2. WriteOperation(o, new) /\ UNCHANGED tasks /\ ops[o].phase # "Absent"
    BY <1>2 DEF CancelOperation
  <2> HIDE DEF new
  <2>3. ops[o].gen <= new.gen
    BY <2>1
  <2> QED
    BY <1>t, <2>1, <2>2, <2>3, WriteKeeps DEF VerdictSound, Terminal
<1>3. CASE LoadRetryableOperation(o)
  BY <1>3, TasksRest DEF LoadRetryableOperation, storeVars
<1>4. CASE RetryOperation(o)
  <2>1. CASE ops[o].rv = retrying[o]
    <3> DEFINE new == [ops[o] EXCEPT !.desired = "Active", !.gen = ops[o].gen + 1]
    <3>1. /\ new \in Operation /\ new.phase = ops[o].phase /\ new.gen = ops[o].gen + 1
          /\ new.deadline = ops[o].deadline /\ new.reason = ops[o].reason
      <4>1. \A p \in Operation, g \in Nat :
               LET n == [p EXCEPT !.desired = "Active", !.gen = g]
               IN  /\ n \in Operation /\ n.phase = p.phase /\ n.gen = g
                   /\ n.deadline = p.deadline /\ n.reason = p.reason
        BY DEF Operation
      <4>2. ops[o].gen + 1 \in Nat
        BY <1>t DEF Operation
      <4> QED
        BY <1>t, <4>1, <4>2
    <3>2. WriteOperation(o, new) /\ UNCHANGED tasks
      BY <1>4, <2>1 DEF RetryOperation
    <3>3. Terminal(o)
      BY <1>4, <2>1 DEF RetryOperation, LockInvariant, RetryRevisions
    <3> HIDE DEF new
    <3>4. ops[o].gen <= new.gen
      BY <1>t, <3>1 DEF Operation
    <3>5. \A d \in Ctrls : /\ ctl'[d] = ctl[d]
                           /\ \/ ctl[d].pc = "release" \/ ctl[d].op # o
                              \/ ctl[d].snap.phase \notin ActivePhases
      BY <1>k, <3>3 DEF Terminal, TerminalPhases, ActivePhases
    <3>6. new.phase \in TerminalPhases /\ new.phase # "Absent" /\ new.phase # "Running"
      BY <3>1, <3>3 DEF Terminal, TerminalPhases
    <3> QED
      BY <1>t, <3>1, <3>2, <3>3, <3>4, <3>5, <3>6, WriteKeeps DEF VerdictSound, Terminal
  <2>2. CASE ops[o].rv # retrying[o]
    BY <1>4, <2>2, TasksRest DEF RetryOperation
  <2> QED
    BY <2>1, <2>2
<1> QED
  BY <1>1, <1>2, <1>3, <1>4 DEF APIStep

\* What agents do to tasks leaves the invariant alone: they end what was active.
LEMMA AgentStepsPrepared ==
    ASSUME TypeInv, LockInvariant, TaskInvariant, UNCHANGED ctl, NEW n \in Nodes,
           AgentStep(n) \/ (\E t \in DOMAIN tasks : StartResponseLost(n, t)) \/ StopAgent(n)
    PROVE  TaskInvariant'
<1>1. ASSUME NEW t \in DOMAIN tasks, Active(t), NEW phase, NEW out, UpdateTask(t, phase, out)
      PROVE  TaskInvariant'
  <2>1. /\ UNCHANGED ops /\ DOMAIN tasks' = DOMAIN tasks
        /\ \A u \in DOMAIN tasks : u # t => tasks'[u] = tasks[u]
    BY <1>1 DEF UpdateTask
  <2> QED
    BY <1>1, <2>1, AdvanceKeeps
<1>2. CASE UNCHANGED storeVars
  BY <1>2, TasksRest DEF storeVars
<1>3. CASE \E t \in DOMAIN tasks :
              \/ StartPendingTask(n, t) \/ ResumeTask(n, t) \/ ReportExpired(n, t)
              \/ StartResponseLost(n, t)
  BY <1>1, <1>2, <1>3 DEF StartPendingTask, ResumeTask, ReportExpired, StartResponseLost,
                          CanUpdateTask, Active, ActivePhases
<1>4. CASE \E t \in exec[n] : FinishTask(n, t)
  <2>1. PICK t \in exec[n] : FinishTask(n, t)
    BY <1>4
  <2>2. CASE CanUpdateTask(t, "Running")
    <3>1. t \in DOMAIN tasks /\ Active(t)
      BY <2>2 DEF CanUpdateTask, Active, ActivePhases
    <3> QED
      BY <1>1, <2>1, <2>2, <3>1 DEF FinishTask
  <2> QED
    BY <1>2, <2>1, <2>2 DEF FinishTask
<1> QED
  BY <1>2, <1>3, <1>4 DEF AgentStep, StopAgent

-----------------------------------------------------------------------------
\* TaskInvariant holds initially ...
LEMMA TaskInit == Init => TaskInvariant
<1> SUFFICES ASSUME Init PROVE TaskInvariant
  OBVIOUS
<1>1. DOMAIN tasks = {} /\ IsFiniteSet(DOMAIN tasks)
  BY FS_EmptySet DEF Init, StoreInit, NoTasks
<1>2. \A o \in Ops : ops[o].phase = "Absent" /\ ops[o].gen = 0 /\ ops[o].reason = ""
  BY DEF Init, StoreInit, AbsentOperation
<1>3. \A c \in Ctrls : ctl[c].pc = "idle"
  BY DEF Init, ControllerInit, IdleWorker
<1>4. \A o \in Ops : VerdictSound(o)
  BY <1>2 DEF VerdictSound, Terminal, TerminalPhases
<1> QED
  BY <1>1, <1>3, <1>4 DEF TaskInvariant, WorkerPrepared

\* ... and is inductive, with the help of LockInvariant (only the worker of an
\* operation touches it) and OrderInvariant (a write that is not refused is made
\* from the current copy).
LEMMA TaskStep ==
    /\ TypeInv /\ LockInvariant /\ OrderInvariant /\ TaskInvariant /\ [Next]_vars
    => TaskInvariant'
<1> SUFFICES ASSUME TypeInv, LockInvariant, OrderInvariant, TaskInvariant, [Next]_vars
             PROVE  TaskInvariant'
  OBVIOUS
<1>1. CASE \E c \in Ctrls : ControllerNext(c)
  BY <1>1, ReadStepsPrepared, LoopStepsPrepared, WriteStepsPrepared, GetOperationPrepared
     DEF ControllerNext, ReconcileStep
<1>2. CASE \E o \in Ops : APINext(o)
  BY <1>2, APIStepPrepared DEF APINext
<1>3. CASE \E n \in Nodes : AgentNext(n)
  BY <1>3, AgentStepsPrepared DEF AgentNext
<1>4. CASE \E o \in Ops : DeadlineReached(o) \/ GraceOver(o)
  BY <1>4, TasksRest DEF DeadlineReached, GraceOver, storeVars
<1>5. CASE Fault
  BY <1>5, ReadStepsPrepared, AgentStepsPrepared DEF Fault
<1>6. CASE UNCHANGED vars
  BY <1>6, TasksRest DEF vars
<1> QED
  BY <1>1, <1>2, <1>3, <1>4, <1>5, <1>6 DEF Next

\* The three invariants together hold in every reachable state.
THEOREM TaskInvariantHolds ==
    SingleLeader => (Spec => [](TypeInv /\ LockInvariant /\ OrderInvariant /\ TaskInvariant))
<1> SUFFICES ASSUME SingleLeader
             PROVE  Spec => [](TypeInv /\ LockInvariant /\ OrderInvariant /\ TaskInvariant)
  OBVIOUS
<1>1. TypeInv /\ LockInvariant /\ [Next]_vars => LockInvariant'
  BY LockStep
<1>2. TypeInv /\ LockInvariant /\ OrderInvariant /\ [Next]_vars => OrderInvariant'
  BY OrderStep
<1> QED
  BY TypeInit, TypeStep, LockInit, OrderInit, TaskInit, TaskStep, <1>1, <1>2, PTL DEF Spec

-----------------------------------------------------------------------------
(***************************************************************************)
(* What follows for the properties of the engine.                          *)
(***************************************************************************)

\* A task of a step exists only when every node of every earlier step has succeeded,
\* for any plan, any number of retries, faults and workers.
THEOREM StepsFollowOneAnother == SingleLeader => (Spec => []StepBarrier)
<1>1. TaskInvariant => StepBarrier
  BY DEF TaskInvariant, Planned, EarlierDone, SlotDone, Slot, StepBarrier
<1> QED
  BY <1>1, TaskInvariantHolds, PTL

\* The attempts of a node for a step follow one another: a later attempt exists only
\* when the earlier ones have ended without success.
THEOREM AttemptsFollowOneAnother == SingleLeader => (Spec => []AttemptsInSequence)
<1>1. TaskInvariant => AttemptsInSequence
  BY DEF TaskInvariant, InSequence, Lost, AttemptsInSequence
<1> QED
  BY <1>1, TaskInvariantHolds, PTL

\* A node executes a step at most 1 + retryLimit times in the generation that first
\* reached it, and gets one task in each later generation.
THEOREM AttemptsStayInBudget == SingleLeader => (Spec => []AttemptBudget)
<1>1. ASSUME TypeInv, LockInvariant, TaskInvariant PROVE AttemptBudget
  <2> SUFFICES ASSUME NEW t \in DOMAIN tasks
               PROVE  LET base == BaseGeneration(TasksOf(t.op), t.step, t.node)
                          mine == {u \in Attempts(t) : u.gen = t.gen}
                      IN  IF t.gen = base
                          THEN ExecutedAttempts(TasksOf(t.op), t.step, t.node, base)
                                  <= 1 + Plan[t.op][t.step].retryLimit
                          ELSE Cardinality(mine) = 1
    BY DEF AttemptBudget
  <2> DEFINE view == TasksOf(t.op)
             base == BaseGeneration(view, t.step, t.node)
  <2>1. /\ DOMAIN view = {u \in DOMAIN tasks : u.op = t.op}
        /\ \A u \in DOMAIN view : view[u] = tasks[u]
    BY DEF TasksOf
  <2>2. NodeTasks(view, t.step, t.node) = Attempts(t) /\ t \in Attempts(t)
    BY <2>1 DEF NodeTasks, StepTasks, Attempts
  <2>3. IsTaskMap(view)
    BY <1>1, TypeInvParts, TasksOfTyped DEF StoreTyped
  <2>4. /\ base \in Nat /\ \E u \in Attempts(t) : u.gen = base
        /\ \A u \in Attempts(t) : base <= u.gen
    BY <2>2, <2>3, BaseGenerationIsLeast
  <2>5. Budgeted(t) /\ t.gen \in Nat /\ Plan[t.op][t.step].retryLimit \in Nat
    BY <1>1, TaskParts, PlanShape DEF TaskInvariant, Planned, TaskId
  <2>6. \A u \in Attempts(t) : u.gen \in Nat
    BY <1>1, TaskParts DEF Attempts, TaskId
  <2> HIDE DEF base
  <2>7. IsBase(t) <=> t.gen = base
    BY <2>2, <2>4, <2>5, <2>6 DEF IsBase
  <2>8. CASE t.gen = base
    <3> DEFINE run == {u \in NodeTasks(view, t.step, t.node) :
                          /\ u.gen = base /\ view[u].phase \in Phases \ {"Pending", "Canceled"}}
    <3>1. run \subseteq Counted(t)
      BY <2>1, <2>2, <2>8 DEF Counted, Peers, Attempts
    <3>2. IsFiniteSet(Counted(t))
      BY <1>1, TaskParts, FS_Subset DEF Counted, Peers, Attempts
    <3>3. /\ Cardinality(run) <= Cardinality(Counted(t))
          /\ Cardinality(run) \in Nat /\ Cardinality(Counted(t)) \in Nat
      <4> HIDE DEF run
      <4> QED
        BY <3>1, <3>2, FS_Subset, FS_CardinalityType
    <3>4. Cardinality(Counted(t)) <= 1 + Plan[t.op][t.step].retryLimit
      BY <2>5, <2>7, <2>8 DEF Budgeted
    <3>5. Cardinality(run) <= 1 + Plan[t.op][t.step].retryLimit
      <4> HIDE DEF run
      <4> QED
        BY <2>5, <3>3, <3>4
    <3>6. ExecutedAttempts(view, t.step, t.node, base) = Cardinality(run)
      BY DEF ExecutedAttempts
    <3> HIDE DEF run
    <3> QED
      BY <2>8, <3>5, <3>6 DEF base
  <2>9. CASE t.gen # base
    <3>1. {u \in Attempts(t) : u.gen = t.gen} = {t}
      BY <2>5, <2>7, <2>9 DEF Budgeted, Peers
    <3> QED
      BY <2>9, <3>1, FS_Singleton DEF base
  <2> QED
    BY <2>8, <2>9
<1> QED
  BY <1>1, TaskInvariantHolds, PTL

\* The verdict is the truth about the plan: a terminal operation is Succeeded exactly
\* when all nodes of all steps have succeeded, whichever of the last success, the
\* cancel request and the deadline came first.
THEOREM VerdictIsTheTruth == SingleLeader => (Spec => []SuccessIffComplete)
<1>1. TaskInvariant => SuccessIffComplete
  <2> SUFFICES ASSUME TaskInvariant, NEW o \in Ops, Terminal(o)
               PROVE  ops[o].phase = "Succeeded" <=> Complete(o, TasksOf(o))
    BY DEF SuccessIffComplete
  <2>1. VerdictSound(o)
    BY DEF TaskInvariant
  <2> QED
    BY <2>1, CompleteMeans, StuckIsIncomplete DEF VerdictSound
<1> QED
  BY <1>1, TaskInvariantHolds, PTL

\* The controller never has to blame its own facts: InvalidExecutionFacts is the reason
\* only when an output of an earlier step is missing.
THEOREM FactsStayValid == SingleLeader => (Spec => []InvalidFactsOnlyForMissingOutput)
<1>1. TaskInvariant => InvalidFactsOnlyForMissingOutput
  BY DEF TaskInvariant, VerdictSound, MissingOutput, InvalidFactsOnlyForMissingOutput
<1> QED
  BY <1>1, TaskInvariantHolds, PTL

\* With one leader the tasks of an operation stay consistent even when clients retry
\* it: every name a worker is about to create is new.  (With a former leader at work
\* this is checked for operations that are not retried, and fails for retried ones.)
THEOREM TasksStayConsistent == SingleLeader => (Spec => []TasksConsistent)
<1>1. TypeInv /\ TaskInvariant => TypeOK /\ SameNameSameDeadline
  <2> SUFFICES ASSUME TypeInv, TaskInvariant PROVE TypeOK /\ SameNameSameDeadline
    OBVIOUS
  <2>1. ASSUME NEW c \in Ctrls, At(c, "create"), NEW t \in ctl[c].todo PROVE t \notin DOMAIN tasks
    <3>1. MayCreate(t) /\ t \in TaskId
      BY <2>1, TypeInvParts, BusyWorkerTyped DEF TaskInvariant, WorkerPrepared, At
    <3>2. t \notin Attempts(t)
      BY <3>1 DEF MayCreate, TaskId
    <3> QED
      BY <3>2 DEF Attempts
  <2> QED
    BY <2>1 DEF SameNameSameDeadline, TypeInv
<1>2. SingleLeader => (Spec => [](TypeOK /\ SameNameSameDeadline))
  BY <1>1, TaskInvariantHolds, PTL
<1>3. /\ TypeOK /\ SameNameSameDeadline /\ StepBarrier /\ AttemptsInSequence /\ AttemptBudget
      /\ InvalidFactsOnlyForMissingOutput
      => TasksConsistent
  BY DEF TasksConsistent
<1> QED
  BY <1>2, <1>3, StepsFollowOneAnother, AttemptsFollowOneAnother, AttemptsStayInBudget,
     FactsStayValid, PTL

=============================================================================
