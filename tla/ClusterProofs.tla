---------------------------- MODULE ClusterProofs ----------------------------
(***************************************************************************)
(* Proofs about the life of a cluster, for every set of operations, every  *)
(* scenario of requests and every number of retries and faults.            *)
(*                                                                         *)
(* The finalizer lists the history, looks at it, deletes it and lets the   *)
(* object go in steps of their own, while handlers create operations and   *)
(* clients retry them as they like.  The invariants say what it has seen,  *)
(* up to what has happened behind its back, and that the lists it works on *)
(* cover the rest of the history.                                          *)
(***************************************************************************)
EXTENDS ClusterLifecycle, TLAPS

-----------------------------------------------------------------------------
(***************************************************************************)
(* Type correctness, for every scenario.                                   *)
(***************************************************************************)
ClusterObject ==
    [alive : BOOLEAN, phase : Phases, version : {"initial"} \cup Ops,
     finalizer : BOOLEAN, deleting : BOOLEAN, pending : SUBSET Ops, client : BOOLEAN]

\* The phases that handlers and reconciler choose are phases.
LEMMA PhasesTyped ==
    ASSUME NEW a PROVE WorkPhase(a) \in Phases /\ FailedClusterPhase(a) \in Phases
  BY DEF WorkPhase, FailedClusterPhase, Phases, WorkingPhases, FailedPhases

\* A written cluster is one, and the copies that others hold are outdated.
LEMMA WriteTyped ==
    ASSUME NEW c \in ClusterObject, Write(c)
    PROVE  clu' \in ClusterObject /\ current' \subseteq Ops \cup {Controller}
  BY DEF Write

\* A cluster that does not exist, and a new one, are objects.
LEMMA NewClusterTyped ==
    ASSUME NEW p \in Phases, NEW f \in BOOLEAN
    PROVE  NewCluster(p, f) \in ClusterObject /\ NoCluster \in ClusterObject
  BY DEF NewCluster, NoCluster, ClusterObject, Phases

\* A deletion keeps the types.
LEMMA DeleteTyped ==
    ASSUME clu \in ClusterObject, behind \subseteq Ops, Delete
    PROVE  /\ clu' \in ClusterObject /\ current' \subseteq Ops \cup {Controller}
           /\ behind' \subseteq Ops
<1>1. [clu EXCEPT !.deleting = TRUE] \in ClusterObject
  BY DEF ClusterObject
<1>2. NoCluster \in ClusterObject
  BY NewClusterTyped DEF Phases
<1> QED
  BY <1>1, <1>2, WriteTyped DEF Delete, History

\* So does a handler's step, ...
LEMMA RequestTyped ==
    ASSUME TypeOK, NEW o \in Ops, Request(o) PROVE TypeOK'
<1> USE DEF TypeOK, cluVars, opVars, bizVars, ctlVars, bounds
<1>t. clu \in ClusterObject
  BY DEF ClusterObject
<1>q. ASSUME clu' \in ClusterObject, current' \subseteq Ops \cup {Controller},
             req' \in [Ops -> {"idle", "phase", "operation", "phaseLast", "done"}],
             behind' \subseteq Ops, UNCHANGED <<opVars, bizVars, ctlVars, bounds>>
      PROVE  TypeOK'
  BY <1>q DEF ClusterObject
<1>1. CASE ReadCluster(o)
  BY <1>1 DEF ReadCluster
<1>2. CASE UpdatePhase(o)
  <2> DEFINE c == [clu EXCEPT !.phase = WorkPhase(ActionOf[o]),
                              !.pending = IF ActionOf[o] = "AddNodes"
                                          THEN @ \cup {o} ELSE @]
  <2>1. c \in ClusterObject
    BY <1>t, PhasesTyped DEF ClusterObject
  <2>2. Write(c) \/ UNCHANGED cluVars
    BY <1>2 DEF UpdatePhase
  <2> HIDE DEF c
  <2>3. clu' \in ClusterObject /\ current' \subseteq Ops \cup {Controller}
    BY <1>t, <2>1, <2>2, WriteTyped
  <2> QED
    BY <1>2, <1>q, <2>3 DEF UpdatePhase
<1>3. CASE CreateCluster(o)
  <2>1. clu' \in ClusterObject /\ current' \subseteq Ops \cup {Controller}
    BY <1>3, NewClusterTyped, WriteTyped DEF CreateCluster, Phases, WorkingPhases
  <2> QED
    BY <1>3, <1>q, <2>1 DEF CreateCluster
<1>4. CASE ForceDelete(o)
  <2>1. /\ clu' \in ClusterObject /\ current' \subseteq Ops \cup {Controller}
        /\ behind' \subseteq Ops
    BY <1>4, <1>t, DeleteTyped DEF ForceDelete
  <2> QED
    BY <1>4, <1>q, <2>1 DEF ForceDelete
<1>5. CASE CreateOperationV2(o)
  BY <1>5 DEF CreateOperationV2, CreateOperation, Submit, Move, States
<1> QED
  BY <1>1, <1>2, <1>3, <1>4, <1>5 DEF Request

\* ... the engine's, ...
LEMMA EngineTyped ==
    ASSUME TypeOK, NEW o \in Ops, Engine(o) PROVE TypeOK'
<1> USE DEF TypeOK, cluVars, bizVars, ctlVars
<1>1. CASE Run(o) /\ UNCHANGED <<retries, behind>>
  BY <1>1 DEF Engine, Run, Begin, Move, States
<1>2. CASE Conclude(o) /\ UNCHANGED <<retries, behind>>
  BY <1>2 DEF Engine, Conclude, End, Move, States
<1>3. CASE CancelPending(o) /\ UNCHANGED <<retries, behind>>
  BY <1>3 DEF Engine, CancelPending, Withdraw, Move, States
<1>4. CASE Retry(o)
  <2>1. retries + 1 \in 0..given.retries
    BY <1>4, ScenarioAssumption DEF Retry
  <2> QED
    BY <1>4, <2>1 DEF Engine, Retry, Reopen, Move, States
<1> QED
  BY <1>1, <1>2, <1>3, <1>4 DEF Engine

\* ... the business reconciler's ...
LEMMA BusinessTyped ==
    ASSUME TypeOK, NEW o \in Ops, BusinessReconcile(o) PROVE TypeOK'
<1> USE DEF TypeOK, cluVars, opVars, bizVars, ctlVars, bounds
<1>t. clu \in ClusterObject
  BY DEF ClusterObject
<1>1. ASSUME UpdateCluster(o)
      PROVE  /\ clu' \in ClusterObject /\ current' \subseteq Ops \cup {Controller}
             /\ behind' = behind
  <2> DEFINE c == [clu EXCEPT !.phase = Desired(o), !.version = IF Upgraded(o) THEN o ELSE @]
  <2>1. Desired(o) \in Phases
    BY PhasesTyped DEF Desired, Phases
  <2>2. c \in ClusterObject
    BY <1>t, <2>1 DEF ClusterObject
  <2>3. (Write(c) \/ UNCHANGED cluVars) /\ UNCHANGED behind
    BY <1>1 DEF UpdateCluster
  <2> HIDE DEF c
  <2> QED
    BY <1>t, <2>2, <2>3, WriteTyped
<1>2. Delete \/ UpdateCluster(o) \/ UNCHANGED <<cluVars, behind>>
  BY DEF BusinessReconcile, Apply
<1>3. /\ clu' \in ClusterObject /\ current' \subseteq Ops \cup {Controller}
      /\ behind' \subseteq Ops
  BY <1>t, <1>1, <1>2, DeleteTyped
<1> QED
  BY <1>3 DEF BusinessReconcile, ClusterObject

\* ... and the cluster controller's.
LEMMA ControllerTyped ==
    ASSUME TypeOK, ClusterReconcile PROVE TypeOK'
<1> USE DEF TypeOK, cluVars, opVars, bizVars, ctlVars, bounds
<1>t. clu \in ClusterObject
  BY DEF ClusterObject
<1>n. NoCluster \in ClusterObject
  BY NewClusterTyped DEF Phases
<1>q. ASSUME clu' \in ClusterObject, current' \subseteq Ops \cup {Controller},
             UNCHANGED <<req, opVars, bizVars, pass, behind, bounds>>,
             cri' \in {"same", "differ", "pushed"},
             fin' \in [pc : {"idle", "verify", "purge", "release"},
                       ops : SUBSET Ops, left : SUBSET Ops]
      PROVE  TypeOK'
  BY <1>q DEF ClusterObject
<1>1. CASE AddFinalizer
  <2>1. [clu EXCEPT !.finalizer = TRUE] \in ClusterObject
    BY <1>t DEF ClusterObject
  <2> QED
    BY <1>1, <1>q, <2>1, WriteTyped DEF AddFinalizer
<1>2. CASE CleanPending
  <2>1. [clu EXCEPT !.pending = {}] \in ClusterObject
    BY <1>t DEF ClusterObject
  <2> QED
    BY <1>2, <1>q, <2>1, WriteTyped DEF CleanPending
<1>3. CASE ListHistory
  BY <1>3 DEF ListHistory, History
<1>4. ASSUME NEW o \in Ops, VerifyTerminal(o) PROVE TypeOK'
  BY <1>4 DEF VerifyTerminal, Idle
<1>5. ASSUME NEW o \in Ops, PurgeHistory(o) PROVE TypeOK'
  BY <1>5 DEF PurgeHistory, Idle, States
<1>6. CASE RemoveFinalizer
  <2>1. clu' \in ClusterObject /\ current' \subseteq Ops \cup {Controller}
    BY <1>6, <1>n, <1>t, WriteTyped DEF RemoveFinalizer
  <2> QED
    BY <1>6, <1>q, <2>1 DEF RemoveFinalizer, Idle
<1>7. ASSUME NEW o \in Ops, CreateKubeConfigSync(o) PROVE TypeOK'
  BY <1>7 DEF CreateKubeConfigSync, CreateOperation, Submit, Move, States
<1>8. ASSUME NEW o \in Ops, SyncClusterClient(o) PROVE TypeOK'
  <2>1. [clu EXCEPT !.client = TRUE] \in ClusterObject
    BY <1>t DEF ClusterObject
  <2> QED
    BY <1>8, <1>q, <2>1, WriteTyped DEF SyncClusterClient
<1>9. ASSUME NEW o \in Ops, CreatePending(o) PROVE TypeOK'
  BY <1>9 DEF CreatePending, CreateOperation, Submit, Move, States
<1>10. ASSUME NEW o \in Ops, SkipPending(o) PROVE TypeOK'
  BY <1>10 DEF SkipPending
<1>11. ASSUME NEW o \in Ops, CreateRegistryUpdate(o) PROVE TypeOK'
  BY <1>11 DEF CreateRegistryUpdate, CreateOperation, Submit, Move, States
<1>12. CASE WriteRegistries
  <2>1. clu' \in ClusterObject /\ current' \subseteq Ops \cup {Controller}
    BY <1>12, <1>t, WriteTyped DEF WriteRegistries
  <2> QED
    BY <1>12, <1>q, <2>1 DEF WriteRegistries
<1>13. CASE CleanupFails
  BY <1>13 DEF CleanupFails, Idle
<1> QED
  BY <1>1, <1>2, <1>3, <1>4, <1>5, <1>6, <1>7, <1>8, <1>9, <1>10, <1>11, <1>12, <1>13 DEF ClusterReconcile, Finalize

\* Every step keeps the types.
LEMMA ClusterStepTyped ==
    ASSUME TypeOK, [Next]_vars PROVE TypeOK'
<1> USE DEF TypeOK, cluVars, opVars, bizVars, ctlVars, bounds
<1>1. ASSUME NEW o \in Ops, Deliver(o) PROVE TypeOK'
  BY <1>1 DEF Deliver, Terminal
<1>2. CASE Replay
  BY <1>2 DEF Replay, Terminal, History
<1>3. ASSUME NEW o \in Ops, HandlerDies(o) PROVE TypeOK'
  <2>1. faults + 1 \in 0..given.faults
    BY <1>3, ScenarioAssumption DEF HandlerDies
  <2> QED
    BY <1>3, <2>1 DEF HandlerDies
<1>4. CASE OtherWrite
  <2>1. faults + 1 \in 0..given.faults
    BY <1>4, ScenarioAssumption DEF OtherWrite
  <2> QED
    BY <1>4, <2>1 DEF OtherWrite, Write
<1>5. CASE UNCHANGED vars
  BY <1>5 DEF vars
<1>6. CASE Outage \/ ChangeRegistry
  BY <1>6 DEF Outage, ChangeRegistry
<1> QED
  BY <1>1, <1>2, <1>3, <1>4, <1>5, <1>6, RequestTyped, EngineTyped, BusinessTyped, ControllerTyped
     DEF Next

-----------------------------------------------------------------------------
(***************************************************************************)
(* The purge.                                                              *)
(***************************************************************************)
\* What the cleanup has found to be over still is, unless a retry came in between.
Verified == \A o \in Checked : state[o] = "ended" \/ o \in behind

\* The lists that the cleanup works on cover the history, up to what was created
\* behind its back; so nothing is left when it lets go.
Covered ==
    /\ fin.pc = "verify" => History \subseteq fin.ops \cup behind
    /\ fin.pc = "purge" => History \subseteq fin.left \cup behind
    /\ fin.pc = "release" => History \subseteq behind

ClusterIInv == TypeOK /\ Verified /\ Covered /\ OnlyLateOrphans

\* What a step beside the cleanup does to the history: it deletes nothing, what it
\* adds behind the cleanup's back it records, and so it does with what it reopens
\* or abandons.
Beside ==
    /\ UNCHANGED fin /\ behind \subseteq behind'
    /\ History \subseteq History'
    /\ fin.pc # "idle" \/ ~clu.alive => History' \subseteq History \cup behind'
    /\ clu.alive /\ ~clu'.alive => History' \subseteq behind'
    /\ \A o \in Checked : state[o] = "ended" => state'[o] = "ended" \/ o \in behind'

\* A step that leaves the history alone and keeps the object.
LEMMA QuietBeside ==
    ASSUME UNCHANGED <<fin, behind, state>>, clu'.alive \/ ~clu.alive
    PROVE  Beside
  BY DEF Beside, History

\* The creation of an operation.
LEMMA CreateBeside ==
    ASSUME TypeOK, NEW o \in Ops, CreateOperation(o), UNCHANGED <<clu, fin>>
    PROVE  Beside
<1>1. /\ state' = [state EXCEPT ![o] = "fresh"] /\ state[o] = "absent"
      /\ behind' = IF fin.pc # "idle" \/ ~clu.alive THEN behind \cup {o} ELSE behind
  BY DEF CreateOperation, Submit, Move
<1>2. state \in [Ops -> States]
  BY DEF TypeOK
<1>3. History' = History \cup {o}
  BY <1>1, <1>2 DEF History
<1>4. Checked \subseteq Ops
  BY DEF Checked, TypeOK
<1> QED
  BY <1>1, <1>2, <1>3, <1>4 DEF Beside

\* The deletion of the object: marked, or gone with its history recorded.
LEMMA DeleteBeside ==
    ASSUME TypeOK, clu.alive, Delete, UNCHANGED <<fin, state>>
    PROVE  Beside
<1>1. CASE clu.finalizer
  BY <1>1, QuietBeside DEF Delete, Write, TypeOK
<1>2. CASE ~clu.finalizer
  BY <1>2 DEF Delete, Beside, History
<1> QED
  BY <1>1, <1>2

\* A handler's step.
LEMMA RequestBeside ==
    ASSUME TypeOK, NEW o \in Ops, Request(o) PROVE Beside
<1> USE DEF cluVars, opVars, ctlVars
<1>1. CASE ReadCluster(o)
  BY <1>1, QuietBeside DEF ReadCluster
<1>2. CASE UpdatePhase(o)
  <2>1. clu'.alive = clu.alive
    BY <1>2 DEF UpdatePhase, Write, TypeOK
  <2> QED
    BY <1>2, <2>1, QuietBeside DEF UpdatePhase
<1>3. CASE CreateCluster(o)
  BY <1>3, QuietBeside DEF CreateCluster
<1>4. CASE ForceDelete(o)
  BY <1>4, QuietBeside, DeleteBeside DEF ForceDelete
<1>5. CASE CreateOperationV2(o)
  BY <1>5, CreateBeside DEF CreateOperationV2
<1> QED
  BY <1>1, <1>2, <1>3, <1>4, <1>5 DEF Request

\* An engine's step: only a retry takes back that an operation is over.
LEMMA EngineBeside ==
    ASSUME TypeOK, NEW o \in Ops, Engine(o) PROVE Beside
<1> USE DEF cluVars, ctlVars
<1>1. /\ UNCHANGED <<clu, fin>> /\ state \in [Ops -> States] /\ Checked \subseteq Ops
  BY DEF Engine, TypeOK, Checked
<1>2. CASE (Run(o) \/ Conclude(o) \/ CancelPending(o)) /\ UNCHANGED <<retries, behind>>
  <2>1. /\ UNCHANGED behind /\ state[o] \notin {"absent", "ended"}
        /\ \E x \in {"running", "ended"} : state' = [state EXCEPT ![o] = x]
    BY <1>2 DEF Run, Conclude, CancelPending, Begin, End, Withdraw, Move
  <2>2. History' = History
    BY <1>1, <2>1 DEF History
  <2> QED
    BY <1>1, <2>1, <2>2 DEF Beside
<1>3. CASE Retry(o)
  <2>1. /\ state[o] = "ended" /\ state' = [state EXCEPT ![o] = "reopened"]
        /\ behind' = IF o \in Checked THEN behind \cup {o} ELSE behind
    BY <1>3 DEF Retry, Reopen, Move
  <2>2. History' = History
    BY <1>1, <2>1 DEF History
  <2> QED
    BY <1>1, <2>1, <2>2 DEF Beside
<1> QED
  BY <1>2, <1>3 DEF Engine

\* A step of the business reconciler.
LEMMA BusinessBeside ==
    ASSUME TypeOK, NEW o \in Ops, BusinessReconcile(o) PROVE Beside
<1> USE DEF cluVars, opVars, ctlVars
<1>1. UNCHANGED <<fin, state>>
  BY DEF BusinessReconcile
<1>2. UpdateCluster(o) => UNCHANGED behind /\ clu'.alive = clu.alive
  BY DEF UpdateCluster, Write, TypeOK
<1>3. (clu.alive /\ Delete) \/ UpdateCluster(o) \/ UNCHANGED <<cluVars, behind>>
  BY DEF BusinessReconcile, Apply
<1> QED
  BY <1>1, <1>2, <1>3, QuietBeside, DeleteBeside

\* The cluster controller's other steps, and the environment's.
LEMMA OthersBeside ==
    ASSUME TypeOK,
           \/ AddFinalizer \/ CleanPending \/ WriteRegistries \/ Replay \/ OtherWrite
           \/ Outage \/ ChangeRegistry
           \/ \E o \in Ops : \/ CreateRegistryUpdate(o) \/ CreateKubeConfigSync(o)
                             \/ SyncClusterClient(o) \/ CreatePending(o) \/ SkipPending(o)
                             \/ Deliver(o) \/ HandlerDies(o)
    PROVE  Beside
<1> USE DEF cluVars, opVars, ctlVars
<1>1. ASSUME NEW o \in Ops,
             CreateRegistryUpdate(o) \/ CreateKubeConfigSync(o) \/ CreatePending(o)
      PROVE  Beside
  BY <1>1, CreateBeside DEF CreateRegistryUpdate, CreateKubeConfigSync, CreatePending
<1>2. ASSUME NEW o \in Ops, SyncClusterClient(o) PROVE Beside
  <2>1. clu'.alive = clu.alive
    BY <1>2 DEF SyncClusterClient, Write, TypeOK
  <2> QED
    BY <1>2, <2>1, QuietBeside DEF SyncClusterClient
<1>3. ASSUME NEW o \in Ops, SkipPending(o) \/ Deliver(o) \/ HandlerDies(o) PROVE Beside
  BY <1>3, QuietBeside DEF SkipPending, Deliver, HandlerDies
<1>4. CASE AddFinalizer \/ CleanPending
  <2>1. clu'.alive = clu.alive
    BY <1>4 DEF AddFinalizer, CleanPending, Write, TypeOK
  <2> QED
    BY <1>4, <2>1, QuietBeside DEF AddFinalizer, CleanPending
<1>5. CASE WriteRegistries \/ OtherWrite
  BY <1>5, QuietBeside DEF WriteRegistries, OtherWrite, Write
<1>6. CASE Replay \/ Outage \/ ChangeRegistry
  BY <1>6, QuietBeside DEF Replay, Outage, ChangeRegistry
<1> QED
  BY <1>1, <1>2, <1>3, <1>4, <1>5, <1>6

\* The next-state relation: the cleanup, or a step beside it.
LEMMA NextParts ==
    ASSUME TypeOK, [Next]_vars PROVE Finalize \/ Beside
<1>1. CASE UNCHANGED vars
  BY <1>1, QuietBeside DEF vars, cluVars, opVars, ctlVars
<1> QED
  BY <1>1, RequestBeside, EngineBeside, BusinessBeside, OthersBeside DEF Next, ClusterReconcile

\* A step beside the cleanup keeps its ground.
LEMMA BesideKeeps ==
    ASSUME TypeOK, Verified, Covered, OnlyLateOrphans, Beside
    PROVE  Verified' /\ Covered' /\ OnlyLateOrphans'
<1>1. Checked' = Checked
  BY DEF Beside, Checked
<1>2. Verified'
  BY <1>1 DEF Verified, Beside
<1>3. Covered'
  BY DEF Covered, Beside
<1>4. OnlyLateOrphans'
  BY DEF OnlyLateOrphans, Beside
<1> QED
  BY <1>2, <1>3, <1>4

\* The cleanup keeps to what it has listed and verified.
LEMMA FinalizeKeeps ==
    ASSUME TypeOK, Verified, Covered, OnlyLateOrphans, Finalize
    PROVE  /\ Verified' /\ Covered' /\ OnlyLateOrphans'
           /\ \A o \in Ops : state[o] # "absent" /\ state'[o] = "absent"
                            => state[o] = "ended" \/ o \in behind
<1> USE DEF cluVars, opVars
<1>s. state \in [Ops -> States]
  BY DEF TypeOK
<1>f. fin \in [pc : {"idle", "verify", "purge", "release"}, ops : SUBSET Ops, left : SUBSET Ops]
  BY DEF TypeOK
<1>1. CASE ListHistory
  BY <1>1 DEF ListHistory, Verified, Checked, Covered, OnlyLateOrphans, History
<1>2. ASSUME NEW o \in Ops, VerifyTerminal(o)
      PROVE  Verified' /\ Covered' /\ OnlyLateOrphans' /\ UNCHANGED state
  <2>1. /\ UNCHANGED <<clu, state, behind>> /\ History' = History
        /\ fin.pc = "verify" /\ o \in fin.left
    BY <1>2 DEF VerifyTerminal, History
  <2>2. OnlyLateOrphans'
    BY <2>1 DEF OnlyLateOrphans
  <2>3. CASE state[o] # "ended"
    BY <1>2, <2>1, <2>2, <2>3 DEF VerifyTerminal, Verified, Checked, Covered, Idle
  <2>4. CASE state[o] = "ended" /\ fin.left = {o}
    <3>1. fin' = [fin EXCEPT !.pc = "purge", !.left = fin.ops]
      BY <1>2, <2>4 DEF VerifyTerminal
    <3>2. Checked' \subseteq Checked \cup {o}
      BY <1>f, <2>1, <2>4, <3>1 DEF Checked
    <3> QED
      BY <1>f, <2>1, <2>2, <2>4, <3>1, <3>2 DEF Verified, Covered
  <2>5. CASE state[o] = "ended" /\ fin.left # {o}
    <3>1. fin' = [fin EXCEPT !.left = fin.left \ {o}]
      BY <1>2, <2>5 DEF VerifyTerminal
    <3>2. Checked' \subseteq Checked \cup {o}
      BY <1>f, <2>1, <3>1 DEF Checked
    <3> QED
      BY <1>f, <2>1, <2>2, <2>5, <3>1, <3>2 DEF Verified, Covered
  <2> QED
    BY <2>1, <2>3, <2>4, <2>5
<1>3. ASSUME NEW o \in Ops, PurgeHistory(o)
      PROVE  /\ Verified' /\ Covered' /\ OnlyLateOrphans'
             /\ \A p \in Ops : state[p] # "absent" /\ state'[p] = "absent"
                              => state[p] = "ended" \/ p \in behind
  <2>1. /\ clu' = clu /\ state' = [state EXCEPT ![o] = "absent"] /\ behind' = behind \ {o}
        /\ fin.pc = "purge" /\ o \in fin.left
    BY <1>3 DEF PurgeHistory
  <2>2. History' = History \ {o} /\ Checked = fin.left
    BY <1>s, <2>1 DEF History, Checked
  <2>3. \A p \in Ops \ {o} : state'[p] = state[p]
    BY <1>s, <2>1
  <2>4. state[o] = "ended" \/ o \in behind
    BY <2>1, <2>2 DEF Verified
  <2>5. OnlyLateOrphans'
    BY <2>1, <2>2 DEF OnlyLateOrphans
  <2>6. CASE fin.left = {o}
    <3>1. fin'.pc = "release" /\ Checked' = {}
      BY <1>3, <2>6 DEF PurgeHistory, Idle, Checked
    <3> QED
      BY <2>1, <2>2, <2>3, <2>4, <2>5, <2>6, <3>1 DEF Verified, Covered
  <2>7. CASE fin.left # {o}
    <3>1. fin' = [fin EXCEPT !.left = fin.left \ {o}]
      BY <1>3, <2>7 DEF PurgeHistory
    <3>2. fin'.pc = "purge" /\ fin'.left = fin.left \ {o} /\ Checked' = fin.left \ {o}
      BY <1>f, <2>1, <3>1 DEF Checked
    <3> QED
      BY <1>f, <2>1, <2>2, <2>3, <2>4, <2>5, <3>2 DEF Verified, Covered
  <2> QED
    BY <2>6, <2>7, <2>3, <2>4
<1>4. CASE RemoveFinalizer
  BY <1>4 DEF RemoveFinalizer, Verified, Checked, Covered, OnlyLateOrphans, History, Idle
<1>5. CASE CleanupFails
  BY <1>5 DEF CleanupFails, Verified, Checked, Covered, OnlyLateOrphans, History, Idle
<1> QED
  BY <1>1, <1>2, <1>3, <1>4, <1>5 DEF Finalize, ListHistory, RemoveFinalizer, CleanupFails

\* A cluster begins without a cleanup under way and without history.
LEMMA ClusterInit == ASSUME Init PROVE ClusterIInv
<1>1. NoCluster \in ClusterObject /\ NewCluster("Running", TRUE) \in ClusterObject
  BY NewClusterTyped DEF Phases
<1>2. given \in Scenarios /\ 0 \in 0..given.retries /\ 0 \in 0..given.faults
  BY ScenarioAssumption DEF Init
<1>3. TypeOK
  BY <1>1, <1>2 DEF Init, QueueInit, TypeOK, ClusterObject, States, Idle
<1>4. History = {} /\ Checked = {} /\ fin.pc = "idle"
  BY DEF Init, QueueInit, History, Checked, Idle
<1> QED
  BY <1>3, <1>4 DEF ClusterIInv, Verified, Covered, OnlyLateOrphans

\* A step keeps the invariant, and takes away only operations that are over or were
\* reopened after the cleanup had looked.
LEMMA ClusterStep ==
    ASSUME ClusterIInv, [Next]_vars
    PROVE  /\ ClusterIInv'
           /\ \A o \in Ops : state[o] # "absent" /\ state'[o] = "absent"
                            => state[o] = "ended" \/ o \in behind
<1>1. TypeOK'
  BY ClusterStepTyped DEF ClusterIInv
<1>2. CASE Finalize
  BY <1>1, <1>2, FinalizeKeeps DEF ClusterIInv
<1>3. CASE Beside
  <2>1. \A o \in Ops : state[o] # "absent" => state'[o] # "absent"
    BY <1>3 DEF Beside, History
  <2> QED
    BY <1>1, <1>3, <2>1, BesideKeeps DEF ClusterIInv
<1> QED
  BY <1>2, <1>3, NextParts DEF ClusterIInv

\* The purge of a cluster's history deletes an operation that is not over only if a
\* retry reopened it after the cleanup had found it over, though it deletes by name
\* and clients go on requesting and retrying (CleanupByTargetUID, the core handlers).
THEOREM PurgeDeletesWhatItChecked == Spec => PurgesOnlyChecked
<1> DEFINE Spares == \A o \in Ops : state[o] # "absent" /\ state'[o] = "absent"
                                   => state[o] = "ended" \/ o \in behind
<1>1. Init => ClusterIInv
  BY ClusterInit
<1>2. ClusterIInv /\ [Next]_vars => ClusterIInv' /\ Spares
  BY ClusterStep
<1>3. Spec => [][Spares]_vars
  <2> HIDE DEF Spares
  <2> QED
    BY <1>1, <1>2, PTL DEF Spec
<1> QED
  BY <1>3 DEF PurgesOnlyChecked

\* Every variable has its type, and of a cluster's history nothing outlives the
\* object but the operations created after the cleanup had listed it or the object
\* was gone, and those of an object that had no finalizer yet: finalizeCluster purges
\* all the rest before it lets go, however often it is interrupted.
THEOREM OnlyLateOperationsOutliveCluster == Spec => []ClusterInvariant
<1>1. Init => ClusterIInv
  BY ClusterInit
<1>2. ClusterIInv /\ [Next]_vars => ClusterIInv'
  BY ClusterStep
<1>3. ClusterIInv => ClusterInvariant
  BY DEF ClusterIInv, ClusterInvariant
<1> QED
  BY <1>1, <1>2, <1>3, PTL DEF Spec

=============================================================================
