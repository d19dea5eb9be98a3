--------------------------- MODULE ClusterLifecycle ---------------------------
(***************************************************************************)
(* One cluster object: the core API handlers that put it in a working      *)
(* phase and start an operation, the engine as its promise (TargetQueue),  *)
(* the business reconciler that turns the outcome into a phase, and the    *)
(* cluster controller with the purge of the history on deletion.           *)
(*                                                                         *)
(* Writes of the cluster are conditional on its resourceVersion: a copy    *)
(* that was read is "current" until anything is written.                   *)
(***************************************************************************)
EXTENDS TargetQueue, FiniteSets

CONSTANT Scenarios   \* what clients do and what may go wrong, see ScenarioAssumption

Actions == {"CreateCluster", "DeleteCluster", "ForceDelete", "UpgradeCluster",
            "RecoverCluster", "AddNodes", "InstallComponents", "BackupCluster",
            "UpdateCertification", "SyncKubeConfig", "UpdateRegistries", "ResetStatus"}

\* asks: what the request that owns o asks for; existing: whether the cluster
\* exists, with its finalizer, at the start; retries: bound on manual retries (the
\* code has none); faults: bound on handlers that die and on other writers;
\* outage: whether calls of the cluster controller may fail for a time.  One
\* object is followed, so it is created once and not after it existed.
ASSUME ScenarioAssumption ==
    \A s \in Scenarios :
        /\ s.asks \in [Ops -> Actions]
        /\ s.existing \in BOOLEAN /\ s.outage \in BOOLEAN
        /\ s.retries \in Nat /\ s.faults \in Nat
        /\ \A o, p \in Ops : s.asks[o] = "CreateCluster" =>
              ~s.existing /\ (s.asks[p] = "CreateCluster" => p = o)

VARIABLES
    clu,       \* the cluster object
    current,   \* the holders of a copy of it that is still current
    req,       \* [Ops -> pc of the request's handler]
    outcome,   \* [Ops -> how the operation ended last]
    seen,      \* [Ops -> the outcome that the informer cache shows]
    queued,    \* the operations in the business controller's workqueue
    pass,      \* the pending operations that a Reconcile has yet to look at
    fin,       \* the finalizer's progress
    cri,       \* the registries, against those in the cluster's status
    calls,     \* whether the calls that the cluster controller makes succeed
    behind,    \* history: operations created or reopened behind the cleanup's back
    retries, faults,
    given      \* the scenario of this behaviour

ActionOf == given.asks

cluVars == <<clu, current>>
opVars == <<state, age, busy, outcome>>
bizVars == <<seen, queued>>
ctlVars == <<pass, fin, cri>>
bounds == <<calls, retries, faults, given>>
vars == <<cluVars, req, opVars, bizVars, ctlVars, behind, bounds>>

WorkingPhases ==
    {"Installing", "Updating", "Upgrading", "BackingUp", "Restoring", "Terminating"}
FailedPhases ==
    {"InstallFailed", "UpdateFailed", "UpgradeFailed", "RestoreFailed", "TerminateFailed"}
Phases == {"Running"} \cup WorkingPhases \cup FailedPhases

Controller == "controller"   \* the cluster controller as a holder of a copy

Idle == [pc |-> "idle", ops |-> {}, left |-> {}]

NewCluster(phase, finalizer) ==
    [alive |-> TRUE, phase |-> phase, version |-> "initial", finalizer |-> finalizer,
     deleting |-> FALSE, pending |-> {}, client |-> finalizer]

NoCluster == [NewCluster("Running", FALSE) EXCEPT !.alive = FALSE]

TypeOK ==
    /\ clu \in [alive : BOOLEAN, phase : Phases, version : {"initial"} \cup Ops,
                finalizer : BOOLEAN, deleting : BOOLEAN, pending : SUBSET Ops,
                client : BOOLEAN]
    /\ current \subseteq Ops \cup {Controller}
    /\ req \in [Ops -> {"idle", "phase", "operation", "phaseLast", "done"}]
    /\ state \in [Ops -> States] /\ busy \subseteq Ops
    /\ outcome \in [Ops -> {"none", "Succeeded", "Failed"}]
    /\ seen \in [Ops -> {"none", "Succeeded", "Failed"}]
    /\ queued \subseteq Ops
    /\ pass \subseteq Ops
    /\ fin \in [pc : {"idle", "verify", "purge", "release"},
                ops : SUBSET Ops, left : SUBSET Ops]
    /\ cri \in {"same", "differ", "pushed"}
    /\ calls \in {"ok", "failing", "restored"}
    /\ behind \subseteq Ops
    /\ retries \in 0..given.retries /\ faults \in 0..given.faults
    /\ given \in Scenarios

Init ==
    /\ given \in Scenarios
    /\ QueueInit
    /\ clu = IF given.existing THEN NewCluster("Running", TRUE) ELSE NoCluster
    /\ current = {}
    /\ req = [o \in Ops |-> "idle"]
    /\ outcome = [o \in Ops |-> "none"]
    /\ seen = [o \in Ops |-> "none"]
    /\ queued = {}
    /\ pass = {} /\ fin = Idle /\ cri = "same"
    /\ calls = "ok" /\ behind = {}
    /\ retries = 0 /\ faults = 0

-----------------------------------------------------------------------------
(***************************************************************************)
(* The store: conditional writes, deletion with a finalizer.               *)
(***************************************************************************)
Write(c) == clu' = c /\ current' = {}

\* Operation history of the cluster.
History == {o \in Ops : state[o] # "absent"}

\* Delete by name: with a finalizer the object stays and is marked, without one
\* it goes at once and nobody cleans up after it.
Delete ==
    IF clu.finalizer THEN Write([clu EXCEPT !.deleting = TRUE]) /\ UNCHANGED behind
    ELSE Write(NoCluster) /\ behind' = behind \cup History

\* An operation that appears once the cleanup has listed the history, or when
\* the object is gone, is behind its back.
CreateOperation(o) ==
    /\ age' = [age EXCEPT ![o] = 1 + Cardinality({p \in Ops : age[p] > 0})]
    /\ Submit(o)
    /\ behind' = IF fin.pc # "idle" \/ ~clu.alive THEN behind \cup {o} ELSE behind
    /\ UNCHANGED outcome

-----------------------------------------------------------------------------
(***************************************************************************)
(* Core API handlers.                                                      *)
(***************************************************************************)
WorkPhase(a) ==
    CASE a = "CreateCluster" -> "Installing"
      [] a = "DeleteCluster" -> "Terminating"
      [] a = "UpgradeCluster" -> "Upgrading"
      [] a = "BackupCluster" -> "BackingUp"
      [] a = "RecoverCluster" -> "Restoring"
      [] a = "ResetStatus" -> "Running"
      [] OTHER -> "Updating"

AllowedDeleteStatus == {"Running"} \cup FailedPhases

\* What each handler checks on the cluster it has read.
Admitted(a) ==
    CASE a = "DeleteCluster" -> clu.phase \in AllowedDeleteStatus
      [] a = "ForceDelete" -> clu.phase \in AllowedDeleteStatus
      [] a = "BackupCluster" -> clu.phase = "Running"
      [] a = "RecoverCluster" -> clu.phase \notin WorkingPhases \ {"Upgrading"}
      [] a = "ResetStatus" -> clu.phase # "Running"
      [] OTHER -> TRUE

\* These two create the operation first and write the phase last.
PhaseLast == {"BackupCluster", "UpdateCertification"}

InFlight == {o \in Ops : req[o] \notin {"idle", "done"}}

\* Nobody requests these: the cluster controller starts them.
Internal == {"SyncKubeConfig", "UpdateRegistries"}

\* GetClusterEx and the checks: the handler holds a copy of the cluster.
ReadCluster(o) ==
    /\ req[o] = "idle"
    /\ ActionOf[o] \notin {"CreateCluster"} \cup Internal
    /\ clu.alive /\ Admitted(ActionOf[o])
    /\ req' = [req EXCEPT ![o] =
                 IF ActionOf[o] \in PhaseLast THEN "operation" ELSE "phase"]
    /\ current' = current \cup {o}
    /\ UNCHANGED <<clu, opVars, bizVars, ctlVars, behind, bounds>>

\* Nothing follows the phase for these: AddNodes leaves its operation to the
\* cluster controller.
Single == {"AddNodes", "ResetStatus"} \cup PhaseLast

\* UpdateCluster with the working phase; a conflict ends the request.
UpdatePhase(o) ==
    /\ req[o] \in {"phase", "phaseLast"}
    /\ ActionOf[o] \notin {"CreateCluster", "ForceDelete"}
    /\ IF o \in current
       THEN /\ Write([clu EXCEPT !.phase = WorkPhase(ActionOf[o]),
                                 !.pending = IF ActionOf[o] = "AddNodes"
                                             THEN @ \cup {o} ELSE @])
            /\ req' = [req EXCEPT ![o] =
                         IF ActionOf[o] \in Single THEN "done" ELSE "operation"]
       ELSE req' = [req EXCEPT ![o] = "done"] /\ UNCHANGED cluVars
    /\ UNCHANGED <<opVars, bizVars, ctlVars, behind, bounds>>

\* CreateCluster: the object is created in the working phase.
CreateCluster(o) ==
    /\ req[o] = "idle"
    /\ ActionOf[o] = "CreateCluster"
    /\ ~clu.alive
    /\ Write(NewCluster("Installing", FALSE))
    /\ req' = [req EXCEPT ![o] = "operation"]
    /\ UNCHANGED <<opVars, bizVars, ctlVars, behind, bounds>>

\* DeleteCluster with force and no master left: deleted at once, by name.
ForceDelete(o) ==
    /\ req[o] = "phase" /\ ActionOf[o] = "ForceDelete"
    /\ IF clu.alive THEN Delete ELSE UNCHANGED <<cluVars, behind>>
    /\ req' = [req EXCEPT ![o] = "done"]
    /\ UNCHANGED <<opVars, bizVars, ctlVars, bounds>>

CreateOperationV2(o) ==
    /\ req[o] = "operation"
    /\ CreateOperation(o)
    /\ req' = [req EXCEPT ![o] = IF ActionOf[o] \in PhaseLast THEN "phaseLast" ELSE "done"]
    /\ UNCHANGED <<cluVars, bizVars, ctlVars, bounds>>

Request(o) ==
    ReadCluster(o) \/ UpdatePhase(o) \/ CreateCluster(o) \/ ForceDelete(o)
    \/ CreateOperationV2(o)

-----------------------------------------------------------------------------
(***************************************************************************)
(* The engine, as far as TargetQueue promises it.                          *)
(***************************************************************************)
Run(o) == Begin(o) /\ UNCHANGED outcome

Conclude(o) ==
    /\ End(o)
    /\ \E x \in {"Succeeded", "Failed"} : outcome' = [outcome EXCEPT ![o] = x]

CancelPending(o) == Withdraw(o) /\ outcome' = [outcome EXCEPT ![o] = "Failed"]

\* What the cleanup has found to be over and means to delete.
Checked == IF fin.pc = "verify" THEN fin.ops \ fin.left
           ELSE IF fin.pc = "purge" THEN fin.left ELSE {}

\* The API reopens an operation whatever becomes of its cluster.
Retry(o) ==
    /\ outcome[o] = "Failed" /\ retries < given.retries
    /\ Reopen(o)
    /\ retries' = retries + 1
    /\ behind' = IF o \in Checked THEN behind \cup {o} ELSE behind
    /\ UNCHANGED outcome

Engine(o) ==
    /\ \/ (Run(o) \/ Conclude(o) \/ CancelPending(o)) /\ UNCHANGED <<retries, behind>>
       \/ Retry(o)
    /\ UNCHANGED <<cluVars, req, bizVars, ctlVars, calls, faults, given>>

-----------------------------------------------------------------------------
(***************************************************************************)
(* The business reconciler.                                                *)
(***************************************************************************)
Terminal(o) == IF state[o] = "ended" THEN outcome[o] ELSE "none"

\* The watch brings the informer up to date and wakes the controller.
Deliver(o) ==
    /\ seen[o] # Terminal(o)
    /\ seen' = [seen EXCEPT ![o] = Terminal(o)]
    /\ queued' = queued \cup {o}
    /\ UNCHANGED <<cluVars, req, opVars, ctlVars, behind, bounds>>

\* A resync (ten hours), a restart or a new leader: every known operation is queued again.
Replay ==
    /\ seen' = [o \in Ops |-> Terminal(o)]
    /\ queued' = History
    /\ UNCHANGED <<cluVars, req, opVars, ctlVars, behind, bounds>>

FailedClusterPhase(a) ==
    CASE a = "CreateCluster" -> "InstallFailed"
      [] a = "DeleteCluster" -> "TerminateFailed"
      [] a = "UpgradeCluster" -> "UpgradeFailed"
      [] a = "RecoverCluster" -> "RestoreFailed"
      [] a = "AddNodes" -> "Running"
      [] OTHER -> "UpdateFailed"

Upgraded(o) == ActionOf[o] = "UpgradeCluster" /\ seen[o] = "Succeeded"

Desired(o) ==
    IF seen[o] = "Succeeded" THEN "Running" ELSE FailedClusterPhase(ActionOf[o])

\* updateCluster: read, modify, conditional write, again on a conflict.
UpdateCluster(o) ==
    /\ IF clu.phase = Desired(o) /\ ~Upgraded(o) THEN UNCHANGED cluVars
       ELSE Write([clu EXCEPT !.phase = Desired(o),
                              !.version = IF Upgraded(o) THEN o ELSE @])
    /\ UNCHANGED behind

\* Mutant: only successes are applied.
Apply_IgnoresFailure(o) ==
    IF ActionOf[o] = "DeleteCluster" /\ seen[o] = "Succeeded" THEN Delete
    ELSE IF seen[o] = "Failed" THEN UNCHANGED <<cluVars, behind>>
    ELSE UpdateCluster(o)

\* Reconcile of an operation that the cache shows as terminal.
Apply(o) ==
    IF ActionOf[o] = "DeleteCluster" /\ seen[o] = "Succeeded" THEN Delete
    ELSE IF ActionOf[o] = "SyncKubeConfig" THEN UNCHANGED <<cluVars, behind>>
    ELSE UpdateCluster(o)

BusinessReconcile(o) ==
    /\ o \in queued
    /\ queued' = queued \ {o}
    /\ IF seen[o] # "none" /\ clu.alive THEN Apply(o) ELSE UNCHANGED <<cluVars, behind>>
    /\ UNCHANGED <<seen, req, opVars, ctlVars, bounds>>

-----------------------------------------------------------------------------
(***************************************************************************)
(* The cluster controller.                                                 *)
(***************************************************************************)
AddFinalizer ==
    /\ clu.alive /\ ~clu.deleting /\ ~clu.finalizer
    /\ Write([clu EXCEPT !.finalizer = TRUE])
    /\ UNCHANGED <<req, opVars, bizVars, ctlVars, behind, bounds>>

\* A worker takes up the cluster again when it is done with it.
Between == pass = {} /\ fin.pc = "idle" /\ cri # "pushed"

\* The rest of Reconcile runs for a cluster that has its finalizer.  An error of
\* a call (node labels, registries, the check of the credentials, an old version
\* of the cluster) ends it, or leaves out a pending operation, and changes nothing.
Reconciled == Between /\ clu.alive /\ ~clu.deleting /\ clu.finalizer /\ calls # "failing"

Installing == clu.phase \in {"Installing", "InstallFailed"}

\* updateCRIRegistries on a running cluster whose registries have changed: an
\* operation brings them to the nodes, ...
CreateRegistryUpdate(o) ==
    /\ Reconciled /\ clu.phase = "Running" /\ cri = "differ"
    /\ ActionOf[o] = "UpdateRegistries" /\ state[o] = "absent"
    /\ CreateOperation(o)
    /\ cri' = "pushed"
    /\ current' = current \cup {Controller}
    /\ UNCHANGED <<clu, req, bizVars, pass, fin, bounds>>

\* ... then the status takes them over.  After a conflict the next pass starts with
\* another operation, or takes the registries for pushed: the informer's copy of the
\* status has been changed already.
WriteRegistries ==
    /\ cri = "pushed"
    /\ IF Controller \in current /\ calls # "failing" THEN Write(clu) /\ cri' = "same"
       ELSE cri' \in {"same", "differ"} /\ UNCHANGED cluVars
    /\ UNCHANGED <<req, opVars, bizVars, pass, fin, behind, bounds>>

\* What follows is reached once the registries agree.
Registered == cri = "same" \/ clu.phase # "Running"

\* syncClusterClient: the first time, an operation fetches the credentials ...
CreateKubeConfigSync(o) ==
    /\ Reconciled /\ Registered /\ ~Installing /\ ~clu.client
    /\ ActionOf[o] = "SyncKubeConfig" /\ state[o] = "absent"
    /\ CreateOperation(o)
    /\ pass' = clu.pending
    /\ UNCHANGED <<cluVars, req, bizVars, fin, cri, bounds>>

\* ... and its success gives the cluster its client.
SyncClusterClient(o) ==
    /\ Reconciled /\ Registered /\ ~Installing /\ ~clu.client
    /\ ActionOf[o] = "SyncKubeConfig" /\ Terminal(o) = "Succeeded"
    /\ Write([clu EXCEPT !.client = TRUE])
    /\ UNCHANGED <<req, opVars, bizVars, ctlVars, behind, bounds>>

\* processPendingOperations is reached when syncClusterClient has no error:
\* the client is there, is not needed yet, or was asked for in this Reconcile.
Synced == Registered /\ (Installing \/ clu.client)

CreatePending(o) ==
    /\ \/ o \in pass /\ clu.alive /\ calls # "failing"
       \/ Reconciled /\ Synced /\ o \in clu.pending
    /\ state[o] = "absent"
    /\ CreateOperation(o)
    /\ pass' = pass \ {o}
    /\ UNCHANGED <<cluVars, req, bizVars, fin, cri, bounds>>

SkipPending(o) ==
    /\ o \in pass /\ (state[o] # "absent" \/ ~clu.alive \/ calls = "failing")
    /\ pass' = pass \ {o}
    /\ UNCHANGED <<cluVars, req, opVars, bizVars, fin, cri, behind, bounds>>

\* Mutant: an operation that is not found counts as processed.
CleanPending_NotFound ==
    /\ Reconciled /\ Synced
    /\ clu.pending # {} /\ \A o \in clu.pending : state[o] \in {"ended", "absent"}
    /\ Write([clu EXCEPT !.pending = {}])
    /\ UNCHANGED <<req, opVars, bizVars, ctlVars, behind, bounds>>

CleanPending ==
    /\ Reconciled /\ Synced
    /\ clu.pending # {} /\ \A o \in clu.pending : state[o] = "ended"
    /\ Write([clu EXCEPT !.pending = {}])
    /\ UNCHANGED <<req, opVars, bizVars, ctlVars, behind, bounds>>

\* finalizeCluster and CleanupByTargetUID: list the history ...
ListHistory ==
    /\ Between /\ clu.alive /\ clu.deleting
    /\ fin' = [pc |-> IF History = {} THEN "release" ELSE "verify",
               ops |-> History, left |-> History]
    /\ current' = current \cup {Controller}
    /\ behind' = {}
    /\ UNCHANGED <<clu, req, opVars, bizVars, pass, cri, bounds>>

\* Mutant: an active operation is left out instead of refusing.
VerifyTerminal_LeavesOut(o) ==
    /\ fin.pc = "verify" /\ o \in fin.left
    /\ LET mine == IF state[o] # "ended" THEN fin.ops \ {o} ELSE fin.ops IN
       fin' = IF fin.left # {o} THEN [fin EXCEPT !.left = @ \ {o}, !.ops = mine]
              ELSE [pc |-> IF mine = {} THEN "release" ELSE "purge",
                    ops |-> mine, left |-> mine]
    /\ UNCHANGED <<cluVars, req, opVars, bizVars, pass, cri, behind, bounds>>

\* Mutant: the phase is not looked at.
VerifyTerminal_Unchecked(o) ==
    /\ fin.pc = "verify" /\ o \in fin.left
    /\ fin' = IF fin.left = {o} THEN [fin EXCEPT !.pc = "purge", !.left = fin.ops]
              ELSE [fin EXCEPT !.left = @ \ {o}]
    /\ UNCHANGED <<cluVars, req, opVars, bizVars, pass, cri, behind, bounds>>

\* ... re-read every operation with a quorum read and refuse while one is
\* active ...
VerifyTerminal(o) ==
    /\ fin.pc = "verify" /\ o \in fin.left
    /\ fin' = IF state[o] # "ended" THEN Idle
              ELSE IF fin.left = {o} THEN [fin EXCEPT !.pc = "purge", !.left = fin.ops]
              ELSE [fin EXCEPT !.left = @ \ {o}]
    /\ UNCHANGED <<cluVars, req, opVars, bizVars, pass, cri, behind, bounds>>

\* ... delete them by name ...
PurgeHistory(o) ==
    /\ fin.pc = "purge" /\ o \in fin.left
    /\ state' = [state EXCEPT ![o] = "absent"]
    /\ fin' = IF fin.left = {o} THEN [Idle EXCEPT !.pc = "release"]
              ELSE [fin EXCEPT !.left = @ \ {o}]
    /\ behind' = behind \ {o}
    /\ UNCHANGED <<cluVars, req, age, busy, outcome, bizVars, pass, cri, bounds>>

\* Mutant: after a conflict the same copy is written again.
RemoveFinalizer_SameCopy ==
    /\ fin.pc = "release"
    /\ IF Controller \in current THEN fin' = Idle /\ Write(NoCluster)
       ELSE UNCHANGED <<fin, cluVars>>
    /\ UNCHANGED <<req, opVars, bizVars, pass, cri, behind, bounds>>

\* ... and take the finalizer off, which removes the object; a conflict starts
\* the whole cleanup again.
RemoveFinalizer ==
    /\ fin.pc = "release"
    /\ fin' = Idle
    /\ IF Controller \in current THEN Write(NoCluster) ELSE UNCHANGED cluVars
    /\ UNCHANGED <<req, opVars, bizVars, pass, cri, behind, bounds>>

\* A call fails or the server stops: the next Reconcile begins anew.
CleanupFails ==
    /\ fin.pc # "idle" /\ calls = "failing"
    /\ fin' = Idle
    /\ UNCHANGED <<cluVars, req, opVars, bizVars, pass, cri, behind, bounds>>

Finalize ==
    \/ ListHistory \/ (\E o \in Ops : VerifyTerminal(o) \/ PurgeHistory(o))
    \/ RemoveFinalizer \/ CleanupFails

ClusterReconcile ==
    \/ AddFinalizer \/ CleanPending \/ Finalize \/ WriteRegistries
    \/ \E o \in Ops : CreateRegistryUpdate(o) \/ CreateKubeConfigSync(o) \/ SyncClusterClient(o)
                      \/ CreatePending(o) \/ SkipPending(o)

-----------------------------------------------------------------------------
\* A server stops, or a call fails, between two writes of a handler.
HandlerDies(o) ==
    /\ faults < given.faults /\ faults' = faults + 1
    /\ o \in InFlight
    /\ req' = [req EXCEPT ![o] = "done"]
    /\ UNCHANGED <<cluVars, opVars, bizVars, ctlVars, behind, calls, retries, given>>

\* Another party (the status monitor, a label change) writes the cluster.
OtherWrite ==
    /\ faults < given.faults /\ faults' = faults + 1
    /\ clu.alive /\ current # {}
    /\ Write(clu)
    /\ UNCHANGED <<req, opVars, bizVars, ctlVars, behind, calls, retries, given>>

\* The cluster controller's calls fail for a time (one outage per behaviour).
Outage ==
    /\ \/ given.outage /\ calls = "ok" /\ calls' = "failing"
       \/ calls = "failing" /\ calls' = "restored"
    /\ UNCHANGED <<cluVars, req, opVars, bizVars, ctlVars, behind, retries, faults, given>>

\* Somebody changes a registry that the cluster refers to, while there is an
\* operation of the model left to push it.
ChangeRegistry ==
    /\ cri = "same" /\ \E o \in Ops : ActionOf[o] = "UpdateRegistries" /\ state[o] = "absent"
    /\ cri' = "differ"
    /\ UNCHANGED <<cluVars, req, opVars, bizVars, pass, fin, behind, bounds>>

Next ==
    \/ \E o \in Ops : Request(o) \/ Engine(o) \/ Deliver(o) \/ BusinessReconcile(o)
                      \/ HandlerDies(o)
    \/ ClusterReconcile \/ Replay \/ OtherWrite \/ Outage \/ ChangeRegistry

Spec == Init /\ [][Next]_vars

\* A handler, a started purge and the controllers go on, events arrive, and
\* the engine ends what it runs (EveryOperationSettles).  Clients and retries
\* are not owed anything.
Fairness ==
    /\ \A o \in Ops :
         /\ WF_vars(UpdatePhase(o)) /\ WF_vars(CreateOperationV2(o)) /\ WF_vars(ForceDelete(o))
         /\ WF_vars(Run(o) /\ UNCHANGED <<cluVars, req, bizVars, ctlVars, behind, bounds>>)
         /\ WF_vars(Conclude(o) /\ UNCHANGED <<cluVars, req, bizVars, ctlVars, behind, bounds>>)
         /\ WF_vars(Deliver(o)) /\ WF_vars(BusinessReconcile(o))
         /\ WF_vars(CreatePending(o)) /\ WF_vars(SkipPending(o)) /\ WF_vars(VerifyTerminal(o)) /\ WF_vars(PurgeHistory(o))
         /\ WF_vars(CreateKubeConfigSync(o)) /\ WF_vars(SyncClusterClient(o))
         /\ WF_vars(CreateRegistryUpdate(o))
    /\ WF_vars(Replay) /\ WF_vars(WriteRegistries)
    /\ WF_vars(AddFinalizer) /\ WF_vars(CleanPending)
    /\ WF_vars(ListHistory) /\ WF_vars(RemoveFinalizer)

FairSpec == Spec /\ Fairness

-----------------------------------------------------------------------------
(***************************************************************************)
(* Properties.                                                             *)
(***************************************************************************)
\* The purge deletes by name, some time after it has looked, and clients retry
\* whenever they like: the operations that are over when they are deleted, and
\* otherwise only those that a retry reopened in between (CleanupByTargetUID).
PurgesOnlyChecked ==
    [][\A o \in Ops : state[o] # "absent" /\ state'[o] = "absent"
                       => state[o] = "ended" \/ o \in behind]_vars

\* The cluster object goes last.  What outlives it was created after the cleanup
\* had listed the history or the object was gone, or belonged to an object that was
\* deleted before it had its finalizer (finalizeCluster, the handlers' late
\* CreateOperation).
OnlyLateOrphans == ~clu.alive => History \subseteq behind

\* Every variable has its type, and nothing but a late operation outlives the
\* cluster (FailedClusterPhase names a phase for every action, finalizeCluster
\* purges before it lets go).
ClusterInvariant == TypeOK /\ OnlyLateOrphans

\* A successful delete operation ends with the object gone, through resyncs,
\* restarts, conflicts, retries, late requests and unfinished history, unless
\* the controller's calls keep failing (Reconcile, finalizeCluster).
DeletionCompletes ==
    (\E o \in Ops : ActionOf[o] = "DeleteCluster" /\ outcome[o] = "Succeeded")
        ~> ~clu.alive \/ calls = "failing"

\* Where the code gives up: a handler that died between its two writes, and a
\* kubeconfig sync that failed, which keeps Reconcile from all that follows it.
Abandoned ==
    faults > 0 \/ \E o \in Ops : ActionOf[o] = "SyncKubeConfig" /\ outcome[o] = "Failed"

\* The bound on registry operations: after a conflict the code creates another one.
OutOfPushes ==
    cri = "differ" /\ \A o \in Ops : ActionOf[o] = "UpdateRegistries" => state[o] # "absent"

\* A working phase is left again once the request and the operation behind it
\* are over, whatever the order in which outcomes, retries, replays and phases
\* are written, unless the controller's calls keep failing, which starts and cleans
\* up operations (the handlers, BusinessReconciler.Reconcile).
WorkingPhaseSettles ==
    clu.phase \in WorkingPhases ~>
        clu.phase \notin WorkingPhases \/ Abandoned \/ calls = "failing"

\* Node operations that the API accepted and left to the cluster controller are
\* taken up, behind a push of registries and a kubeconfig sync, once the calls
\* before them succeed (updateCRIRegistries, syncClusterClient, processPendingOperations).
PendingIsStarted ==
    clu.pending # {} ~>
        \/ \E o \in Ops : ActionOf[o] = "AddNodes" /\ state[o] # "absent"
        \/ clu.deleting \/ ~clu.alive \/ calls = "failing" \/ OutOfPushes \/ Abandoned

=============================================================================
