-------------------------------- MODULE Backups --------------------------------
(***************************************************************************)
(* The backups of one cluster: the API handlers that back up, delete and   *)
(* recover, and the backup controller, which derives a backup's status     *)
(* from the operation that its label names.  The engine is what            *)
(* TargetQueue promises.                                                   *)
(*                                                                         *)
(* The controller works on the informer's copies and changes them in       *)
(* place; writes are conditional on the resourceVersion.                   *)
(***************************************************************************)
EXTENDS TargetQueue, FiniteSets

CONSTANTS
    Backup,       \* the backups
    Scenarios     \* what clients do, see ScenarioAssumption

Actions == {"BackupCluster", "RecoverCluster", "DeleteBackup"}

\* asks: what the request that owns o asks for; of: the backup it is about; past:
\* the backup operations that ended before the behaviour begins, one for a backup;
\* lost: those of them that failed; deletes: whether a client deletes the cluster;
\* retries: bound on manual retries (the code has none).
ASSUME ScenarioAssumption ==
    \A s \in Scenarios :
        /\ s.asks \in [Ops -> Actions] /\ s.of \in [Ops -> Backup] /\ s.retries \in Nat
        /\ s.past \subseteq Ops /\ s.lost \subseteq s.past /\ s.deletes \in BOOLEAN
        /\ \A o, p \in s.past : s.asks[o] = "BackupCluster" /\ (s.of[o] = s.of[p] => o = p)

VARIABLES
    phase,     \* the cluster's phase, or "Gone"
    phaseSeen, \* what the controller makes of the phase in the cluster informer
    current,   \* the handlers whose copy of the cluster is still current
    req,       \* [Ops -> pc of the request's handler]
    outcome,   \* [Ops -> how the operation ended last]
    unsettled, \* the ended operations that the business reconciler has yet to apply
    reported,  \* the operations whose task results have the file's size and MD5
    failed,    \* history: the operations that have failed at some time
    bk,        \* [Backup -> the object in the store]
    holds,     \* the handlers whose copy of their backup is still current
    cache,     \* [Backup -> the informer's copy]
    synced,    \* the backups whose informer copy has the store's resourceVersion
    opSeen,    \* [Ops -> the phase in the operation informer]
    queued,    \* the backups in the controller's workqueue
    retries,
    given      \* the scenario of this behaviour

ActionOf == given.asks
BackupOf == given.of
bounds == <<retries, given>>

cluVars == <<phase, current>>
opVars == <<state, age, busy, outcome, unsettled, reported, failed>>
bkVars == <<bk, holds, synced>>
infVars == <<cache, opSeen, phaseSeen, queued>>
vars == <<cluVars, req, opVars, bkVars, infVars, bounds>>

NoOp == "none"

Absent == [alive |-> FALSE, status |-> "none", op |-> NoOp]

Statuses == {"none", "creating", "available", "restoring", "error"}
BackupObject == [alive : BOOLEAN, status : Statuses, op : Ops \cup {NoOp}]
OpPhases == {"absent", "Pending", "Running", "Succeeded", "Failed"}
Working == {"BackingUp", "Restoring", "Terminating"}
Phases == Working \cup {"Running", "UpdateFailed", "RestoreFailed", "Gone"}

TypeOK ==
    /\ phase \in Phases /\ phaseSeen \in {"Gone", "RestoreFailed", "other"}
    /\ current \subseteq Ops
    /\ req \in [Ops -> {"idle", "phase", "operation", "object", "phaseLast", "done"}]
    /\ state \in [Ops -> States] /\ busy \subseteq Ops
    /\ outcome \in [Ops -> {"none", "Succeeded", "Failed"}]
    /\ unsettled \subseteq Ops /\ reported \subseteq Ops /\ failed \subseteq Ops
    /\ bk \in [Backup -> BackupObject] /\ cache \in [Backup -> BackupObject]
    /\ holds \subseteq Ops
    /\ synced \subseteq Backup
    /\ opSeen \in [Ops -> OpPhases]
    /\ queued \subseteq Backup
    /\ retries \in 0..given.retries /\ given \in Scenarios

\* How a past operation ended, and the backup that it left.
PastOutcome(o) == IF o \in given.lost THEN "Failed" ELSE "Succeeded"

PastBackup(b) ==
    LET past == {o \in given.past : BackupOf[o] = b} IN
    IF past = {} THEN Absent
    ELSE [alive |-> TRUE, status |-> IF past \subseteq given.lost THEN "error" ELSE "available",
          op |-> CHOOSE o \in past : TRUE]

Init ==
    /\ given \in Scenarios
    /\ state = [o \in Ops |-> IF o \in given.past THEN "ended" ELSE "absent"]
    /\ age = [o \in Ops |-> IF o \in given.past THEN 1 ELSE 0]
    /\ busy = {}
    /\ phase = "Running" /\ phaseSeen = "other" /\ current = {}
    /\ req = [o \in Ops |-> IF o \in given.past THEN "done" ELSE "idle"]
    /\ outcome = [o \in Ops |-> IF o \in given.past THEN PastOutcome(o) ELSE "none"]
    /\ unsettled = {} /\ reported = given.past \ given.lost /\ failed = given.lost
    /\ bk = [b \in Backup |-> PastBackup(b)] /\ cache = bk
    /\ holds = {} /\ synced = Backup
    /\ opSeen = [o \in Ops |-> IF o \in given.past THEN PastOutcome(o) ELSE "absent"]
    /\ queued = {}
    /\ retries = 0

-----------------------------------------------------------------------------
(***************************************************************************)
(* The store.                                                              *)
(***************************************************************************)
WriteCluster(p) == phase' = p /\ current' = {}

\* Any write of a backup outdates every copy of it.
WriteBackup(b, x) ==
    /\ bk' = [bk EXCEPT ![b] = x]
    /\ holds' = {o \in holds : BackupOf[o] # b}
    /\ synced' = synced \ {b}

CreateOperation(o) ==
    /\ age' = [age EXCEPT ![o] = 1 + Cardinality({p \in Ops : age[p] > 0})]
    /\ Submit(o)
    /\ UNCHANGED <<outcome, unsettled, reported, failed>>

Goto(o, pc) == req' = [req EXCEPT ![o] = pc]

-----------------------------------------------------------------------------
(***************************************************************************)
(* API handlers.  CreateBackup: operation, object, phase.  CreateRecovery: *)
(* phase, operation, label.  DeleteBackup: operation, deletion.            *)
(***************************************************************************)
\* The checks of CreateBackup, CreateRecovery and DeleteBackup.
Admitted(o) ==
    LET b == BackupOf[o] IN
    CASE ActionOf[o] = "BackupCluster" -> phase = "Running" /\ bk[b] = Absent
      [] ActionOf[o] = "RecoverCluster" -> phase \notin Working /\ bk[b].alive
      [] ActionOf[o] = "DeleteBackup" ->
            bk[b].alive /\ bk[b].status \notin {"restoring", "creating"}

CheckRequest(o) ==
    /\ req[o] = "idle" /\ phase # "Gone"
    /\ Admitted(o)
    /\ Goto(o, IF ActionOf[o] = "RecoverCluster" THEN "phase" ELSE "operation")
    /\ current' = current \cup {o} /\ holds' = holds \cup {o}
    /\ UNCHANGED <<phase, opVars, bk, synced, infVars, bounds>>

\* UpdateCluster with the working phase; a conflict ends the request.
UpdatePhase(o) ==
    /\ req[o] \in {"phase", "phaseLast"}
    /\ IF o \in current
       THEN /\ WriteCluster(IF ActionOf[o] = "RecoverCluster" THEN "Restoring" ELSE "BackingUp")
            /\ Goto(o, IF req[o] = "phase" THEN "operation" ELSE "done")
       ELSE Goto(o, "done") /\ UNCHANGED cluVars
    /\ UNCHANGED <<opVars, bkVars, infVars, bounds>>

CreateOperationV2(o) ==
    /\ req[o] = "operation"
    /\ CreateOperation(o)
    /\ Goto(o, "object")
    /\ UNCHANGED <<cluVars, bkVars, infVars, bounds>>

CreateBackup(o) ==
    /\ req[o] = "object" /\ ActionOf[o] = "BackupCluster"
    /\ WriteBackup(BackupOf[o], [alive |-> TRUE, status |-> "none", op |-> o])
    /\ Goto(o, "phaseLast")
    /\ UNCHANGED <<cluVars, opVars, infVars, bounds>>

\* The recovery's operation takes the place of the backup's in the label.
RelabelBackup(o) ==
    /\ req[o] = "object" /\ ActionOf[o] = "RecoverCluster"
    /\ IF o \in holds THEN WriteBackup(BackupOf[o], [bk[BackupOf[o]] EXCEPT !.op = o])
       ELSE UNCHANGED bkVars
    /\ Goto(o, "done")
    /\ UNCHANGED <<cluVars, opVars, infVars, bounds>>

DeleteBackup(o) ==
    /\ req[o] = "object" /\ ActionOf[o] = "DeleteBackup"
    /\ WriteBackup(BackupOf[o], Absent)
    /\ Goto(o, "done")
    /\ UNCHANGED <<cluVars, opVars, infVars, bounds>>

Request(o) ==
    \/ CheckRequest(o) \/ UpdatePhase(o) \/ CreateOperationV2(o)
    \/ CreateBackup(o) \/ RelabelBackup(o) \/ DeleteBackup(o)

\* DeleteCluster: refused while the cluster has backups.
DeleteCluster ==
    /\ given.deletes /\ phase \in {"Running", "UpdateFailed", "RestoreFailed"}
    /\ \A b \in Backup : ~bk[b].alive
    /\ WriteCluster("Terminating")
    /\ UNCHANGED <<req, opVars, bkVars, infVars, bounds>>

\* The delete operation has succeeded: finalizeCluster purges the history
\* and the object goes (ClusterLifecycle).
ClusterGone ==
    /\ phase = "Terminating"
    /\ \A o \in Ops : state[o] \in {"absent", "ended"}
    /\ WriteCluster("Gone")
    /\ state' = [o \in Ops |-> "absent"]
    /\ unsettled' = {}
    /\ UNCHANGED <<req, age, busy, outcome, reported, failed, bkVars, infVars, bounds>>

-----------------------------------------------------------------------------
(***************************************************************************)
(* The engine and the business reconciler.                                 *)
(***************************************************************************)
OpPhase(o) ==
    CASE state[o] = "absent" -> "absent"
      [] state[o] \in {"fresh", "reopened"} -> "Pending"
      [] state[o] = "running" -> "Running"
      [] OTHER -> outcome[o]

Run(o) ==
    /\ Begin(o)
    /\ UNCHANGED <<outcome, unsettled, reported, failed, cluVars, req, bkVars, infVars, bounds>>

\* A step may succeed without the output that names the file.
Conclude(o) ==
    /\ End(o)
    /\ \/ /\ outcome' = [outcome EXCEPT ![o] = "Succeeded"]
          /\ \/ ActionOf[o] = "BackupCluster" /\ reported' = reported \cup {o}
             \/ UNCHANGED reported
          /\ UNCHANGED failed
       \/ /\ outcome' = [outcome EXCEPT ![o] = "Failed"]
          /\ failed' = failed \cup {o}
          /\ UNCHANGED reported
    /\ unsettled' = unsettled \cup {o}
    /\ UNCHANGED <<cluVars, req, bkVars, infVars, bounds>>

Retry(o) ==
    /\ outcome[o] = "Failed" /\ retries < given.retries
    /\ Reopen(o)
    /\ retries' = retries + 1
    /\ unsettled' = unsettled \ {o}
    /\ UNCHANGED <<outcome, reported, failed, cluVars, req, bkVars, infVars, given>>

\* BusinessReconciler: the outcome becomes the cluster's phase.
Settle(o) ==
    /\ o \in unsettled
    /\ unsettled' = unsettled \ {o}
    /\ phase # "Gone"
    /\ WriteCluster(IF outcome[o] = "Succeeded" THEN "Running"
                    ELSE IF ActionOf[o] = "RecoverCluster" THEN "RestoreFailed"
                    ELSE "UpdateFailed")
    /\ UNCHANGED <<req, state, age, busy, outcome, reported, failed, bkVars, infVars, bounds>>

-----------------------------------------------------------------------------
(***************************************************************************)
(* The backup controller.                                                  *)
(***************************************************************************)
\* The backup informer catches up; the object's event wakes the controller.
DeliverBackup(b) ==
    /\ b \notin synced
    /\ cache' = [cache EXCEPT ![b] = bk[b]]
    /\ synced' = synced \cup {b}
    /\ queued' = queued \cup {b}
    /\ UNCHANGED <<bk, holds, cluVars, req, opVars, opSeen, phaseSeen, bounds>>

\* mapObjectsForOperation: an operation's event wakes the backups whose label
\* names it, as far as the informer has them.
DeliverOperation(o) ==
    /\ opSeen[o] # OpPhase(o)
    /\ opSeen' = [opSeen EXCEPT ![o] = OpPhase(o)]
    /\ queued' = queued \cup {b \in Backup : cache[b].alive /\ cache[b].op = o}
    /\ UNCHANGED <<cluVars, req, opVars, bkVars, cache, phaseSeen, bounds>>

\* The cluster informer catches up, which wakes nobody here.
Told == IF phase \in {"Gone", "RestoreFailed"} THEN phase ELSE "other"

DeliverCluster ==
    /\ phaseSeen # Told
    /\ phaseSeen' = Told
    /\ UNCHANGED <<cluVars, req, opVars, bkVars, cache, opSeen, queued, bounds>>

\* The resync, every ten hours.
Resync ==
    /\ queued' = {b \in Backup : cache[b].alive}
    /\ UNCHANGED <<cluVars, req, opVars, bkVars, cache, opSeen, phaseSeen, bounds>>

\* A new leader or a restarted server begins with what the store has.
Restart ==
    /\ cache' = bk /\ synced' = Backup
    /\ opSeen' = [o \in Ops |-> OpPhase(o)] /\ phaseSeen' = Told
    /\ queued' = {b \in Backup : bk[b].alive}
    /\ UNCHANGED <<cluVars, req, opVars, bk, holds, bounds>>

\* Mutant: a success is not told from a failure.
NewStatus_AnyOutcome(b, o) ==
    LET p == opSeen[o]
        s == cache[b].status IN
    CASE p = "absent" -> "error"
      [] p = "Running" /\ ActionOf[o] = "BackupCluster" -> "creating"
      [] p = "Running" /\ ActionOf[o] = "RecoverCluster" -> "restoring"
      [] p \in {"Succeeded", "Failed"} /\ s = "creating" -> "available"
      [] OTHER -> s

\* Mutant: nothing is done for an operation that failed.
NewStatus_NoError(b, o) ==
    LET p == opSeen[o]
        s == cache[b].status IN
    CASE p = "absent" -> "error"
      [] p = "Running" /\ ActionOf[o] = "BackupCluster" -> "creating"
      [] p = "Succeeded" /\ s = "creating" -> "available"
      [] OTHER -> s

\* An operation that backed up without telling size and MD5: an error is returned
\* before anything is written, and the backup comes up again.
Unreported(b, o) ==
    /\ opSeen[o] = "Succeeded" /\ ActionOf[o] = "BackupCluster"
    /\ cache[b].status = "creating" /\ o \notin reported

\* updateBackupStatus for a backup whose label names o.
NewStatus(b, o) ==
    LET p == opSeen[o]
        s == cache[b].status
        backingUp == ActionOf[o] = "BackupCluster" IN
    CASE p = "absent" -> "error"
      [] p = "Running" -> IF backingUp THEN "creating" ELSE "restoring"
      [] p = "Failed" -> IF phaseSeen = "RestoreFailed" THEN "available" ELSE "error"
      [] /\ p = "Succeeded" /\ s = (IF backingUp THEN "creating" ELSE "restoring")
         /\ ~Unreported(b, o) -> "available"
      [] OTHER -> s

\* The copy in the cache is changed whether or not the write goes through, and
\* an unchanged object is not written.  Only the failure to write "error" for
\* a missing operation, and a missing report, are retried.
UpdateStatus(b) ==
    LET o == cache[b].op
        s == NewStatus(b, o) IN
    /\ cache' = [cache EXCEPT ![b].status = s]
    /\ IF b \in synced /\ bk[b].status # s THEN WriteBackup(b, [bk[b] EXCEPT !.status = s])
       ELSE UNCHANGED bkVars
    /\ queued' = IF (b \notin synced /\ opSeen[o] = "absent") \/ Unreported(b, o)
                 THEN queued ELSE queued \ {b}

\* Mutant: the backups of a cluster that is gone are kept.
Reconcile_KeepsBackup(b) ==
    /\ b \in queued
    /\ IF cache[b].alive /\ phaseSeen # "Gone" THEN UpdateStatus(b)
       ELSE queued' = queued \ {b} /\ UNCHANGED <<bkVars, cache>>
    /\ UNCHANGED <<cluVars, req, opVars, opSeen, phaseSeen, bounds>>

Reconcile(b) ==
    /\ b \in queued
    /\ IF ~cache[b].alive THEN queued' = queued \ {b} /\ UNCHANGED <<bkVars, cache>>
       ELSE IF phaseSeen = "Gone"
       THEN WriteBackup(b, Absent) /\ queued' = queued \ {b} /\ UNCHANGED cache
       ELSE UpdateStatus(b)
    /\ UNCHANGED <<cluVars, req, opVars, opSeen, phaseSeen, bounds>>

-----------------------------------------------------------------------------
Next ==
    \/ \E o \in Ops : Request(o) \/ Run(o) \/ Conclude(o) \/ Retry(o) \/ Settle(o)
                      \/ DeliverOperation(o)
    \/ \E b \in Backup : DeliverBackup(b) \/ Reconcile(b)
    \/ DeleteCluster \/ ClusterGone \/ DeliverCluster \/ Resync \/ Restart

Spec == Init /\ [][Next]_vars

\* Handlers finish, operations run and end, events arrive, the workqueue is
\* worked off and the resync comes round.  Clients owe nothing.
Fairness ==
    /\ \A o \in Ops :
         /\ WF_vars(UpdatePhase(o)) /\ WF_vars(CreateOperationV2(o))
         /\ WF_vars(CreateBackup(o) \/ RelabelBackup(o) \/ DeleteBackup(o))
         /\ WF_vars(Run(o)) /\ WF_vars(Conclude(o)) /\ WF_vars(Settle(o))
         /\ WF_vars(DeliverOperation(o))
    /\ \A b \in Backup : WF_vars(DeliverBackup(b)) /\ WF_vars(Reconcile(b))
    /\ WF_vars(ClusterGone) /\ WF_vars(DeliverCluster) /\ WF_vars(Resync)

FairSpec == Spec /\ Fairness

-----------------------------------------------------------------------------
(***************************************************************************)
(* Properties.                                                             *)
(***************************************************************************)
\* A backup operation of b has succeeded: there is a file.
Made(b) ==
    \E o \in Ops :
        ActionOf[o] = "BackupCluster" /\ BackupOf[o] = b /\ outcome[o] = "Succeeded"

\* A recovery from b is over: updateBackupStatus then calls b available without
\* asking how it was made.
RecoveryOver(b) ==
    \E o \in Ops :
        ActionOf[o] = "RecoverCluster" /\ BackupOf[o] = b /\ outcome[o] # "none"

\* The backup of b failed, and so did a recovery of the cluster from whatever backup:
\* the controller asks the cluster, not the operation, whether it was the recovery.
Misjudged(b) ==
    /\ \E o \in failed : ActionOf[o] = "BackupCluster" /\ BackupOf[o] = b
    /\ \E o \in failed : ActionOf[o] = "RecoverCluster"

\* A backup that is offered for restoring was really made, or a recovery from it is
\* over, whatever the controller's informers showed when it decided; the code's one
\* mistake is the failed backup beside a failed recovery (updateBackupStatus).
AvailableMeansMade ==
    \A b \in Backup :
        bk[b].alive /\ bk[b].status = "available" => Made(b) \/ RecoveryOver(b) \/ Misjudged(b)

\* Every variable has its type, and an available backup was made (updateBackupStatus).
BackupInvariant == TypeOK /\ AvailableMeansMade

\* A recovery was asked for before the controller had seen the backup's own
\* operation end: nothing leads out of "creating" then.
Mislabelled(b) ==
    bk[b].status = "creating" /\ ActionOf[bk[b].op] = "RecoverCluster"

\* The backup operation succeeded and its results do not have size and MD5: the
\* controller returns the same error for ever.
FileUnknown(b) ==
    /\ bk[b].status = "creating" /\ ActionOf[bk[b].op] = "BackupCluster"
    /\ outcome[bk[b].op] = "Succeeded" /\ bk[b].op \notin reported

\* A backup does not stay in a transient status, in which it cannot be deleted:
\* lost updates and stale copies are made good (updateBackupStatus, resync).
\* The code gives up where nothing leads out of "creating".
TransientSettles ==
    \A b \in Backup :
        bk[b].status \in {"creating", "restoring"} ~>
            bk[b].status \notin {"creating", "restoring"} \/ Mislabelled(b)
            \/ FileUnknown(b)

\* Backups that slip in beside the deletion of their cluster go with it
\* (DeleteCluster's check, updateBackupStatus).
GoneWithCluster == phase = "Gone" ~> \A b \in Backup : ~bk[b].alive

=============================================================================
