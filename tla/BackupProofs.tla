----------------------------- MODULE BackupProofs -----------------------------
(***************************************************************************)
(* Proofs about the backups of a cluster, for every set of operations and  *)
(* backups, every scenario of requests and every number of retries.        *)
(*                                                                         *)
(* A backup becomes available because of what the controller's caches say, *)
(* so the argument follows a success from the engine through the operation *)
(* informer and the label into the status.                                 *)
(***************************************************************************)
EXTENDS Backups, TLAPS

\* An operation's outcome is there only once it was created, and a success is final.
OutcomesFinal ==
    \A o \in Ops :
        /\ req[o] \in {"idle", "phase", "operation"} => state[o] = "absent" /\ outcome[o] = "none"
        /\ outcome[o] = "Succeeded" => state[o] \in {"absent", "ended"}
        /\ state[o] = "ended" => outcome[o] # "none"
        /\ o \in unsettled => outcome[o] # "none"
        /\ outcome[o] = "Failed" => o \in failed

\* What the operation informer shows as over is over.
SeenIsOver ==
    \A o \in Ops :
        /\ opSeen[o] = "Succeeded" => outcome[o] = "Succeeded"
        /\ opSeen[o] = "Failed" => outcome[o] # "none" /\ o \in failed

\* The label of a backup, and of the informer's copy of it, names an operation on it.
Labelled(x, b) ==
    x.alive => /\ x.op \in Ops /\ BackupOf[x.op] = b
               /\ ActionOf[x.op] \in {"BackupCluster", "RecoverCluster"}

\* A backup is called available, in the store or in the cache, for a reason.
Reason(b) == Made(b) \/ RecoveryOver(b) \/ Misjudged(b)

Deserved(x, b) == x.status = "available" => Reason(b)

\* A cluster in RestoreFailed, in the store or in the informer, has had a recovery fail.
RecoveryFailed ==
    "RestoreFailed" \in {phase, phaseSeen} => \E o \in failed : ActionOf[o] = "RecoverCluster"

BackupIInv ==
    /\ TypeOK
    /\ OutcomesFinal /\ SeenIsOver /\ RecoveryFailed
    /\ \A b \in Backup : /\ Labelled(bk[b], b) /\ Labelled(cache[b], b)
                         /\ Deserved(bk[b], b) /\ Deserved(cache[b], b)

-----------------------------------------------------------------------------
(***************************************************************************)
(* Type correctness, for every scenario.                                   *)
(***************************************************************************)
\* A handler's step keeps the types.
LEMMA RequestTyped ==
    ASSUME TypeOK, NEW o \in Ops, Request(o) PROVE TypeOK'
<1> USE DEF TypeOK, cluVars, opVars, bkVars, infVars, bounds
<1>s. BackupOf[o] \in Backup
  BY ScenarioAssumption DEF BackupOf
<1>1. CASE CheckRequest(o)
  BY <1>1 DEF CheckRequest, Goto
<1>2. CASE UpdatePhase(o)
  BY <1>2 DEF UpdatePhase, WriteCluster, Goto, Phases, Working
<1>3. CASE CreateOperationV2(o)
  BY <1>3 DEF CreateOperationV2, CreateOperation, Submit, Move, Goto, States
<1>4. CASE CreateBackup(o)
  <2>1. [alive |-> TRUE, status |-> "none", op |-> o] \in BackupObject
    BY DEF BackupObject, Statuses
  <2> QED
    BY <1>4, <1>s, <2>1 DEF CreateBackup, WriteBackup, Goto
<1>5. CASE RelabelBackup(o)
  <2>1. [bk[BackupOf[o]] EXCEPT !.op = o] \in BackupObject
    BY <1>s DEF BackupObject
  <2> QED
    BY <1>5, <1>s, <2>1 DEF RelabelBackup, WriteBackup, Goto
<1>6. CASE DeleteBackup(o)
  <2>1. Absent \in BackupObject
    BY DEF BackupObject, Statuses, Absent
  <2> QED
    BY <1>6, <1>s, <2>1 DEF DeleteBackup, WriteBackup, Goto
<1> QED
  BY <1>1, <1>2, <1>3, <1>4, <1>5, <1>6 DEF Request

\* The phase that the operation informer reads is one of its phases.
LEMMA OpPhaseTyped ==
    ASSUME TypeOK, OutcomesFinal, NEW o \in Ops PROVE OpPhase(o) \in OpPhases
  BY DEF TypeOK, OutcomesFinal, OpPhase, OpPhases, States

\* The status that the controller computes is one.
LEMMA NewStatusTyped ==
    ASSUME TypeOK, NEW b \in Backup, NEW o PROVE NewStatus(b, o) \in Statuses
<1>1. cache[b].status \in Statuses
  BY DEF TypeOK, BackupObject
<1> QED
  BY <1>1 DEF NewStatus, Statuses

\* A reconciliation of a backup keeps the types.
LEMMA ReconcileTyped ==
    ASSUME TypeOK, NEW b \in Backup, Reconcile(b) PROVE TypeOK'
<1> USE DEF TypeOK, cluVars, opVars, bkVars, infVars, bounds
<1>1. CASE ~cache[b].alive
  BY <1>1 DEF Reconcile
<1>2. CASE cache[b].alive /\ phaseSeen = "Gone"
  <2>1. Absent \in BackupObject
    BY DEF BackupObject, Statuses, Absent
  <2> QED
    BY <1>2, <2>1 DEF Reconcile, WriteBackup
<1>3. CASE cache[b].alive /\ phaseSeen # "Gone"
  <2> DEFINE s == NewStatus(b, cache[b].op)
  <2>1. s \in Statuses
    BY NewStatusTyped
  <2>2. UpdateStatus(b) /\ UNCHANGED <<cluVars, req, opVars, opSeen, phaseSeen, bounds>>
    BY <1>3 DEF Reconcile
  <2>3. cache' = [cache EXCEPT ![b].status = s]
    BY <2>2 DEF UpdateStatus
  <2>4. \/ WriteBackup(b, [bk[b] EXCEPT !.status = s])
        \/ UNCHANGED bkVars
    BY <2>2 DEF UpdateStatus
  <2>5. queued' \subseteq Backup
    BY <2>2 DEF UpdateStatus
  <2> HIDE DEF s
  <2>6. cache' \in [Backup -> BackupObject]
    BY <2>1, <2>3 DEF BackupObject
  <2>7. [bk[b] EXCEPT !.status = s] \in BackupObject
    BY <2>1 DEF BackupObject
  <2>8. bk' \in [Backup -> BackupObject] /\ holds' \subseteq Ops /\ synced' \subseteq Backup
    BY <2>4, <2>7 DEF WriteBackup
  <2> QED
    BY <2>2, <2>5, <2>6, <2>8
<1> QED
  BY <1>1, <1>2, <1>3

\* Every step keeps the types.
LEMMA BackupStepTyped ==
    ASSUME TypeOK, OutcomesFinal, [Next]_vars PROVE TypeOK'
<1> USE DEF TypeOK, cluVars, opVars, bkVars, infVars, bounds
<1>1. ASSUME NEW o \in Ops, Request(o) PROVE TypeOK'
  BY <1>1, RequestTyped
<1>2. ASSUME NEW o \in Ops, Run(o) PROVE TypeOK'
  BY <1>2 DEF Run, Begin, Move, States
<1>3. ASSUME NEW o \in Ops, Conclude(o) PROVE TypeOK'
  BY <1>3 DEF Conclude, End, Move, States
<1>4. ASSUME NEW o \in Ops, Retry(o) PROVE TypeOK'
  <2>1. given \in Scenarios /\ given.retries \in Nat /\ retries + 1 \in 0..given.retries
    BY <1>4, ScenarioAssumption DEF Retry
  <2> QED
    BY <1>4, <2>1 DEF Retry, Reopen, Move, States
<1>5. ASSUME NEW o \in Ops, Settle(o) PROVE TypeOK'
  BY <1>5 DEF Settle, WriteCluster, Phases, Working
<1>6. ASSUME NEW o \in Ops, DeliverOperation(o) PROVE TypeOK'
  BY <1>6, OpPhaseTyped DEF DeliverOperation
<1>7. ASSUME NEW b \in Backup, DeliverBackup(b) PROVE TypeOK'
  BY <1>7 DEF DeliverBackup
<1>8. ASSUME NEW b \in Backup, Reconcile(b) PROVE TypeOK'
  BY <1>8, ReconcileTyped
<1>9. CASE DeleteCluster
  BY <1>9 DEF DeleteCluster, WriteCluster, Phases, Working
<1>10. CASE ClusterGone
  BY <1>10 DEF ClusterGone, WriteCluster, States, Phases
<1>11. CASE Resync
  BY <1>11 DEF Resync
<1>12. CASE Restart
  BY <1>12, OpPhaseTyped DEF Restart, Told
<1>13. CASE DeliverCluster
  BY <1>13 DEF DeliverCluster, Told
<1>14. CASE UNCHANGED vars
  BY <1>14 DEF vars
<1> QED
  BY <1>1, <1>2, <1>3, <1>4, <1>5, <1>6, <1>7, <1>8, <1>9, <1>10, <1>11, <1>12, <1>13, <1>14
     DEF Next

-----------------------------------------------------------------------------
(***************************************************************************)
(* Outcomes: what is over stays over.                                      *)
(***************************************************************************)
\* No step takes a success back, makes an operation that ended unended or forgets a
\* failure.
OutcomesStay ==
    /\ \A o \in Ops : /\ outcome[o] = "Succeeded" => outcome'[o] = "Succeeded"
                      /\ outcome[o] # "none" => outcome'[o] # "none"
    /\ failed \subseteq failed'

\* Operations are created by a request that is about to, begin, end and are reopened.
LEMMA OutcomesStep ==
    ASSUME TypeOK, OutcomesFinal, [Next]_vars
    PROVE  OutcomesFinal' /\ OutcomesStay /\ given' = given
<1> USE DEF TypeOK, OutcomesFinal, OutcomesStay, cluVars, opVars, bkVars, infVars, bounds
<1>1. ASSUME NEW o \in Ops, Request(o)
      PROVE  OutcomesFinal' /\ OutcomesStay /\ given' = given
  <2>1. CASE CheckRequest(o)
    BY <2>1 DEF CheckRequest, Goto
  <2>2. CASE UpdatePhase(o)
    BY <2>2 DEF UpdatePhase, Goto
  <2>3. CASE CreateOperationV2(o)
    BY <2>3 DEF CreateOperationV2, CreateOperation, Submit, Move, Goto
  <2>4. CASE CreateBackup(o) \/ RelabelBackup(o) \/ DeleteBackup(o)
    BY <2>4 DEF CreateBackup, RelabelBackup, DeleteBackup, Goto
  <2> QED
    BY <1>1, <2>1, <2>2, <2>3, <2>4 DEF Request
<1>2. ASSUME NEW o \in Ops, Run(o)
      PROVE  OutcomesFinal' /\ OutcomesStay /\ given' = given
  BY <1>2 DEF Run, Begin, Move
<1>3. ASSUME NEW o \in Ops, Conclude(o)
      PROVE  OutcomesFinal' /\ OutcomesStay /\ given' = given
  BY <1>3 DEF Conclude, End, Move
<1>4. ASSUME NEW o \in Ops, Retry(o)
      PROVE  OutcomesFinal' /\ OutcomesStay /\ given' = given
  BY <1>4 DEF Retry, Reopen, Move
<1>5. ASSUME NEW o \in Ops, Settle(o) \/ DeliverOperation(o)
      PROVE  OutcomesFinal' /\ OutcomesStay /\ given' = given
  BY <1>5 DEF Settle, DeliverOperation
<1>6. ASSUME NEW b \in Backup, DeliverBackup(b) \/ Reconcile(b)
      PROVE  OutcomesFinal' /\ OutcomesStay /\ given' = given
  BY <1>6 DEF DeliverBackup, Reconcile
<1>7. CASE DeleteCluster \/ DeliverCluster \/ Resync \/ Restart
  BY <1>7 DEF DeleteCluster, DeliverCluster, Resync, Restart
<1>8. CASE ClusterGone
  BY <1>8 DEF ClusterGone
<1>9. CASE UNCHANGED vars
  BY <1>9 DEF vars
<1> QED
  BY <1>1, <1>2, <1>3, <1>4, <1>5, <1>6, <1>7, <1>8, <1>9 DEF Next

\* A reason to call a backup available stays one.
LEMMA ReasonsStay ==
    ASSUME OutcomesStay, given' = given, NEW b
    PROVE  Reason(b) => Reason(b)'
  BY DEF OutcomesStay, Reason, Made, RecoveryOver, Misjudged, ActionOf, BackupOf

\* The informer shows an outcome only once the store has it.
LEMMA SeenStep ==
    ASSUME TypeOK, OutcomesFinal, OutcomesFinal', OutcomesStay, SeenIsOver, [Next]_vars
    PROVE  SeenIsOver'
<1>1. CASE \E o \in Ops : DeliverOperation(o)
  <2>1. PICK o \in Ops : DeliverOperation(o)
    BY <1>1
  <2>2. opSeen' = [opSeen EXCEPT ![o] = OpPhase(o)]
    BY <2>1 DEF DeliverOperation
  <2> QED
    BY <2>1, <2>2 DEF TypeOK, OutcomesFinal, OutcomesStay, SeenIsOver, OpPhase, States
<1>2. CASE Restart
  <2>1. opSeen' = [o \in Ops |-> OpPhase(o)]
    BY <1>2 DEF Restart
  <2> QED
    BY <2>1 DEF TypeOK, OutcomesFinal, OutcomesStay, SeenIsOver, OpPhase, States
<1>3. CASE UNCHANGED opSeen
  BY <1>3 DEF OutcomesStay, SeenIsOver
<1>4. (\E o \in Ops : DeliverOperation(o)) \/ Restart \/ UNCHANGED opSeen
  BY DEF Next, Request, CheckRequest, UpdatePhase, CreateOperationV2, CreateBackup,
         RelabelBackup, DeleteBackup, Run, Conclude, Retry, Settle, DeliverBackup, Reconcile,
         DeleteCluster, ClusterGone, DeliverCluster, Resync, vars, infVars
<1> QED
  BY <1>1, <1>2, <1>3, <1>4

\* The cluster is in RestoreFailed, or shown so, because of a recovery that failed.
LEMMA RecoveryFailedStep ==
    ASSUME TypeOK, OutcomesFinal, OutcomesStay, given' = given, RecoveryFailed, [Next]_vars
    PROVE  RecoveryFailed'
<1> DEFINE Cause == \E o \in failed : ActionOf[o] = "RecoverCluster"
<1>1. Cause => Cause'
  BY DEF OutcomesStay, ActionOf
<1>2. phase' = "RestoreFailed" => Cause \/ phase = "RestoreFailed"
  <2>1. CASE \E o \in Ops : Settle(o)
    <3>1. PICK o \in Ops : Settle(o)
      BY <2>1
    <3>2. /\ o \in unsettled
          /\ phase' = IF outcome[o] = "Succeeded" THEN "Running"
                      ELSE IF ActionOf[o] = "RecoverCluster" THEN "RestoreFailed"
                      ELSE "UpdateFailed"
      BY <3>1 DEF Settle, WriteCluster
    <3>3. outcome[o] # "Succeeded" => o \in failed
      BY <3>2 DEF OutcomesFinal, TypeOK
    <3> QED
      BY <3>2, <3>3
  <2>2. (\E o \in Ops : Settle(o)) \/ phase' # "RestoreFailed" \/ phase' = phase
    BY DEF Next, Request, CheckRequest, UpdatePhase, CreateOperationV2, CreateBackup,
           RelabelBackup, DeleteBackup, Run, Conclude, Retry, DeliverOperation, DeliverBackup,
           Reconcile, DeleteCluster, ClusterGone, DeliverCluster, Resync, Restart, vars,
           cluVars, WriteCluster
  <2> QED
    BY <2>1, <2>2
<1>3. phaseSeen' = "RestoreFailed" => "RestoreFailed" \in {phase, phaseSeen}
  BY DEF Next, Request, CheckRequest, UpdatePhase, CreateOperationV2, CreateBackup,
         RelabelBackup, DeleteBackup, Run, Conclude, Retry, Settle, DeliverOperation,
         DeliverBackup, Reconcile, DeleteCluster, ClusterGone, DeliverCluster, Resync, Restart,
         vars, infVars, Told
<1> QED
  BY <1>1, <1>2, <1>3 DEF RecoveryFailed

-----------------------------------------------------------------------------
(***************************************************************************)
(* The backups.  updateBackupStatus asks the cluster, not the backup's own *)
(* operation, whether a recovery has failed: a failed backup beside a      *)
(* failed recovery is called available, which Misjudged says and no more.  *)
(***************************************************************************)
\* The status that the controller computes from its caches is deserved.
LEMMA NewStatusDeserved ==
    ASSUME BackupIInv, NEW b \in Backup, cache[b].alive,
           NewStatus(b, cache[b].op) = "available"
    PROVE  Reason(b)
<1> DEFINE o == cache[b].op
<1>1. /\ o \in Ops /\ BackupOf[o] = b
      /\ ActionOf[o] \in {"BackupCluster", "RecoverCluster"}
  BY DEF BackupIInv, Labelled
<1>2. \/ opSeen[o] = "Failed" /\ phaseSeen = "RestoreFailed"
      \/ opSeen[o] = "Succeeded"
      \/ cache[b].status = "available"
  BY DEF NewStatus
<1>3. CASE opSeen[o] = "Failed" /\ phaseSeen = "RestoreFailed"
  <2>1. PICK p \in failed : ActionOf[p] = "RecoverCluster"
    BY <1>3 DEF BackupIInv, RecoveryFailed
  <2>2. outcome[o] # "none" /\ o \in failed
    BY <1>1, <1>3 DEF BackupIInv, SeenIsOver
  <2> QED
    BY <1>1, <2>1, <2>2 DEF Reason, RecoveryOver, Misjudged
<1>4. CASE opSeen[o] = "Succeeded"
  <2>1. outcome[o] = "Succeeded"
    BY <1>1, <1>4 DEF BackupIInv, SeenIsOver
  <2> QED
    BY <1>1, <2>1 DEF Reason, Made, RecoveryOver
<1>5. CASE cache[b].status = "available"
  BY <1>5 DEF BackupIInv, Deserved
<1> QED
  BY <1>2, <1>3, <1>4, <1>5

\* The objects in the store and in the cache, after each step.
Sound == \A b \in Backup : /\ Labelled(bk[b], b) /\ Labelled(cache[b], b)
                           /\ Deserved(bk[b], b) /\ Deserved(cache[b], b)

\* Every step leaves labels that name operations on the backup, and statuses that are
\* deserved, in the store and in the informer's copy of it.
LEMMA ObjectsStep ==
    ASSUME BackupIInv, [Next]_vars, OutcomesStay, given' = given
    PROVE  Sound'
<1> DEFINE Why(b) == Reason(b)'
           Names(o, b) == /\ o \in Ops /\ given'.of[o] = b
                          /\ given'.asks[o] \in {"BackupCluster", "RecoverCluster"}
           Good(x, b) == /\ x.alive => Names(x.op, b)
                         /\ x.status = "available" => Why(b)
<1>t. /\ bk \in [Backup -> BackupObject] /\ cache \in [Backup -> BackupObject]
      /\ \A o \in Ops : BackupOf[o] \in Backup
  BY ScenarioAssumption DEF BackupIInv, TypeOK, BackupOf
<1>k. \A b \in Backup : Good(bk[b], b) /\ Good(cache[b], b)
  BY ReasonsStay DEF BackupIInv, Labelled, Deserved, ActionOf, BackupOf
<1>q. ASSUME \A b \in Backup : Good(bk'[b], b) /\ Good(cache'[b], b)
      PROVE  Sound'
  BY <1>q DEF Sound, Labelled, Deserved, ActionOf, BackupOf
<1>a. \A b : Good(Absent, b)
  BY DEF Absent
<1>n. \A o \in Ops : ActionOf[o] # "DeleteBackup" => Names(o, BackupOf[o])
  BY ScenarioAssumption DEF BackupIInv, TypeOK, ActionOf, BackupOf, Actions
<1> HIDE DEF Names, Why
<1>1. ASSUME NEW o \in Ops, CreateBackup(o) PROVE Sound'
  <2> DEFINE x == [alive |-> TRUE, status |-> "none", op |-> o]
  <2>1. bk' = [bk EXCEPT ![BackupOf[o]] = x] /\ UNCHANGED cache /\ ActionOf[o] = "BackupCluster"
    BY <1>1 DEF CreateBackup, WriteBackup, infVars
  <2>2. Good(x, BackupOf[o])
    BY <1>n, <2>1
  <2> QED
    BY <1>k, <1>q, <1>t, <2>1, <2>2
<1>2. ASSUME NEW o \in Ops, RelabelBackup(o) PROVE Sound'
  <2> DEFINE b == BackupOf[o]
             x == [bk[b] EXCEPT !.op = o]
  <2>1. UNCHANGED cache /\ ActionOf[o] = "RecoverCluster"
    BY <1>2 DEF RelabelBackup, infVars
  <2>2. x.alive = bk[b].alive /\ x.status = bk[b].status /\ x.op = o /\ b \in Backup
    BY <1>t DEF BackupObject
  <2>3. Good(x, b)
    BY <1>k, <1>n, <2>1, <2>2
  <2>4. bk' = [bk EXCEPT ![b] = x] \/ UNCHANGED bk
    BY <1>2 DEF RelabelBackup, WriteBackup, bkVars
  <2> QED
    BY <1>k, <1>q, <1>t, <2>1, <2>2, <2>3, <2>4
<1>3. ASSUME NEW o \in Ops, DeleteBackup(o) PROVE Sound'
  <2>1. bk' = [bk EXCEPT ![BackupOf[o]] = Absent] /\ UNCHANGED cache
    BY <1>3 DEF DeleteBackup, WriteBackup, infVars
  <2> QED
    BY <1>a, <1>k, <1>q, <1>t, <2>1
<1>4. ASSUME NEW b \in Backup, DeliverBackup(b) PROVE Sound'
  <2>1. cache' = [cache EXCEPT ![b] = bk[b]] /\ UNCHANGED bk
    BY <1>4 DEF DeliverBackup
  <2> QED
    BY <1>k, <1>q, <1>t, <2>1
<1>5. ASSUME NEW b \in Backup, Reconcile(b) PROVE Sound'
  <2>1. CASE ~cache[b].alive
    BY <1>5, <1>k, <1>q, <2>1 DEF Reconcile, bkVars
  <2>2. CASE cache[b].alive /\ phaseSeen = "Gone"
    <3>1. bk' = [bk EXCEPT ![b] = Absent] /\ UNCHANGED cache
      BY <1>5, <2>2 DEF Reconcile, WriteBackup
    <3> QED
      BY <1>a, <1>k, <1>q, <1>t, <3>1
  <2>3. CASE cache[b].alive /\ phaseSeen # "Gone"
    <3> DEFINE s == NewStatus(b, cache[b].op)
               x == [bk[b] EXCEPT !.status = s]
               y == [cache[b] EXCEPT !.status = s]
    <3>1. UpdateStatus(b)
      BY <1>5, <2>3 DEF Reconcile
    <3>2. s = "available" => Why(b)
      BY <2>3, NewStatusDeserved, ReasonsStay DEF Why
    <3>3. cache' = [cache EXCEPT ![b] = y] /\ (bk' = [bk EXCEPT ![b] = x] \/ UNCHANGED bk)
      BY <3>1, <1>t DEF UpdateStatus, WriteBackup, bkVars
    <3> HIDE DEF s
    <3>4. /\ x.alive = bk[b].alive /\ x.op = bk[b].op /\ x.status = s
          /\ y.alive = cache[b].alive /\ y.op = cache[b].op /\ y.status = s
      BY <1>t DEF BackupObject
    <3> HIDE DEF x, y
    <3>5. Good(x, b) /\ Good(y, b)
      BY <1>k, <3>2, <3>4
    <3> QED
      BY <1>k, <1>q, <1>t, <3>3, <3>5
  <2> QED
    BY <2>1, <2>2, <2>3
<1>6. CASE Restart
  <2>1. cache' = bk /\ UNCHANGED bk
    BY <1>6 DEF Restart
  <2> QED
    BY <1>k, <1>q, <2>1
<1>7. CASE UNCHANGED <<bk, cache>>
  BY <1>7, <1>k, <1>q
<1>8. \/ \E o \in Ops : CreateBackup(o) \/ RelabelBackup(o) \/ DeleteBackup(o)
      \/ \E b \in Backup : DeliverBackup(b) \/ Reconcile(b)
      \/ Restart \/ UNCHANGED <<bk, cache>>
  BY DEF Next, Request, CheckRequest, UpdatePhase, CreateOperationV2, Run, Conclude, Retry,
         Settle, DeliverOperation, DeleteCluster, ClusterGone, DeliverCluster, Resync, vars,
         bkVars, infVars
<1> QED
  BY <1>1, <1>2, <1>3, <1>4, <1>5, <1>6, <1>7, <1>8

-----------------------------------------------------------------------------
(***************************************************************************)
(* The theorems.                                                           *)
(***************************************************************************)
\* A behaviour may begin with backups that were made, or not, before.
LEMMA BackupInit == ASSUME Init PROVE BackupIInv
<1>s. /\ given \in Scenarios /\ given.asks \in [Ops -> Actions] /\ given.of \in [Ops -> Backup]
      /\ given.past \subseteq Ops /\ given.lost \subseteq given.past /\ given.retries \in Nat
  BY ScenarioAssumption DEF Init
<1>u. \A o, p \in given.past :
        given.asks[o] = "BackupCluster" /\ (given.of[o] = given.of[p] => o = p)
  BY <1>s, ScenarioAssumption
<1>1. ASSUME NEW b \in Backup
      PROVE  /\ bk[b] = PastBackup(b) /\ cache[b] = PastBackup(b)
             /\ \/ PastBackup(b) = Absent
                \/ \E o \in given.past :
                     /\ given.of[o] = b
                     /\ PastBackup(b) = [alive |-> TRUE, op |-> o,
                                          status |-> IF o \in given.lost THEN "error" ELSE "available"]
  <2> DEFINE past == {o \in given.past : given.of[o] = b}
             x == CHOOSE o \in past : TRUE
  <2>1. bk[b] = PastBackup(b) /\ cache[b] = PastBackup(b)
    BY DEF Init
  <2>2. CASE past = {}
    BY <2>1, <2>2 DEF PastBackup, BackupOf
  <2>3. CASE past # {}
    <3>1. x \in past
      BY <2>3
    <3>2. past \subseteq given.lost <=> x \in given.lost
      BY <1>u, <3>1
    <3>3. PastBackup(b) = [alive |-> TRUE, op |-> x,
                           status |-> IF past \subseteq given.lost THEN "error" ELSE "available"]
      BY <2>3 DEF PastBackup, BackupOf
    <3> QED
      BY <2>1, <3>1, <3>2, <3>3
  <2> QED
    BY <2>2, <2>3
<1>2. ASSUME NEW b \in Backup PROVE PastBackup(b) \in BackupObject
  <2>1. Absent \in BackupObject
    BY DEF BackupObject, Statuses, Absent
  <2>2. \A o \in Ops : \A t \in Statuses :
          [alive |-> TRUE, op |-> o, status |-> t] \in BackupObject
    BY DEF BackupObject
  <2>3. {"error", "available"} \subseteq Statuses
    BY DEF Statuses
  <2> QED
    BY <1>1, <1>s, <2>1, <2>2, <2>3
<1>3. bk \in [Backup -> BackupObject] /\ cache = bk
  BY <1>2 DEF Init
<1>4. TypeOK
  BY <1>s, <1>3 DEF Init, TypeOK, States, OpPhases, Phases, PastOutcome
<1>5. OutcomesFinal /\ SeenIsOver /\ RecoveryFailed
  BY <1>s DEF Init, OutcomesFinal, SeenIsOver, RecoveryFailed, PastOutcome
<1>6. ASSUME NEW b \in Backup PROVE Labelled(bk[b], b) /\ Deserved(bk[b], b)
  <2>1. CASE PastBackup(b) = Absent
    BY <1>1, <2>1 DEF Absent, Labelled, Deserved
  <2>2. ASSUME NEW o \in given.past, given.of[o] = b,
               bk[b] = [alive |-> TRUE, op |-> o,
                        status |-> IF o \in given.lost THEN "error" ELSE "available"]
        PROVE  Labelled(bk[b], b) /\ Deserved(bk[b], b)
    <3>1. o \in Ops /\ given.asks[o] = "BackupCluster"
      BY <1>s, <1>u
    <3>2. o \notin given.lost => outcome[o] = "Succeeded"
      BY <3>1 DEF Init, PastOutcome
    <3>3. bk[b].op = o /\ (bk[b].status = "available" => o \notin given.lost)
      BY <2>2
    <3> QED
      BY <2>2, <3>1, <3>2, <3>3 DEF Labelled, Deserved, Reason, Made, ActionOf, BackupOf
  <2> QED
    BY <1>1, <2>1, <2>2
<1> QED
  BY <1>3, <1>4, <1>5, <1>6 DEF BackupIInv

\* Every step preserves the inductive invariant.
LEMMA BackupStep ==
    ASSUME BackupIInv, [Next]_vars PROVE BackupIInv'
<1>1. TypeOK'
  BY BackupStepTyped DEF BackupIInv
<1>2. OutcomesFinal' /\ OutcomesStay /\ given' = given
  BY OutcomesStep DEF BackupIInv
<1>3. SeenIsOver' /\ RecoveryFailed'
  BY <1>2, SeenStep, RecoveryFailedStep DEF BackupIInv
<1>4. Sound'
  BY <1>2, ObjectsStep
<1> QED
  BY <1>1, <1>2, <1>3, <1>4 DEF BackupIInv, Sound

\* A backup that clients are offered was made, or a recovery from it is over, whatever
\* the caches showed and whenever the controller looked, unless its own operation and a
\* recovery of the cluster have both failed, which updateBackupStatus mixes up.
THEOREM AvailableBackupsWereMade == Spec => []BackupInvariant
<1>1. Init => BackupIInv
  BY BackupInit
<1>2. BackupIInv /\ [Next]_vars => BackupIInv'
  BY BackupStep
<1>3. BackupIInv => BackupInvariant
  BY DEF BackupIInv, BackupInvariant, AvailableMeansMade, Deserved, Reason
<1> QED
  BY <1>1, <1>2, <1>3, PTL DEF Spec

\* A success is never taken back, by a retry, a purge or a later request
\* (RetryOperation, BusinessReconciler), in any scenario.
THEOREM SuccessIsFinal == Spec => [][OutcomesStay]_vars
<1> DEFINE Inv == TypeOK /\ OutcomesFinal
<1>1. Init => Inv
  BY BackupInit DEF BackupIInv
<1>2. Inv /\ [Next]_vars => Inv'
  BY BackupStepTyped, OutcomesStep
<1>3. Inv /\ [Next]_vars => [OutcomesStay]_vars
  BY OutcomesStep
<1> QED
  BY <1>1, <1>2, <1>3, PTL DEF Spec

=============================================================================
