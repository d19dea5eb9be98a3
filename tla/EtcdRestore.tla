----------------------------- MODULE EtcdRestore -----------------------------
(***************************************************************************)
(* The "recovery" step of a restore, as the agents of a cluster's masters  *)
(* execute it: Recovery.Install of pkg/scheme/core/v1/k8s/cluster.go, run  *)
(* by the CommandStep/v1 executor for one task per master.  The step moves *)
(* the static pod manifests and etcd's data aside, restores the snapshot   *)
(* and puts the manifests back; failedOperate undoes it.                   *)
(*                                                                         *)
(* A shell command joined with && is one action per part; a part is        *)
(* atomic.  Contents of etcd's directory are told apart by what they are   *)
(* to the task at hand: the data the task found ("before"), the restored   *)
(* snapshot, a copy an earlier recovery left behind ("older").             *)
(***************************************************************************)
EXTENDS Integers

CONSTANTS
    Masters,        \* the cluster's masters, all of them targets of the step
    Scenarios       \* records of
                    \*   faults    what may go wrong, a subset of AllFaults
                    \*   attempts  bound on retries and new recoveries

AllFaults == {"download", "mismatch", "read", "move", "host", "mkdir", "snapshot",
              "copy", "kubelet", "crash", "deadline"}

ASSUME RestoreAssumption ==
    \A s \in Scenarios : s.faults \subseteq AllFaults /\ s.attempts \in Nat \ {0}

VARIABLES
    files,      \* files[m]: the four directories FileDir names, on master m
    phase,      \* phase[m]: the phase of m's task
    at,         \* at[m]: the next part of the step on m; "idle" when no agent executes it
    attempts,   \* recoveries and retries asked for so far
    given       \* the scenario of this behaviour

bounds == <<attempts, given>>
restoreVars == <<files, phase, at, bounds>>

Faults == given.faults

Data == {"before", "snapshot", "older"}
Content == Data \cup {"absent", "empty"}
Directories == [manifests : BOOLEAN, tmpManifests : BOOLEAN, etcd : Content, tmpEtcd : Content]

Unsuccessful == {"Failed", "TimedOut", "Canceled"}
Phases == {"Pending", "Running", "Succeeded"} \cup Unsuccessful

Parts == {"idle", "download", "check", "clearManifests", "moveManifests", "waitStopped",
          "clearEtcd", "moveEtcd", "host", "mkdir", "snapshot", "copyManifests", "health",
          "kubelet", "resetRemove", "resetEtcd", "resetManifests"}

RestoreInit ==
    /\ given \in Scenarios
    /\ files = [m \in Masters |->
                  [manifests |-> TRUE, tmpManifests |-> FALSE, etcd |-> "before", tmpEtcd |-> "absent"]]
    /\ phase = [m \in Masters |-> "Pending"]
    /\ at = [m \in Masters |-> "idle"]
    /\ attempts = 1

-----------------------------------------------------------------------------
(* The agent around the step.                                              *)

(* The task is taken up, or taken up again after a restart.                *)
Start(m) ==
    /\ at[m] = "idle" /\ phase[m] \in {"Pending", "Running"}
    /\ phase' = [phase EXCEPT ![m] = "Running"]
    /\ at' = [at EXCEPT ![m] = "download"]
    /\ UNCHANGED <<files, bounds>>

(* The agent stops: the running command is killed, and with its context    *)
(* gone failedOperate's command is not started either.                     *)
Crash(m) ==
    /\ "crash" \in Faults /\ at[m] # "idle"
    /\ at' = [at EXCEPT ![m] = "idle"]
    /\ UNCHANGED <<files, phase, bounds>>

(* The task's deadline passes: the same, and the task is reported.         *)
Deadline(m) ==
    /\ "deadline" \in Faults /\ at[m] # "idle"
    /\ at' = [at EXCEPT ![m] = "idle"]
    /\ phase' = [phase EXCEPT ![m] = "TimedOut"]
    /\ UNCHANGED <<files, bounds>>

End(m, p) ==
    /\ at' = [at EXCEPT ![m] = "idle"]
    /\ phase' = [phase EXCEPT ![m] = p]
    /\ UNCHANGED bounds

Go(m, next) ==
    /\ at' = [at EXCEPT ![m] = next]
    /\ UNCHANGED <<phase, bounds>>

Goto(m, next) == Go(m, next) /\ UNCHANGED files
FailTask(m) == End(m, "Failed") /\ UNCHANGED files
Set(m, f) == files' = [files EXCEPT ![m] = f]

-----------------------------------------------------------------------------
(* Recovery.Download and BeforeRecovery.                                   *)

Download(m) ==
    /\ at[m] = "download"
    /\ \/ Goto(m, "check")
       \/ "download" \in Faults /\ FailTask(m)

(* A bug of this kind: the mismatch is assigned to err.                    *)
CheckFile_SetsErr(m) ==
    /\ at[m] = "check"
    /\ \/ Goto(m, "clearManifests")
       \/ Faults \cap {"mismatch", "read"} # {} /\ Goto(m, "resetRemove")

(* A file of the wrong size or sum is an error of its own, which err does  *)
(* not hold when the deferred function looks at it; one that cannot be     *)
(* read is in err.                                                         *)
CheckFile(m) ==
    /\ at[m] = "check"
    /\ \/ Goto(m, "clearManifests")
       \/ "mismatch" \in Faults /\ FailTask(m)
       \/ "read" \in Faults /\ Goto(m, "resetRemove")

(* rm -rf TmpStaticYaml && mv -bf ManifestsYaml TmpStaticYaml              *)
ClearManifests(m) ==
    /\ at[m] = "clearManifests"
    /\ Set(m, [files[m] EXCEPT !.tmpManifests = FALSE])
    /\ Go(m, "moveManifests")

MoveManifests(m) ==
    /\ at[m] = "moveManifests"
    /\ \/ /\ files[m].manifests
          /\ Set(m, [files[m] EXCEPT !.manifests = FALSE, !.tmpManifests = TRUE])
          /\ Go(m, "waitStopped")
       \/ /\ "move" \in Faults \/ ~files[m].manifests
          /\ Goto(m, "resetRemove")

(* kubectl is refused once the API server's pod is gone.                   *)
WaitStopped(m) ==
    /\ at[m] = "waitStopped"
    /\ Goto(m, "clearEtcd")

(* rm -rf TmpEtcdDataDir && mv -bf EtcdDataDir TmpEtcdDataDir              *)
ClearEtcd(m) ==
    /\ at[m] = "clearEtcd"
    /\ Set(m, [files[m] EXCEPT !.tmpEtcd = "absent"])
    /\ Go(m, "moveEtcd")

MoveEtcd(m) ==
    /\ at[m] = "moveEtcd"
    /\ \/ /\ files[m].etcd # "absent"
          /\ Set(m, [files[m] EXCEPT !.etcd = "absent", !.tmpEtcd = files[m].etcd])
          /\ Go(m, "host")
       \/ /\ "move" \in Faults \/ files[m].etcd = "absent"
          /\ Goto(m, "resetRemove")

-----------------------------------------------------------------------------
(* Recovery.Recovering.                                                    *)

(* The host's name, configuration and address are read before the deferred *)
(* function is in place.                                                   *)
HostInfo(m) ==
    /\ at[m] = "host"
    /\ \/ Goto(m, "mkdir")
       \/ "host" \in Faults /\ FailTask(m)

MakeDataDir(m) ==
    /\ at[m] = "mkdir"
    /\ \/ /\ Set(m, [files[m] EXCEPT !.etcd = IF @ = "absent" THEN "empty" ELSE @])
          /\ Go(m, "snapshot")
       \/ "mkdir" \in Faults /\ Goto(m, "resetRemove")

(* A bug of this kind: the error of etcdctl is only logged.                *)
RestoreSnapshot_LogsError(m) ==
    /\ at[m] = "snapshot"
    /\ \/ /\ files[m].etcd = "empty"
          /\ Set(m, [files[m] EXCEPT !.etcd = "snapshot"])
          /\ Go(m, "copyManifests")
       \/ /\ "snapshot" \in Faults \/ files[m].etcd # "empty"
          /\ Goto(m, "copyManifests")

(* etcdctl snapshot restore, which refuses a directory that is not empty.  *)
RestoreSnapshot(m) ==
    /\ at[m] = "snapshot"
    /\ \/ /\ files[m].etcd = "empty"
          /\ Set(m, [files[m] EXCEPT !.etcd = "snapshot"])
          /\ Go(m, "copyManifests")
       \/ /\ "snapshot" \in Faults \/ files[m].etcd # "empty"
          /\ Goto(m, "resetRemove")

CopyManifests(m) ==
    /\ at[m] = "copyManifests"
    /\ \/ /\ files[m].tmpManifests
          /\ Set(m, [files[m] EXCEPT !.manifests = TRUE])
          /\ Go(m, "health")
       \/ /\ "copy" \in Faults \/ ~files[m].tmpManifests
          /\ Goto(m, "resetRemove")

(* The loop ends when "endpoint health | grep -v unhealthy" prints a line: *)
(* one healthy endpoint of any master is enough.  Whether the members that *)
(* run have a quorum is etcd's, and may take until the deadline.           *)
CheckHealth(m) ==
    /\ at[m] = "health"
    /\ Goto(m, "kubelet")

(* The kubelet is restarted; the loop that follows passes either way.      *)
RestartKubelet(m) ==
    /\ at[m] = "kubelet"
    /\ \/ End(m, "Succeeded") /\ UNCHANGED files
       \/ "kubelet" \in Faults /\ Goto(m, "resetRemove")

-----------------------------------------------------------------------------
(* failedOperate: rm -rf ManifestsYaml EtcdDataDir                         *)
(*   && cp -rf TmpEtcdDataDir EtcdDataDir && cp -rf TmpStaticYaml ManifestsYaml *)

ResetRemove(m) ==
    /\ at[m] = "resetRemove"
    /\ Set(m, [files[m] EXCEPT !.manifests = FALSE, !.etcd = "absent"])
    /\ Go(m, "resetEtcd")

ResetEtcd(m) ==
    /\ at[m] = "resetEtcd"
    /\ IF files[m].tmpEtcd = "absent"
       THEN FailTask(m)
       ELSE Set(m, [files[m] EXCEPT !.etcd = files[m].tmpEtcd]) /\ Go(m, "resetManifests")

ResetManifests(m) ==
    /\ at[m] = "resetManifests"
    /\ Set(m, [files[m] EXCEPT !.manifests = files[m].tmpManifests])
    /\ End(m, "Failed")

Install(m) ==
    \/ Download(m) \/ CheckFile(m) \/ ClearManifests(m) \/ MoveManifests(m) \/ WaitStopped(m)
    \/ ClearEtcd(m) \/ MoveEtcd(m)
    \/ HostInfo(m) \/ MakeDataDir(m) \/ RestoreSnapshot(m) \/ CopyManifests(m)
    \/ CheckHealth(m) \/ RestartKubelet(m)
    \/ ResetRemove(m) \/ ResetEtcd(m) \/ ResetManifests(m)

-----------------------------------------------------------------------------
(* The engine and the API, as far as they decide which tasks there are.    *)

(* A sibling has failed: tasks not yet taken up are canceled.              *)
CancelPending(m) ==
    /\ phase[m] = "Pending"
    /\ \E n \in Masters : phase[n] \in {"Failed", "TimedOut"}
    /\ phase' = [phase EXCEPT ![m] = "Canceled"]
    /\ UNCHANGED <<files, at, bounds>>

Over == \A m \in Masters : phase[m] \notin {"Pending", "Running"}

(* What a new task of m finds: etcd has moved on from every copy beside it. *)
Found(f) ==
    IF f.etcd \in Data
    THEN [f EXCEPT !.etcd = "before", !.tmpEtcd = IF @ \in Data THEN "older" ELSE @]
    ELSE f

NewTasks(ms) ==
    /\ Over /\ ms # {} /\ attempts < given.attempts
    /\ attempts' = attempts + 1
    /\ phase' = [m \in Masters |-> IF m \in ms THEN "Pending" ELSE phase[m]]
    /\ files' = [m \in Masters |-> IF m \in ms THEN Found(files[m]) ELSE files[m]]
    /\ UNCHANGED <<at, given>>

(* A retry of the operation repeats the step where it did not succeed.     *)
RetryRecovery == NewTasks({m \in Masters : phase[m] \in Unsuccessful})

(* A new recovery uses the same directory of the cluster; MakeInstallSteps *)
(* refuses one while a master is unavailable.                              *)
CreateRecovery ==
    /\ \A m \in Masters : files[m].manifests /\ files[m].etcd \in Data
    /\ NewTasks(Masters)

Done == Over /\ attempts = given.attempts /\ UNCHANGED restoreVars

RestoreNext ==
    \/ \E m \in Masters : Start(m) \/ Crash(m) \/ Deadline(m) \/ Install(m) \/ CancelPending(m)
    \/ RetryRecovery \/ CreateRecovery \/ Done

RestoreSpec == RestoreInit /\ [][RestoreNext]_restoreVars

-----------------------------------------------------------------------------
(* Every variable has its type.                                            *)
RestoreTypeOK ==
    /\ files \in [Masters -> Directories]
    /\ phase \in [Masters -> Phases]
    /\ at \in [Masters -> Parts]
    /\ attempts \in 1 .. given.attempts /\ given \in Scenarios

(* As long as a master's task has not succeeded, what it found is still    *)
(* there, in its place or beside it: the manifests and etcd's data         *)
(* (BeforeRecovery, Recovering and failedOperate together lose neither).   *)
(* Not so when the step is executed again after a crash, a deadline or a   *)
(* failure to read the host's information, which leave the manifests aside *)
(* for the next "rm -rf"; nor when the reset runs before the move: it      *)
(* removes what was not moved.                                             *)
BeforeIsKept ==
    \/ Faults \cap {"crash", "move", "read"} # {}
    \/ Faults \cap {"deadline", "host"} # {} /\ attempts > 1
    \/ \A m \in Masters :
         phase[m] # "Succeeded" =>
            /\ files[m].manifests \/ files[m].tmpManifests
            /\ "before" \in {files[m].etcd, files[m].tmpEtcd}

(* Every variable has its type, and a recovery loses nothing of what a     *)
(* master had (BeforeRecovery, Recovering, failedOperate).                 *)
RestoreInvariant == RestoreTypeOK /\ BeforeIsKept

(* A master whose task ended without success serves what it served before, *)
(* however many recoveries and retries there were: failedOperate "reset to *)
(* before recovery".  It is not called after a crash or a deadline, nor    *)
(* for the host's information, and has nothing to copy before the move.    *)
FailedIsReset ==
    \/ Faults \cap {"crash", "deadline", "host", "move", "read"} # {}
    \/ \A m \in Masters :
         phase[m] \in Unsuccessful => files[m].manifests /\ files[m].etcd = "before"

(* A task is reported as succeeded only on a master that serves the        *)
(* snapshot with all it found kept beside it, whichever of its commands    *)
(* were executed twice (Install's verdict).                                *)
SucceededServesSnapshot ==
    \A m \in Masters :
        phase[m] = "Succeeded" =>
            files[m].manifests /\ files[m].etcd = "snapshot" /\ files[m].tmpEtcd # "absent"

(* The verdict says what a master serves: the snapshot when its task       *)
(* succeeded, what it had before when it did not (Install, failedOperate). *)
VerdictIsTrue == FailedIsReset /\ SucceededServesSnapshot
=============================================================================
