------------------------------- MODULE MCAgent -------------------------------
(* An agent's worker, and the agents of two masters that restore etcd. *)
EXTENDS AgentWorker, EtcdRestore

CONSTANTS a, b, m1, m2

VARIABLE part

\* The commands that fail where failedOperate is meant to help.
Resettable == {"download", "mismatch", "mkdir", "snapshot", "copy", "kubelet"}

\* One recovery, which may meet its deadline.
Once == [faults |-> Resettable \cup {"host", "deadline"}, attempts |-> 1]

\* Several recoveries and retries.
Again == [faults |-> Resettable, attempts |-> 4]

\* Everything may go wrong, crashes included.
Anything == [faults |-> Resettable \cup {"host", "deadline", "read", "move", "crash"},
             attempts |-> 2]

AllScenarios == {Once, Again, Anything}

\* The two parts have nothing in common, and one of them moves.
MCInit ==
    /\ part \in {"worker", "restore"}
    /\ Init /\ RestoreInit
    /\ part = "worker" => given = Once

MCNext ==
    \/ part = "worker" /\ Next /\ UNCHANGED <<part, restoreVars>>
    \/ part = "restore" /\ RestoreNext /\ UNCHANGED <<part, vars>>

\* The restore is checked for safety only; the fairness is the worker's.
MCSpec ==
    /\ MCInit /\ [][MCNext]_<<part, vars, restoreVars>>
    /\ WF_vars(WorkerStep) /\ WF_vars(Deliver)

=============================================================================
