---------------------------- MODULE OperationAPI ----------------------------
(***************************************************************************)
(* The operations API: clients create, cancel and retry operations.  A     *)
(* request carries the resourceVersion its client read; the handlers       *)
(* change only the spec, conditionally on that resourceVersion.            *)
(***************************************************************************)
EXTENDS OperationStore

CONSTANTS
    SameSecond,   \* may two operations be created in the same second?
    MaxGen        \* bound on each operation's retryGeneration (the code has none)
ASSUME SameSecondAssumption == SameSecond \in BOOLEAN
ASSUME MaxGenAssumption == MaxGen \in [Ops -> Nat]

VARIABLE retrying   \* [Ops -> Nat]: the resourceVersion a retry handler has
                    \* checked and is about to write against; 0 for none

APITypeOK == retrying \in [Ops -> Nat]

APIInit == retrying = [o \in Ops |-> 0]

\* The creation times are whole seconds of a clock that does not go back.
CreateOperation(o) ==
    /\ ops[o].phase = "Absent"
    /\ \E second \in UNION {{ops[p].created, ops[p].created + 1} : p \in Ops} :
         /\ \A p \in Ops : ops[p].created <= second
         /\ (\E p \in Ops : ops[p].created = second) => SameSecond
         /\ WriteOperation(o, [AbsentOperation EXCEPT !.phase = "Pending",
                                                      !.created = second])
    /\ UNCHANGED <<tasks, lock, retrying>>

\* cancelOperation: one conditional write, so one step.
CancelOperation(o) ==
    /\ ops[o].phase \in {"Pending", "Running"}
    /\ ops[o].desired = "Active"
    /\ WriteOperation(o, [ops[o] EXCEPT !.desired = "Canceled"])
    /\ UNCHANGED <<tasks, lock, retrying>>

RetryablePhases == {"Failed", "TimedOut", "Canceled"}

\* loadRetryableOperation: everything the handler checks before it writes.
LoadRetryableOperation(o) ==
    /\ retrying[o] = 0
    /\ ops[o].gen < MaxGen[o]
    /\ ops[o].phase \in RetryablePhases
    /\ ActiveTasks(TasksOf(o)) = {}
    /\ IsLatestOperation(o, ops[o], ops)
    /\ retrying' = [retrying EXCEPT ![o] = ops[o].rv]
    /\ UNCHANGED storeVars

\* retryOperation: the write; a conflict is reported to the client.
RetryOperation(o) ==
    /\ retrying[o] # 0
    /\ IF ops[o].rv = retrying[o]
       THEN WriteOperation(o, [ops[o] EXCEPT !.desired = "Active",
                                            !.gen = ops[o].gen + 1])
       ELSE UNCHANGED <<ops, opRev>>
    /\ retrying' = [retrying EXCEPT ![o] = 0]
    /\ UNCHANGED <<tasks, lock>>

APIStep(o) ==
    \/ CreateOperation(o) \/ CancelOperation(o)
    \/ LoadRetryableOperation(o) \/ RetryOperation(o)

=============================================================================
