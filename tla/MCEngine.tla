------------------------------ MODULE MCEngine ------------------------------
EXTENDS OperationEngine, TLC

CONSTANTS o1, o2, n1, n2, c1, c2, g1

\* Bounds on the retries clients ask for.
NoRetry == [o \in Ops |-> 0]
OneRetryOfO1 == [o \in Ops |-> IF o = o1 THEN 1 ELSE 0]

OneTarget == [o \in Ops |-> g1]

Step(nodes, limit) == [targets |-> nodes, retryLimit |-> limit, inputs |-> {}]

\* Step 2 runs on one node and takes an output of one node of step 1.
FedStep == [targets |-> {n2}, retryLimit |-> 0, inputs |-> {[step |-> 1, node |-> n1]}]

\* Two steps, the first on all nodes, of which only one feeds the second.
ChainPlan == [o \in Ops |-> << Step(Nodes, 0), FedStep >>]

\* Two steps, the first on one node with one automatic retry.
RetryChainPlan == [o \in Ops |-> << Step({n1}, 1), FedStep >>]

\* One step on all nodes, no automatic retry.
PlainPlan == [o \in Ops |-> << Step(Nodes, 0) >>]

\* The workers are interchangeable.
WorkerSymmetry == Permutations(Ctrls)

=============================================================================
