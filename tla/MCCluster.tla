------------------------------ MODULE MCCluster ------------------------------
(* ClusterLifecycle in seven scenarios of two or three operations. *)
EXTENDS ClusterLifecycle

CONSTANTS o1, o2, o3, g1

OneTarget == [o \in Ops |-> g1]

Asks(a1, a2, a3) == [o \in Ops |-> CASE o = o1 -> a1 [] o = o2 -> a2 [] OTHER -> a3]

\* The client of an existing cluster is there: the kubeconfig sync does not happen.
Nothing == "SyncKubeConfig"

\* A backup and a deletion overlap, one operation is retried, a handler dies or
\* somebody else writes the cluster.
Deletion ==
    [asks |-> Asks("BackupCluster", "DeleteCluster", Nothing),
     existing |-> TRUE, outage |-> FALSE, retries |-> 1, faults |-> 1]

\* A forced deletion races an upgrade and its retry, while calls fail for a time.
ForcedDeletion ==
    [asks |-> Asks("UpgradeCluster", "ForceDelete", Nothing),
     existing |-> TRUE, outage |-> TRUE, retries |-> 1, faults |-> 0]

\* Requests on a living cluster overlap.
Maintenance ==
    [asks |-> Asks("UpgradeCluster", "BackupCluster", "ResetStatus"),
     existing |-> TRUE, outage |-> FALSE, retries |-> 1, faults |-> 0]

\* Nodes are added while the registries change twice ...
Growth ==
    [asks |-> Asks("AddNodes", "UpdateRegistries", "UpdateRegistries"),
     existing |-> TRUE, outage |-> FALSE, retries |-> 0, faults |-> 0]

\* ... or while calls fail for a time.
Addition ==
    [asks |-> Asks("AddNodes", "UpdateRegistries", Nothing),
     existing |-> TRUE, outage |-> TRUE, retries |-> 0, faults |-> 0]

\* A cluster is made and grows.
Creation ==
    [asks |-> Asks("CreateCluster", "AddNodes", "SyncKubeConfig"),
     existing |-> FALSE, outage |-> FALSE, retries |-> 1, faults |-> 0]

\* A cluster is deleted before it is ready.
Retreat ==
    [asks |-> Asks("CreateCluster", "SyncKubeConfig", "ForceDelete"),
     existing |-> FALSE, outage |-> FALSE, retries |-> 1, faults |-> 0]

AllScenarios == {Deletion, ForcedDeletion, Maintenance, Growth, Addition, Creation, Retreat}
=============================================================================
