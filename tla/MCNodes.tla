------------------------------- MODULE MCNodes -------------------------------
(* The labels of a node between two clusters, and an imported cluster. *)
EXTENDS NodeOwnership, ImportedCluster

CONSTANTS n1, n2, n3, c1, c2

VARIABLE part

\* Nodes leave, with two failures.
Leavers == [members |-> {n1, n2, n3}, imported |-> TRUE, adding |-> {},
            leaving |-> {n2, n3}, outside |-> {}, failures |-> 2]

\* A node is added beside the syncs, and may leave again.
Adders == [members |-> {n1, n3}, imported |-> TRUE, adding |-> {n2},
           leaving |-> {n2, n3}, outside |-> {}, failures |-> 1]

\* A machine joins outside kubeclipper, and a member leaves and comes back.
Outsiders == [members |-> {n1, n3}, imported |-> TRUE, adding |-> {},
              leaving |-> {n2, n3}, outside |-> {n2, n3}, failures |-> 1]

\* The cluster is not known yet.
FirstImport == [members |-> {n1, n2}, imported |-> FALSE, adding |-> {},
                leaving |-> {n2}, outside |-> {}, failures |-> 1]

ImportScenarios == {Leavers, Adders, Outsiders, FirstImport}

\* The two parts have nothing in common, and one of them moves.
MCInit ==
    /\ part \in {"labels", "import"}
    /\ Init /\ ImportInit
    /\ part = "labels" => given = Leavers

MCNext ==
    \/ part = "labels" /\ Next /\ UNCHANGED <<part, importVars>>
    \/ part = "import" /\ ImportNext /\ UNCHANGED <<part, vars>>

\* The fairness of each part, while it is the one that moves.
Labels == part = "labels"
LabelFairness ==
    /\ WF_vars(Labels /\ Complete)
    /\ \A c \in Clusters : WF_vars(Labels /\ ClusterStep(c)) /\ WF_vars(Labels /\ DeliverCluster(c))
    /\ \A c \in Clusters : SF_vars(Labels /\ Resync(c) /\ \A n \in Nodes : nodeSynced[n])
    /\ \A n \in Nodes : /\ WF_vars(Labels /\ ReconcileNode(n)) /\ WF_vars(Labels /\ DeliverNode(n))
                        /\ SF_vars(Labels /\ Heartbeat(n))

ProviderFairness ==
    /\ WF_importVars(~Labels /\ ProviderStep)
    /\ WF_importVars(~Labels /\ AddFinalizer)
    /\ WF_importVars(~Labels /\ FinalizeImported)
    /\ \A n \in Machines :
         /\ WF_importVars(~Labels /\ UpdateClusterNode(n))
         /\ WF_importVars(~Labels /\ ProcessPendingOperation(n))
         /\ WF_importVars(~Labels /\ SyncImportedRole(n))
         /\ WF_importVars(~Labels /\ JoinSucceeds(n))
         /\ WF_importVars(~Labels /\ Register(n))

MCSpec ==
    MCInit /\ [][MCNext]_<<part, vars, importVars>> /\ LabelFairness /\ ProviderFairness

\* The types of both parts, and what they share: a node has the name of a cluster
\* in its labels exactly if it has a role (updateNodeRoleLabel).
TypesOK == TypeOK /\ ImportTypeOK

=============================================================================
