---------------------------- MODULE NodeOwnership ----------------------------
(***************************************************************************)
(* Which cluster a node belongs to is stored twice: in the master and      *)
(* worker lists of the clusters, which the API writes, and in the labels   *)
(* of the nodes, which the cluster controller and the node controller keep *)
(* in step with the lists and which the API takes for its checks.          *)
(*                                                                         *)
(* The controllers read informer copies, change them in place and write    *)
(* conditionally.  The agents' heartbeats write the nodes all the time.    *)
(* An API request reads and checks in one step and writes in a later one;  *)
(* a read from a lagging watch cache is a request with an early first step.*)
(***************************************************************************)
EXTENDS Naturals, FiniteSets

CONSTANTS
    Nodes,          \* the nodes that we look at; a cluster has others beside them
    Clusters,
    None,           \* no cluster, or no role
    Owner,          \* the cluster that has the nodes at the start, beside empty ones;
                    \* with None there is no cluster yet
    Kinds,          \* the requests that the clients make
    MaxRequests,    \* bound on them
    MaxCollisions   \* bound on the heartbeats that come while a controller is at work

ASSUME OwnershipAssumption ==
    /\ None \notin Clusters \cup {"master", "worker"} /\ Owner \in Clusters \cup {None} /\ Nodes \cap Clusters = {}
    /\ Kinds \subseteq {"create", "add", "remove", "delete", "disable"}
    /\ MaxRequests \in Nat /\ MaxCollisions \in Nat

VARIABLES
    cluster,     \* the clusters in the store
    seen,        \* the informer's copies of them
    label,       \* the labels of the nodes in the store
    shown,       \* the labels in the informer's copies of the nodes
    nodeSynced,  \* have those the store's resourceVersion?
    held,        \* the copy of a cluster that its reconcile holds
    pc,          \* where that is
    todo,        \* the nodes it has yet to visit
    queue,       \* the keys in the two workqueues
    requests,    \* the API requests between check and write
    issued,
    collisions

clusterVars == <<cluster, seen>>
nodeVars == <<label, shown, nodeSynced>>
runVars == <<held, pc, todo>>
apiVars == <<requests, issued>>
vars == <<clusterVars, nodeVars, runVars, queue, apiVars, collisions>>

Cluster == [rv : Nat, alive : BOOLEAN, deleting : BOOLEAN, final : BOOLEAN,
            masters : SUBSET Nodes, workers : SUBSET Nodes]

Label == [cluster : Clusters \cup {None}, role : {"master", "worker", None}, disabled : BOOLEAN]

TypeOK ==
    /\ cluster \in [Clusters -> Cluster] /\ seen \in [Clusters -> Cluster]
    /\ held \in [Clusters -> Cluster]
    /\ label \in [Nodes -> Label] /\ shown \in [Nodes -> Label]
    /\ \A n \in Nodes : (label[n].cluster = None) <=> (label[n].role = None)
    /\ nodeSynced \in [Nodes -> BOOLEAN]
    /\ pc \in [Clusters -> {"idle", "label", "release"}]
    /\ todo \in [Clusters -> SUBSET Nodes]
    /\ queue \subseteq Nodes \cup Clusters
    /\ requests \subseteq [kind : {"create", "patch"}, name : Clusters, object : Cluster, marked : SUBSET Nodes]
    /\ issued \in 0..MaxRequests /\ collisions \in 0..MaxCollisions

NoCluster == [rv |-> 0, alive |-> FALSE, deleting |-> FALSE, final |-> FALSE,
              masters |-> {}, workers |-> {}]

Init ==
    /\ cluster = [c \in Clusters |->
         [NoCluster EXCEPT !.alive = Owner # None, !.final = Owner # None,
                           !.workers = IF c = Owner THEN Nodes ELSE {}]]
    /\ seen = cluster /\ held = [c \in Clusters |-> NoCluster]
    /\ label = [n \in Nodes |->
         [cluster |-> Owner, role |-> IF Owner = None THEN None ELSE "worker", disabled |-> FALSE]]
    /\ shown = label
    /\ nodeSynced = [n \in Nodes |-> TRUE]
    /\ pc = [c \in Clusters |-> "idle"] /\ todo = [c \in Clusters |-> {}]
    /\ queue = {}
    /\ requests = {} /\ issued = 0 /\ collisions = 0

GetAllNodes(c) == c.masters \cup c.workers

Put(c, object) == cluster' = [cluster EXCEPT ![c] = [object EXCEPT !.rv = cluster[c].rv + 1]]

-----------------------------------------------------------------------------
(***************************************************************************)
(* The API.                                                                *)
(***************************************************************************)
Issue(kind) == kind \in Kinds /\ issued < MaxRequests /\ issued' = issued + 1

\* createClusterCheck: the name is not taken, and every node of the cluster is
\* in the list of nodes without a role and not disabled.  Nodes are the ones that
\* requests compete for: the master that every cluster needs may be another one.
CreateClusterCheck(c, masters, workers) ==
    /\ Issue("create")
    /\ ~cluster[c].alive
    /\ masters \cap workers = {}
    /\ \A n \in masters \cup workers : label[n].role = None /\ ~label[n].disabled
    /\ requests' = requests \cup
         {[kind |-> "create", name |-> c, marked |-> {},
           object |-> [NoCluster EXCEPT !.alive = TRUE, !.masters = masters, !.workers = workers]]}
    /\ UNCHANGED <<clusterVars, nodeVars, runVars, queue, collisions>>

\* The rest of CreateClusters; a name that has been taken since is an error.
CreateCluster(r) ==
    /\ r.kind = "create"
    /\ IF cluster[r.name].alive THEN UNCHANGED cluster ELSE Put(r.name, r.object)
    /\ requests' = requests \ {r}
    /\ UNCHANGED <<seen, nodeVars, runVars, queue, issued, collisions>>

\* AddOrRemoveNodes: the nodes of this cluster are the only ones in use.
AddNode(c, n) ==
    /\ Issue("add")
    /\ cluster[c].alive /\ ~label[n].disabled /\ n \notin GetAllNodes(cluster[c])
    /\ requests' = requests \cup
         {[kind |-> "patch", name |-> c, marked |-> {n},
           object |-> [cluster[c] EXCEPT !.workers = @ \cup {n}]]}
    /\ UNCHANGED <<clusterVars, nodeVars, runVars, queue, collisions>>

RemoveNode(c, n) ==
    /\ Issue("remove")
    /\ cluster[c].alive /\ n \in cluster[c].workers
    /\ requests' = requests \cup
         {[kind |-> "patch", name |-> c, marked |-> {n},
           object |-> [cluster[c] EXCEPT !.workers = @ \ {n}]]}
    /\ UNCHANGED <<clusterVars, nodeVars, runVars, queue, collisions>>

\* MarkToOriginNode writes the node, then the cluster is written conditionally.
UpdateCluster(r) ==
    /\ r.kind = "patch"
    /\ IF cluster[r.name].alive /\ cluster[r.name].rv = r.object.rv THEN Put(r.name, r.object) ELSE UNCHANGED cluster
    /\ nodeSynced' = [n \in Nodes |-> nodeSynced[n] /\ n \notin r.marked]
    /\ requests' = requests \ {r}
    /\ UNCHANGED <<seen, label, shown, runVars, queue, issued, collisions>>

\* The object is deleted; without a finalizer it is gone.
DeleteCluster(c) ==
    /\ Issue("delete")
    /\ cluster[c].alive /\ ~cluster[c].deleting
    /\ Put(c, IF cluster[c].final THEN [cluster[c] EXCEPT !.deleting = TRUE] ELSE NoCluster)
    /\ UNCHANGED <<seen, nodeVars, runVars, queue, requests, collisions>>

\* DisableNode and EnableNode, for a node without a role.
SyncNodeDisable(n) ==
    /\ Issue("disable")
    /\ label[n].role = None
    /\ label' = [label EXCEPT ![n].disabled = ~@]
    /\ nodeSynced' = [nodeSynced EXCEPT ![n] = FALSE]
    /\ UNCHANGED <<clusterVars, shown, runVars, queue, requests, collisions>>

Api ==
    \/ \E c \in Clusters, m \in SUBSET Nodes, w \in SUBSET Nodes : CreateClusterCheck(c, m, w)
    \/ \E c \in Clusters, n \in Nodes : AddNode(c, n) \/ RemoveNode(c, n)
    \/ \E c \in Clusters : DeleteCluster(c)
    \/ \E n \in Nodes : SyncNodeDisable(n)

-----------------------------------------------------------------------------
(***************************************************************************)
(* The cluster controller, as far as the nodes are concerned.              *)
(***************************************************************************)
\* Reconcile adds its finalizer first, with the informer's copy.
ReconcileCluster(c) ==
    /\ pc[c] = "idle" /\ c \in queue /\ seen[c].alive /\ ~seen[c].deleting
    /\ IF seen[c].final \/ seen[c].rv = cluster[c].rv
       THEN /\ IF seen[c].final THEN UNCHANGED cluster ELSE Put(c, [cluster[c] EXCEPT !.final = TRUE])
            /\ pc' = [pc EXCEPT ![c] = "label"]
            /\ todo' = [todo EXCEPT ![c] = GetAllNodes(seen[c])]
            /\ held' = [held EXCEPT ![c] = seen[c]]
            /\ queue' = queue \ {c}
       ELSE UNCHANGED <<cluster, runVars, queue>>
    /\ seen' = [seen EXCEPT ![c].final = TRUE]
    /\ UNCHANGED <<nodeVars, apiVars, collisions>>

\* finalizeCluster, after the purge of the operations.
FinalizeCluster(c) ==
    /\ pc[c] = "idle" /\ c \in queue /\ seen[c].alive /\ seen[c].deleting /\ seen[c].final
    /\ pc' = [pc EXCEPT ![c] = "release"]
    /\ todo' = [todo EXCEPT ![c] = GetAllNodes(seen[c])]
    /\ held' = [held EXCEPT ![c] = seen[c]]
    /\ queue' = queue \ {c}
    /\ UNCHANGED <<clusterVars, nodeVars, apiVars, collisions>>

Ignore(c) ==
    /\ pc[c] = "idle" /\ c \in queue /\ (seen[c].alive => seen[c].deleting /\ ~seen[c].final)
    /\ queue' = queue \ {c}
    /\ UNCHANGED <<clusterVars, nodeVars, runVars, apiVars, collisions>>

Return(c) ==
    /\ pc' = [pc EXCEPT ![c] = "idle"]
    /\ todo' = [todo EXCEPT ![c] = {}]
    /\ held' = [held EXCEPT ![c] = NoCluster]

\* UpdateNode with the informer's own object, changed in place.
UpdateNode(n, l) ==
    /\ shown' = [shown EXCEPT ![n] = l]
    /\ IF nodeSynced[n] THEN label' = [label EXCEPT ![n] = l] /\ nodeSynced' = [nodeSynced EXCEPT ![n] = FALSE]
       ELSE UNCHANGED <<label, nodeSynced>>

\* updateClusterNode visits the workers first; an error ends it.
Visit(c, n) == n \in IF todo[c] \cap held[c].workers # {} THEN todo[c] \cap held[c].workers ELSE todo[c]

Visited(c, n) ==
    IF nodeSynced[n] THEN todo' = [todo EXCEPT ![c] = @ \ {n}] /\ UNCHANGED <<pc, held, queue>>
    ELSE Return(c) /\ queue' = queue \cup {c}

\* Nothing to write.
Skip(c, n) ==
    /\ todo' = [todo EXCEPT ![c] = @ \ {n}]
    /\ UNCHANGED <<pc, held, queue, nodeVars>>

RoleIn(c, n) == IF n \in c.workers THEN "worker" ELSE "master"

\* Mutant: another cluster's label is overwritten.
LabelNode_Steals(c, n) ==
    /\ pc[c] = "label" /\ Visit(c, n)
    /\ IF shown[n].cluster = c THEN Skip(c, n)
       ELSE UpdateNode(n, [shown[n] EXCEPT !.cluster = c, !.role = RoleIn(held[c], n)]) /\ Visited(c, n)
    /\ UNCHANGED <<clusterVars, apiVars, collisions>>

\* updateNodeRoleLabel: a node that has a role keeps it.
LabelNode(c, n) ==
    /\ pc[c] = "label" /\ Visit(c, n)
    /\ IF shown[n].role # None THEN Skip(c, n)
       ELSE UpdateNode(n, [shown[n] EXCEPT !.cluster = c, !.role = RoleIn(held[c], n)]) /\ Visited(c, n)
    /\ UNCHANGED <<clusterVars, apiVars, collisions>>

\* Mutant: one of the two labels is forgotten.
ReleaseNode_KeepsName(c, n) ==
    /\ pc[c] = "release" /\ Visit(c, n)
    /\ IF shown[n].role = None \/ shown[n].cluster # c THEN Skip(c, n)
       ELSE UpdateNode(n, [shown[n] EXCEPT !.role = None]) /\ Visited(c, n)
    /\ UNCHANGED <<clusterVars, apiVars, collisions>>

\* ... with del: only this cluster's label is taken away.
ReleaseNode(c, n) ==
    /\ pc[c] = "release" /\ Visit(c, n)
    /\ IF shown[n].role = None \/ shown[n].cluster # c THEN Skip(c, n)
       ELSE UpdateNode(n, [shown[n] EXCEPT !.cluster = None, !.role = None]) /\ Visited(c, n)
    /\ UNCHANGED <<clusterVars, apiVars, collisions>>

Labelled(c) ==
    /\ pc[c] = "label" /\ todo[c] = {}
    /\ Return(c)
    /\ UNCHANGED <<clusterVars, nodeVars, queue, apiVars, collisions>>

\* The object goes with its last finalizer, which the copy loses in any case.
RemoveFinalizer(c) ==
    /\ pc[c] = "release" /\ todo[c] = {}
    /\ seen' = IF seen[c].rv = held[c].rv THEN [seen EXCEPT ![c].final = FALSE] ELSE seen
    /\ IF cluster[c].rv = held[c].rv THEN Put(c, NoCluster) /\ UNCHANGED queue
       ELSE queue' = queue \cup {c} /\ UNCHANGED cluster
    /\ Return(c)
    /\ UNCHANGED <<nodeVars, apiVars, collisions>>

ClusterStep(c) ==
    \/ ReconcileCluster(c) \/ FinalizeCluster(c) \/ Ignore(c)
    \/ \E n \in Nodes : LabelNode(c, n) \/ ReleaseNode(c, n)
    \/ Labelled(c) \/ RemoveFinalizer(c)

-----------------------------------------------------------------------------
(***************************************************************************)
(* The node controller, and what wakes the two.                            *)
(***************************************************************************)
\* The labels that a node should have, by the copies.
SyncNodeRole(n) ==
    LET c == seen[shown[n].cluster] IN
    IF c.alive /\ n \in GetAllNodes(c)
    THEN [shown[n] EXCEPT !.role = IF n \in c.masters THEN "master" ELSE "worker"]
    ELSE [shown[n] EXCEPT !.cluster = None, !.role = None]

\* Mutant: the node of a cluster that is gone is left alone.
ReconcileNode_KeepsGone(n) ==
    /\ n \in queue
    /\ IF shown[n].cluster = None \/ SyncNodeRole(n) = shown[n] \/ ~seen[shown[n].cluster].alive
       THEN queue' = queue \ {n} /\ UNCHANGED nodeVars
       ELSE /\ UpdateNode(n, SyncNodeRole(n))
            /\ queue' = IF nodeSynced[n] THEN queue \ {n} ELSE queue
    /\ UNCHANGED <<clusterVars, runVars, apiVars, collisions>>

ReconcileNode(n) ==
    /\ n \in queue
    /\ IF shown[n].cluster = None \/ SyncNodeRole(n) = shown[n]
       THEN queue' = queue \ {n} /\ UNCHANGED nodeVars
       ELSE /\ UpdateNode(n, SyncNodeRole(n))
            /\ queue' = IF nodeSynced[n] THEN queue \ {n} ELSE queue
    /\ UNCHANGED <<clusterVars, runVars, apiVars, collisions>>

Quiet == queue = {} /\ \A c \in Clusters : pc[c] = "idle"

\* The agent reports the node's status, once a minute.
Heartbeat(n) ==
    /\ nodeSynced[n]
    /\ nodeSynced' = [nodeSynced EXCEPT ![n] = FALSE]
    /\ IF Quiet THEN UNCHANGED collisions
       ELSE collisions < MaxCollisions /\ collisions' = collisions + 1
    /\ UNCHANGED <<clusterVars, label, shown, runVars, queue, apiVars>>

DeliverNode(n) ==
    /\ ~nodeSynced[n]
    /\ shown' = [shown EXCEPT ![n] = label[n]]
    /\ nodeSynced' = [nodeSynced EXCEPT ![n] = TRUE]
    /\ queue' = queue \cup {n}
    /\ UNCHANGED <<clusterVars, label, runVars, apiVars, collisions>>

DeliverCluster(c) ==
    /\ seen[c] # cluster[c]
    /\ seen' = [seen EXCEPT ![c] = cluster[c]]
    /\ queue' = queue \cup {c}
    /\ UNCHANGED <<cluster, nodeVars, runVars, apiVars, collisions>>

\* The events of a cluster's operations, and the resync; one that meets other
\* work changes nothing.
Resync(c) ==
    /\ Quiet /\ seen[c].alive
    /\ queue' = queue \cup {c}
    /\ UNCHANGED <<clusterVars, nodeVars, runVars, apiVars, collisions>>

Complete == \E r \in requests : CreateCluster(r) \/ UpdateCluster(r)

Next ==
    \/ Api \/ Complete
    \/ \E c \in Clusters : ClusterStep(c) \/ DeliverCluster(c) \/ Resync(c)
    \/ \E n \in Nodes : ReconcileNode(n) \/ Heartbeat(n) \/ DeliverNode(n)

Spec == Init /\ [][Next]_vars

\* The controllers work, the informers deliver, the agents report again and
\* again between the resyncs, and a resync comes when no report is on its way.
FairSpec ==
    /\ Spec
    /\ WF_vars(Complete)
    /\ \A c \in Clusters : WF_vars(ClusterStep(c)) /\ WF_vars(DeliverCluster(c))
    /\ \A c \in Clusters : SF_vars(Resync(c) /\ \A n \in Nodes : nodeSynced[n])
    /\ \A n \in Nodes : WF_vars(ReconcileNode(n)) /\ SF_vars(Heartbeat(n)) /\ WF_vars(DeliverNode(n))

-----------------------------------------------------------------------------
(***************************************************************************)
(* Properties.                                                             *)
(***************************************************************************)
Owners(n) == {c \in Clusters : cluster[c].alive /\ n \in GetAllNodes(cluster[c])}

\* When the requests have come to an end, every node is labelled as a member of
\* a cluster that lists it, with the right role, or is free if none does:
\* through conflicts with heartbeats, objects changed in place, moves between
\* clusters, and clusters deleted before they had a finalizer (syncNodeRole,
\* updateNodeRoleLabel).
LabelsSettle ==
    <>[](\A n \in Nodes :
            IF Owners(n) = {} THEN label[n].cluster = None
            ELSE /\ label[n].cluster \in Owners(n)
                 /\ label[n].role = RoleIn(cluster[label[n].cluster], n))

\* A node goes from one cluster's label to another's only by way of being free,
\* whoever writes and however old the copy (updateNodeRoleLabel).
LabelsNotStolen ==
    [][\A n \in Nodes : label[n].cluster # None /\ label'[n].cluster # label[n].cluster =>
         label'[n].cluster = None]_vars

=============================================================================
