------------------------------ MODULE NodeProofs ------------------------------
(***************************************************************************)
(* Proofs about NodeOwnership and ImportedCluster, for any nodes,          *)
(* clusters, requests, collisions and scenarios.                           *)
(*                                                                         *)
(* A node goes from one cluster's label to another's only by way of being  *)
(* free.  Two controllers write the labels, each from the informer's       *)
(* object, which it changes in place before a write that may fail.  The    *)
(* argument is that such a copy is outdated from then on and cannot be     *)
(* written, and that cluster and role come and go together in store and    *)
(* copy.                                                                   *)
(*                                                                         *)
(* A sync of an imported cluster drains no member, though it works from a  *)
(* list of members that may be out of date.                                *)
(***************************************************************************)
EXTENDS MCNodes, TLAPS

\* The labels of the cluster and of the role come and go together.
Paired(l) == (l.cluster = None) <=> (l.role = None)

\* A copy that has the store's resourceVersion has the store's labels.
NodesInStep ==
    /\ label \in [Nodes -> Label] /\ shown \in [Nodes -> Label]
    /\ nodeSynced \in [Nodes -> BOOLEAN]
    /\ \A n \in Nodes : /\ Paired(label[n]) /\ Paired(shown[n])
                        /\ nodeSynced[n] => shown[n] = label[n]

\* What a step may do to the label of a node.
NotStolen ==
    \A n \in Nodes :
        label[n].cluster # None /\ label'[n].cluster # label[n].cluster => label'[n].cluster = None

\* UpdateNode with a label that frees the node, keeps its cluster, or takes a node
\* that the copy shows as free.
LEMMA UpdateNodeInStep ==
    ASSUME NodesInStep, NEW n \in Nodes, NEW l \in Label, Paired(l), UpdateNode(n, l),
           l.cluster \in {shown[n].cluster, None} \/ shown[n].cluster = None
    PROVE  NodesInStep' /\ NotStolen
<1>1. \A m \in Nodes : shown'[m] = IF m = n THEN l ELSE shown[m]
  BY DEF UpdateNode, NodesInStep
<1>2. /\ shown' \in [Nodes -> Label] /\ label' \in [Nodes -> Label]
      /\ nodeSynced' \in [Nodes -> BOOLEAN]
  BY DEF UpdateNode, NodesInStep
<1>3. \A m \in Nodes \ {n} : label'[m] = label[m] /\ nodeSynced'[m] = nodeSynced[m]
  BY DEF UpdateNode, NodesInStep
<1>4. ~nodeSynced'[n] /\ label'[n] = IF nodeSynced[n] THEN l ELSE label[n]
  BY DEF UpdateNode, NodesInStep
<1>5. NodesInStep'
  <2> SUFFICES ASSUME NEW m \in Nodes
               PROVE  Paired(label'[m]) /\ Paired(shown'[m]) /\ (nodeSynced'[m] => shown'[m] = label'[m])
    BY <1>2 DEF NodesInStep, Paired
  <2>1. Paired(label[m]) /\ Paired(shown[m]) /\ (nodeSynced[m] => shown[m] = label[m])
    BY DEF NodesInStep
  <2>2. CASE m = n
    BY <1>1, <1>4, <2>1, <2>2
  <2>3. CASE m # n
    BY <1>1, <1>3, <2>1, <2>3
  <2> QED
    BY <2>2, <2>3
<1>6. ASSUME NEW m \in Nodes, label[m].cluster # None, label'[m].cluster # label[m].cluster
      PROVE  label'[m].cluster = None
  <2>1. m = n /\ nodeSynced[n] /\ label'[n] = l
    BY <1>3, <1>4, <1>6
  <2>2. shown[n] = label[n]
    BY <2>1 DEF NodesInStep
  <2> QED
    BY <1>6, <2>1, <2>2
<1> QED
  BY <1>5, <1>6 DEF NotStolen

\* A step that leaves labels and copies alone; copies may become outdated.
LEMMA SameLabelsInStep ==
    ASSUME NodesInStep, UNCHANGED <<label, shown>>, nodeSynced' \in [Nodes -> BOOLEAN],
           \A n \in Nodes : nodeSynced'[n] => nodeSynced[n]
    PROVE  NodesInStep' /\ NotStolen
  BY DEF NodesInStep, NotStolen

\* The two controllers.
LEMMA ClusterStepInStep ==
    ASSUME NodesInStep, NEW c \in Clusters, ClusterStep(c) PROVE NodesInStep' /\ NotStolen
<1>1. ASSUME NEW n \in Nodes, LabelNode(c, n) PROVE NodesInStep' /\ NotStolen
  <2>1. CASE shown[n].role # None
    BY <1>1, <2>1, SameLabelsInStep DEF LabelNode, Skip, nodeVars, NodesInStep
  <2>2. CASE shown[n].role = None
    <3> DEFINE l == [shown[n] EXCEPT !.cluster = c, !.role = RoleIn(held[c], n)]
    <3>1. /\ shown[n] \in Label /\ shown[n].cluster = None
          /\ RoleIn(held[c], n) \in {"master", "worker"}
      BY <2>2 DEF NodesInStep, Paired, RoleIn
    <3>2. l \in Label /\ l.cluster = c /\ l.role = RoleIn(held[c], n)
      BY <3>1 DEF Label
    <3>3. Paired(l)
      BY <3>1, <3>2, OwnershipAssumption DEF Paired
    <3>4. UpdateNode(n, l)
      BY <1>1, <2>2 DEF LabelNode
    <3> HIDE DEF l
    <3> QED
      BY <3>1, <3>2, <3>3, <3>4, UpdateNodeInStep
  <2> QED
    BY <2>1, <2>2
<1>2. ASSUME NEW n \in Nodes, ReleaseNode(c, n) PROVE NodesInStep' /\ NotStolen
  <2>1. CASE shown[n].role = None \/ shown[n].cluster # c
    BY <1>2, <2>1, SameLabelsInStep DEF ReleaseNode, Skip, nodeVars, NodesInStep
  <2>2. CASE ~(shown[n].role = None \/ shown[n].cluster # c)
    <3> DEFINE l == [shown[n] EXCEPT !.cluster = None, !.role = None]
    <3>1. l \in Label /\ l.cluster = None /\ Paired(l)
      BY DEF NodesInStep, Paired, Label
    <3>2. UpdateNode(n, l)
      BY <1>2, <2>2 DEF ReleaseNode
    <3> HIDE DEF l
    <3> QED
      BY <3>1, <3>2, UpdateNodeInStep
  <2> QED
    BY <2>1, <2>2
<1>3. ASSUME \/ ReconcileCluster(c) \/ FinalizeCluster(c) \/ Ignore(c)
             \/ Labelled(c) \/ RemoveFinalizer(c)
      PROVE  UNCHANGED nodeVars
  BY <1>3 DEF ReconcileCluster, FinalizeCluster, Ignore, Labelled, RemoveFinalizer
<1> QED
  BY <1>1, <1>2, <1>3, SameLabelsInStep DEF ClusterStep, nodeVars, NodesInStep

LEMMA ReconcileNodeInStep ==
    ASSUME NodesInStep, NEW n \in Nodes, ReconcileNode(n) PROVE NodesInStep' /\ NotStolen
<1>1. CASE shown[n].cluster = None \/ SyncNodeRole(n) = shown[n]
  BY <1>1, SameLabelsInStep DEF ReconcileNode, nodeVars, NodesInStep
<1>2. CASE ~(shown[n].cluster = None \/ SyncNodeRole(n) = shown[n])
  <2>1. shown[n] \in Label
    BY DEF NodesInStep
  <2>2. \/ \E r \in {"master", "worker"} : SyncNodeRole(n) = [shown[n] EXCEPT !.role = r]
        \/ SyncNodeRole(n) = [shown[n] EXCEPT !.cluster = None, !.role = None]
    BY DEF SyncNodeRole
  <2>3. /\ SyncNodeRole(n) \in Label
        /\ \/ /\ SyncNodeRole(n).cluster = shown[n].cluster
              /\ SyncNodeRole(n).role \in {"master", "worker"}
           \/ SyncNodeRole(n).cluster = None /\ SyncNodeRole(n).role = None
    BY <2>1, <2>2 DEF Label
  <2>4. Paired(SyncNodeRole(n))
    BY <1>2, <2>3, OwnershipAssumption DEF Paired
  <2>5. UpdateNode(n, SyncNodeRole(n))
    BY <1>2 DEF ReconcileNode
  <2> QED
    BY <2>3, <2>4, <2>5, UpdateNodeInStep
<1> QED
  BY <1>1, <1>2

\* The other writers of a node, and its informer.
LEMMA OthersInStep ==
    ASSUME NodesInStep, NEW n \in Nodes, SyncNodeDisable(n) \/ Heartbeat(n) \/ DeliverNode(n)
    PROVE  NodesInStep' /\ NotStolen
<1>1. CASE SyncNodeDisable(n)
  <2> DEFINE v == ~label[n].disabled
  <2>a. v \in BOOLEAN /\ label[n] \in Label
    BY DEF NodesInStep
  <2>b. label' = [label EXCEPT ![n] = [label[n] EXCEPT !.disabled = v]]
    BY <1>1 DEF SyncNodeDisable
  <2> HIDE DEF v
  <2>c. [label[n] EXCEPT !.disabled = v] \in Label
    BY <2>a DEF Label
  <2>1. /\ label' \in [Nodes -> Label] /\ shown' = shown
        /\ nodeSynced' = [nodeSynced EXCEPT ![n] = FALSE]
        /\ \A m \in Nodes : label'[m] = IF m = n THEN [label[n] EXCEPT !.disabled = v] ELSE label[m]
    BY <1>1, <2>b, <2>c DEF SyncNodeDisable, NodesInStep
  <2>2. \A m \in Nodes : label'[m].cluster = label[m].cluster /\ label'[m].role = label[m].role
    BY <2>1, <2>a DEF Label
  <2>3. nodeSynced' \in [Nodes -> BOOLEAN] /\ ~nodeSynced'[n]
    BY <2>1 DEF NodesInStep
  <2>4. \A m \in Nodes \ {n} : nodeSynced'[m] = nodeSynced[m]
    BY <2>1 DEF NodesInStep
  <2> QED
    BY <2>1, <2>2, <2>3, <2>4 DEF NodesInStep, NotStolen, Paired
<1>2. CASE Heartbeat(n)
  BY <1>2, SameLabelsInStep DEF Heartbeat, NodesInStep
<1>3. CASE DeliverNode(n)
  BY <1>3 DEF DeliverNode, NodesInStep, NotStolen
<1> QED
  BY <1>1, <1>2, <1>3

\* Every step keeps copies and labels in step, and steals none.
LEMMA NodesStep == NodesInStep /\ [Next]_vars => NodesInStep' /\ NotStolen
<1> SUFFICES ASSUME NodesInStep, [Next]_vars PROVE NodesInStep' /\ NotStolen
  OBVIOUS
<1>1. CASE Api
  <2>1. ASSUME UNCHANGED nodeVars PROVE NodesInStep' /\ NotStolen
    BY <2>1, SameLabelsInStep DEF nodeVars, NodesInStep
  <2> QED
    BY <1>1, <2>1, OthersInStep DEF Api, CreateClusterCheck, AddNode, RemoveNode, DeleteCluster
<1>2. CASE Complete
  <2>1. /\ UNCHANGED <<label, shown>> /\ nodeSynced' \in [Nodes -> BOOLEAN]
        /\ \A n \in Nodes : nodeSynced'[n] => nodeSynced[n]
    BY <1>2 DEF Complete, CreateCluster, UpdateCluster, nodeVars, NodesInStep
  <2> QED
    BY <2>1, SameLabelsInStep
<1>3. ASSUME NEW c \in Clusters, DeliverCluster(c) \/ Resync(c) PROVE NodesInStep' /\ NotStolen
  BY <1>3, SameLabelsInStep DEF DeliverCluster, Resync, nodeVars, NodesInStep
<1>4. CASE UNCHANGED vars
  BY <1>4, SameLabelsInStep DEF vars, nodeVars, NodesInStep
<1> QED
  BY <1>1, <1>2, <1>3, <1>4, ClusterStepInStep, ReconcileNodeInStep, OthersInStep DEF Next

\* At the beginning the copies are current.
LEMMA NodesStart == Init => NodesInStep
<1> SUFFICES ASSUME Init PROVE NodesInStep
  OBVIOUS
<1> DEFINE l == [cluster |-> Owner, role |-> IF Owner = None THEN None ELSE "worker", disabled |-> FALSE]
<1>1. l \in Label /\ Paired(l)
  BY OwnershipAssumption DEF Label, Paired
<1>2. label = [n \in Nodes |-> l] /\ shown = label /\ nodeSynced = [n \in Nodes |-> TRUE]
  BY DEF Init
<1> HIDE DEF l
<1> QED
  BY <1>1, <1>2 DEF NodesInStep

\* A node goes from one cluster's label to another's only by way of being free,
\* whoever writes and however old the copy it writes from: syncNodeRole and
\* updateNodeRoleLabel change the informer's object, and a failed write leaves it
\* outdated.
THEOREM LabelsAreNotStolen == Spec => LabelsNotStolen
<1>1. NodesInStep /\ [Next]_vars => NodesInStep'
  BY NodesStep
<1>2. NodesInStep /\ [Next]_vars =>
        [\A n \in Nodes : label[n].cluster # None /\ label'[n].cluster # label[n].cluster =>
           label'[n].cluster = None]_vars
  BY NodesStep DEF NotStolen
<1> QED
  BY NodesStart, <1>1, <1>2, PTL DEF Spec, LabelsNotStolen

-----------------------------------------------------------------------------
(***************************************************************************)
(* The other variables: clusters, passes of the controller, requests.      *)
(***************************************************************************)
Requests == [kind : {"create", "patch"}, name : Clusters, object : Cluster, marked : SUBSET Nodes]

ClustersOK == cluster \in [Clusters -> Cluster] /\ seen \in [Clusters -> Cluster]
RunOK ==
    /\ held \in [Clusters -> Cluster]
    /\ pc \in [Clusters -> {"idle", "label", "release"}]
    /\ todo \in [Clusters -> SUBSET Nodes]
QueueOK == queue \subseteq Nodes \cup Clusters
RequestsOK == requests \subseteq Requests /\ issued \in 0..MaxRequests
BoundOK == collisions \in 0..MaxCollisions

Types == NodesInStep /\ ClustersOK /\ RunOK /\ QueueOK /\ RequestsOK /\ BoundOK

LEMMA TypesAreTypeOK == Types => TypeOK
BY DEF Types, NodesInStep, Paired, ClustersOK, RunOK, QueueOK, RequestsOK, Requests, BoundOK,
       TypeOK

\* What an action leaves alone keeps its type.
LEMMA Frames ==
    /\ ClustersOK /\ UNCHANGED clusterVars => ClustersOK'
    /\ RunOK /\ UNCHANGED runVars => RunOK'
    /\ QueueOK /\ UNCHANGED queue => QueueOK'
    /\ RequestsOK /\ UNCHANGED apiVars => RequestsOK'
    /\ BoundOK /\ UNCHANGED collisions => BoundOK'
BY DEF ClustersOK, RunOK, QueueOK, RequestsOK, BoundOK, clusterVars, runVars, apiVars

LEMMA ClusterChange ==
    /\ NoCluster \in Cluster
    /\ \A c \in Cluster :
         /\ c.rv \in Nat /\ c.masters \subseteq Nodes /\ c.workers \subseteq Nodes
         /\ \A r \in Nat : [c EXCEPT !.rv = r] \in Cluster
         /\ \A b \in BOOLEAN : [c EXCEPT !.alive = b] \in Cluster
         /\ \A b \in BOOLEAN : [c EXCEPT !.final = b] \in Cluster
         /\ \A b \in BOOLEAN : [c EXCEPT !.deleting = b] \in Cluster
         /\ \A w \in SUBSET Nodes : [c EXCEPT !.workers = w] \in Cluster
<1>1. NoCluster \in Cluster
  BY DEF NoCluster, Cluster
<1> QED
  BY <1>1 DEF Cluster

LEMMA PutType ==
    ASSUME ClustersOK, NEW c \in Clusters, NEW o \in Cluster, Put(c, o)
    PROVE  cluster' \in [Clusters -> Cluster]
<1>1. cluster[c].rv + 1 \in Nat
  BY ClusterChange DEF ClustersOK
<1> DEFINE x == [o EXCEPT !.rv = cluster[c].rv + 1]
<1>2. x \in Cluster
  BY <1>1, ClusterChange
<1>3. cluster' = [cluster EXCEPT ![c] = x]
  BY DEF Put
<1> HIDE DEF x
<1> QED
  BY <1>2, <1>3 DEF ClustersOK

LEMMA OneMore ==
    ASSUME RequestsOK, NEW k, Issue(k) PROVE issued' \in 0..MaxRequests
BY OwnershipAssumption DEF RequestsOK, Issue

\* The requests that the API holds between check and write.
LEMMA ApiTypes == Types /\ Api => ClustersOK' /\ RunOK' /\ QueueOK' /\ RequestsOK' /\ BoundOK'
<1> SUFFICES ASSUME Types, Api
             PROVE  ClustersOK' /\ RunOK' /\ QueueOK' /\ RequestsOK' /\ BoundOK'
  OBVIOUS
<1>1. ASSUME NEW c \in Clusters, NEW o \in Cluster, NEW k \in {"create", "patch"},
             NEW m \in SUBSET Nodes, NEW kind, Issue(kind),
             requests' = requests \cup {[kind |-> k, name |-> c, marked |-> m, object |-> o]}
      PROVE  RequestsOK'
  <2>1. [kind |-> k, name |-> c, marked |-> m, object |-> o] \in Requests
    BY DEF Requests
  <2>2. issued' \in 0..MaxRequests
    BY <1>1, OneMore DEF Types
  <2> QED
    BY <1>1, <2>1, <2>2 DEF Types, RequestsOK
<1>2. ASSUME NEW c \in Clusters, NEW m \in SUBSET Nodes, NEW w \in SUBSET Nodes,
             CreateClusterCheck(c, m, w)
      PROVE  ClustersOK' /\ RunOK' /\ QueueOK' /\ RequestsOK' /\ BoundOK'
  <2> DEFINE o == [NoCluster EXCEPT !.alive = TRUE, !.masters = m, !.workers = w]
  <2>1. o \in Cluster
    BY DEF NoCluster, Cluster
  <2>2. /\ Issue("create")
        /\ requests' = requests \cup {[kind |-> "create", name |-> c, marked |-> {}, object |-> o]}
    BY <1>2 DEF CreateClusterCheck
  <2> HIDE DEF o
  <2>3. RequestsOK'
    BY <1>1, <2>1, <2>2
  <2> QED
    BY <1>2, <2>3, Frames DEF Types, CreateClusterCheck
<1>3. ASSUME NEW c \in Clusters, NEW n \in Nodes, AddNode(c, n) \/ RemoveNode(c, n)
      PROVE  ClustersOK' /\ RunOK' /\ QueueOK' /\ RequestsOK' /\ BoundOK'
  <2> DEFINE more == [cluster[c] EXCEPT !.workers = @ \cup {n}]
             less == [cluster[c] EXCEPT !.workers = @ \ {n}]
  <2>1. cluster[c] \in Cluster
    BY DEF Types, ClustersOK
  <2>2. cluster[c].workers \cup {n} \in SUBSET Nodes /\ cluster[c].workers \ {n} \in SUBSET Nodes
    BY <2>1, ClusterChange
  <2>3. more \in Cluster /\ less \in Cluster
    BY <2>1, <2>2, ClusterChange
  <2>4. \E kind \in {"add", "remove"}, o \in {more, less} :
          /\ Issue(kind)
          /\ requests' = requests \cup {[kind |-> "patch", name |-> c, marked |-> {n}, object |-> o]}
    BY <1>3 DEF AddNode, RemoveNode
  <2> HIDE DEF more, less
  <2>5. RequestsOK'
    BY <1>1, <2>3, <2>4
  <2> QED
    BY <1>3, <2>5, Frames DEF Types, AddNode, RemoveNode
<1>4. ASSUME NEW c \in Clusters, DeleteCluster(c)
      PROVE  ClustersOK' /\ RunOK' /\ QueueOK' /\ RequestsOK' /\ BoundOK'
  <2> DEFINE o == IF cluster[c].final THEN [cluster[c] EXCEPT !.deleting = TRUE] ELSE NoCluster
  <2>1. cluster[c] \in Cluster
    BY DEF Types, ClustersOK
  <2>2. o \in Cluster
    BY <2>1, ClusterChange
  <2>3. Put(c, o)
    BY <1>4 DEF DeleteCluster
  <2> HIDE DEF o
  <2>4. ClustersOK'
    BY <1>4, <2>2, <2>3, PutType DEF Types, ClustersOK, DeleteCluster
  <2>5. RequestsOK'
    BY <1>4, OneMore DEF Types, RequestsOK, DeleteCluster
  <2> QED
    BY <1>4, <2>4, <2>5, Frames DEF Types, DeleteCluster
<1>5. ASSUME NEW n \in Nodes, SyncNodeDisable(n)
      PROVE  ClustersOK' /\ RunOK' /\ QueueOK' /\ RequestsOK' /\ BoundOK'
  <2>1. RequestsOK'
    BY <1>5, OneMore DEF Types, RequestsOK, SyncNodeDisable
  <2> QED
    BY <1>5, <2>1, Frames DEF Types, SyncNodeDisable
<1> QED
  BY <1>2, <1>3, <1>4, <1>5 DEF Api

LEMMA CompleteTypes ==
    Types /\ Complete => ClustersOK' /\ RunOK' /\ QueueOK' /\ RequestsOK' /\ BoundOK'
<1> SUFFICES ASSUME Types, NEW r \in requests, CreateCluster(r) \/ UpdateCluster(r)
             PROVE  ClustersOK' /\ RunOK' /\ QueueOK' /\ RequestsOK' /\ BoundOK'
  BY DEF Complete
<1>1. r.name \in Clusters /\ r.object \in Cluster
  BY DEF Types, RequestsOK, Requests
<1>2. ClustersOK'
  <2>1. seen' = seen /\ (cluster' = cluster \/ Put(r.name, r.object))
    BY DEF CreateCluster, UpdateCluster
  <2> QED
    BY <1>1, <2>1, PutType DEF Types, ClustersOK
<1>3. RequestsOK'
  BY DEF Types, RequestsOK, CreateCluster, UpdateCluster
<1> QED
  BY <1>2, <1>3, Frames DEF Types, CreateCluster, UpdateCluster

LEMMA ReturnTypes == ASSUME RunOK, NEW c \in Clusters, Return(c) PROVE RunOK'
BY ClusterChange DEF RunOK, Return

LEMMA MembersType == ASSUME NEW c \in Cluster PROVE GetAllNodes(c) \in SUBSET Nodes
BY ClusterChange DEF GetAllNodes

\* The passes of the cluster controller.
LEMMA ClusterStepTypes ==
    ASSUME Types, NEW c \in Clusters, ClusterStep(c)
    PROVE  ClustersOK' /\ RunOK' /\ QueueOK' /\ RequestsOK' /\ BoundOK'
<1>1. /\ seen[c] \in Cluster /\ cluster[c] \in Cluster /\ GetAllNodes(seen[c]) \in SUBSET Nodes
      /\ c \in Nodes \cup Clusters
  BY MembersType DEF Types, ClustersOK
<1> DEFINE Begin(p) == /\ pc' = [pc EXCEPT ![c] = p]
                       /\ todo' = [todo EXCEPT ![c] = GetAllNodes(seen[c])]
                       /\ held' = [held EXCEPT ![c] = seen[c]]
<1>2. ASSUME NEW p \in {"label", "release"}, Begin(p) PROVE RunOK'
  BY <1>1, <1>2 DEF Types, RunOK
<1>3. CASE ReconcileCluster(c)
  <2>1. cluster' \in [Clusters -> Cluster]
    <3>1. [cluster[c] EXCEPT !.final = TRUE] \in Cluster
      BY <1>1, ClusterChange
    <3>2. cluster' = cluster \/ Put(c, [cluster[c] EXCEPT !.final = TRUE])
      BY <1>3 DEF ReconcileCluster
    <3> QED
      BY <3>1, <3>2, PutType DEF Types, ClustersOK
  <2>2. seen' \in [Clusters -> Cluster]
    <3> DEFINE x == [seen[c] EXCEPT !.final = TRUE]
    <3>1. x \in Cluster
      BY <1>1, ClusterChange
    <3>2. seen' = [seen EXCEPT ![c] = x]
      BY <1>3 DEF ReconcileCluster
    <3> HIDE DEF x
    <3> QED
      BY <3>1, <3>2 DEF Types, ClustersOK
  <2>3. RunOK' /\ QueueOK'
    <3>1. CASE seen[c].final \/ seen[c].rv = cluster[c].rv
      <4>1. Begin("label") /\ queue' = queue \ {c}
        BY <1>3, <3>1 DEF ReconcileCluster
      <4> QED
        BY <4>1, <1>2 DEF Types, QueueOK
    <3>2. CASE ~(seen[c].final \/ seen[c].rv = cluster[c].rv)
      BY <1>3, <3>2, Frames DEF Types, ReconcileCluster
    <3> QED
      BY <3>1, <3>2
  <2> QED
    BY <1>3, <2>1, <2>2, <2>3, Frames DEF Types, ClustersOK, ReconcileCluster
<1>4. CASE FinalizeCluster(c)
  <2>1. Begin("release") /\ queue' = queue \ {c}
    BY <1>4 DEF FinalizeCluster
  <2>2. RunOK' /\ QueueOK'
    BY <2>1, <1>2 DEF Types, QueueOK
  <2> QED
    BY <1>4, <2>2, Frames DEF Types, FinalizeCluster
<1>5. CASE Ignore(c)
  BY <1>5, Frames DEF Types, QueueOK, Ignore
<1>6. ASSUME NEW n \in Nodes, Visited(c, n) \/ Skip(c, n) PROVE RunOK' /\ QueueOK'
  <2>1. \/ todo' = [todo EXCEPT ![c] = @ \ {n}] /\ UNCHANGED <<pc, held, queue>>
        \/ Return(c) /\ queue' = queue \cup {c}
    BY <1>6 DEF Visited, Skip
  <2>2. CASE todo' = [todo EXCEPT ![c] = @ \ {n}] /\ UNCHANGED <<pc, held, queue>>
    BY <2>2 DEF Types, RunOK, QueueOK
  <2>3. CASE Return(c) /\ queue' = queue \cup {c}
    BY <1>1, <2>3, ReturnTypes DEF Types, QueueOK
  <2> QED
    BY <2>1, <2>2, <2>3
<1>7. ASSUME NEW n \in Nodes, LabelNode(c, n) \/ ReleaseNode(c, n)
      PROVE  ClustersOK' /\ RunOK' /\ QueueOK' /\ RequestsOK' /\ BoundOK'
  <2>1. Visited(c, n) \/ Skip(c, n)
    BY <1>7 DEF LabelNode, ReleaseNode
  <2>2. UNCHANGED <<clusterVars, apiVars, collisions>>
    BY <1>7 DEF LabelNode, ReleaseNode
  <2> QED
    BY <1>6, <2>1, <2>2, Frames DEF Types
<1>8. CASE Labelled(c)
  BY <1>8, ReturnTypes, Frames DEF Types, Labelled
<1>9. CASE RemoveFinalizer(c)
  <2>1. cluster' \in [Clusters -> Cluster]
    <3>1. cluster' = cluster \/ Put(c, NoCluster)
      BY <1>9 DEF RemoveFinalizer
    <3> QED
      BY <3>1, PutType, ClusterChange DEF Types, ClustersOK
  <2>2. seen' \in [Clusters -> Cluster]
    <3> DEFINE x == [seen[c] EXCEPT !.final = FALSE]
    <3>1. x \in Cluster
      BY <1>1, ClusterChange
    <3>2. seen' = seen \/ seen' = [seen EXCEPT ![c] = x]
      BY <1>9 DEF RemoveFinalizer
    <3> HIDE DEF x
    <3> QED
      BY <3>1, <3>2 DEF Types, ClustersOK
  <2>3. QueueOK'
    BY <1>1, <1>9 DEF Types, QueueOK, RemoveFinalizer
  <2>4. RunOK'
    BY <1>9, ReturnTypes DEF Types, RemoveFinalizer
  <2> QED
    BY <1>9, <2>1, <2>2, <2>3, <2>4, Frames DEF Types, ClustersOK, RemoveFinalizer
<1> QED
  BY <1>3, <1>4, <1>5, <1>7, <1>8, <1>9 DEF ClusterStep

\* The node controller, the heartbeats and the informers.
LEMMA EventTypes ==
    ASSUME Types,
           \/ \E c \in Clusters : DeliverCluster(c) \/ Resync(c)
           \/ \E n \in Nodes : ReconcileNode(n) \/ Heartbeat(n) \/ DeliverNode(n)
    PROVE  ClustersOK' /\ RunOK' /\ QueueOK' /\ RequestsOK' /\ BoundOK'
<1>1. ASSUME NEW c \in Clusters, DeliverCluster(c)
      PROVE  ClustersOK' /\ RunOK' /\ QueueOK' /\ RequestsOK' /\ BoundOK'
  <2>1. ClustersOK' /\ QueueOK'
    BY <1>1 DEF Types, ClustersOK, QueueOK, DeliverCluster
  <2> QED
    BY <1>1, <2>1, Frames DEF Types, DeliverCluster
<1>2. ASSUME NEW c \in Clusters, Resync(c)
      PROVE  ClustersOK' /\ RunOK' /\ QueueOK' /\ RequestsOK' /\ BoundOK'
  <2>1. QueueOK'
    BY <1>2 DEF Types, QueueOK, Resync
  <2> QED
    BY <1>2, <2>1, Frames DEF Types, Resync
<1>3. ASSUME NEW n \in Nodes, ReconcileNode(n)
      PROVE  ClustersOK' /\ RunOK' /\ QueueOK' /\ RequestsOK' /\ BoundOK'
  <2>1. QueueOK'
    BY <1>3 DEF Types, QueueOK, ReconcileNode
  <2> QED
    BY <1>3, <2>1, Frames DEF Types, ReconcileNode
<1>4. ASSUME NEW n \in Nodes, Heartbeat(n)
      PROVE  ClustersOK' /\ RunOK' /\ QueueOK' /\ RequestsOK' /\ BoundOK'
  <2>1. BoundOK'
    BY <1>4, OwnershipAssumption DEF Types, BoundOK, Heartbeat
  <2> QED
    BY <1>4, <2>1, Frames DEF Types, Heartbeat
<1>5. ASSUME NEW n \in Nodes, DeliverNode(n)
      PROVE  ClustersOK' /\ RunOK' /\ QueueOK' /\ RequestsOK' /\ BoundOK'
  <2>1. QueueOK'
    BY <1>5 DEF Types, QueueOK, DeliverNode
  <2> QED
    BY <1>5, <2>1, Frames DEF Types, DeliverNode
<1> QED
  BY <1>1, <1>2, <1>3, <1>4, <1>5

LEMMA TypesStart == Init => Types
<1> SUFFICES ASSUME Init PROVE Types
  OBVIOUS
<1>1. NodesInStep
  BY NodesStart
<1>2. ClustersOK
  <2>1. ASSUME NEW c \in Clusters PROVE cluster[c] \in Cluster
    <3> DEFINE a == (Owner # None)
               w == IF c = Owner THEN Nodes ELSE {}
    <3>1. a \in BOOLEAN /\ w \in SUBSET Nodes
      OBVIOUS
    <3>2. cluster[c] = [NoCluster EXCEPT !.alive = a, !.final = a, !.workers = w]
      BY DEF Init
    <3> HIDE DEF a, w
    <3> DEFINE x == [NoCluster EXCEPT !.alive = a]
               y == [x EXCEPT !.final = a]
    <3>3. x \in Cluster
      BY <3>1, ClusterChange
    <3>4. y \in Cluster
      <4> HIDE DEF x
      <4> QED
        BY <3>1, <3>3, ClusterChange
    <3>5. [y EXCEPT !.workers = w] \in Cluster
      <4> HIDE DEF y
      <4> QED
        BY <3>1, <3>4, ClusterChange
    <3> QED
      BY <3>2, <3>5
  <2>2. cluster = [c \in Clusters |-> cluster[c]] /\ seen = cluster
    BY DEF Init
  <2> QED
    BY <2>1, <2>2 DEF ClustersOK
<1>3. RunOK
  <2>1. held \in [Clusters -> Cluster]
    BY ClusterChange DEF Init
  <2>2. pc \in [Clusters -> {"idle", "label", "release"}] /\ todo \in [Clusters -> SUBSET Nodes]
    BY DEF Init
  <2> QED
    BY <2>1, <2>2 DEF RunOK
<1>4. QueueOK /\ RequestsOK /\ BoundOK
  <2>1. queue = {} /\ requests = {} /\ issued = 0 /\ collisions = 0
    BY DEF Init
  <2>2. 0 \in 0..MaxRequests /\ 0 \in 0..MaxCollisions
    BY OwnershipAssumption
  <2> QED
    BY <2>1, <2>2 DEF QueueOK, RequestsOK, BoundOK
<1> QED
  BY <1>1, <1>2, <1>3, <1>4 DEF Types

LEMMA TypesStep == Types /\ [Next]_vars => Types'
<1> SUFFICES ASSUME Types, [Next]_vars PROVE Types'
  OBVIOUS
<1>1. NodesInStep'
  BY NodesStep DEF Types
<1>2. CASE UNCHANGED vars
  BY <1>1, <1>2, Frames DEF Types, vars
<1>3. CASE Next
  <2>1. ClustersOK' /\ RunOK' /\ QueueOK' /\ RequestsOK' /\ BoundOK'
    BY <1>3, ApiTypes, CompleteTypes, ClusterStepTypes, EventTypes DEF Next
  <2> QED
    BY <1>1, <2>1 DEF Types
<1> QED
  BY <1>2, <1>3

-----------------------------------------------------------------------------
(***************************************************************************)
(* The imported cluster.  A pass of the provider's controller frees nodes  *)
(* by a list of members that it read earlier.  A member that is not on the *)
(* list has joined since: users have added it, or it came on its own.      *)
(***************************************************************************)
Machine == [registered : BOOLEAN, label : BOOLEAN, role : BOOLEAN, origin : BOOLEAN]
ImportedObject == [exists : BOOLEAN, deleting : BOOLEAN, finalizer : BOOLEAN,
                   nodes : SUBSET Machines, pending : SUBSET Machines]
ProviderObject == [exists : BOOLEAN, deleting : BOOLEAN, finalizer : BOOLEAN, ready : Reasons]

ScenarioOK == given \in Scenarios /\ failures \in 0..given.failures /\ came \subseteq Machines
MembersOK == members \subseteq Machines /\ joining \subseteq Machines /\ joining \subseteq given.adding
NodeOK == node \in [Machines -> Machine]
ImportedOK == imported \in ImportedObject /\ imported.pending \subseteq given.adding
ProviderOK == provider \in ProviderObject
PassTypes ==
    /\ at \in {"idle", "info", "diff", "free", "cleanup", "drain", "finalize"}
    /\ read \subseteq Machines /\ visit \subseteq Machines

\* The pass that cleans up is one of a provider that is being deleted.
CleansUpDeleted == at \in {"cleanup", "drain", "finalize"} => provider.deleting

\* Only nodes that were added or came outside have joined since the members were read ...
MissesOnlyAdded == at = "diff" => members \ (given.adding \cup came) \subseteq read

\* ... so that the others which are to be freed have left.
FreesOnlyLeavers == at = "free" => \A n \in visit : n \notin members \/ n \in given.adding \cup came

PassOK == PassTypes /\ CleansUpDeleted /\ MissesOnlyAdded /\ FreesOnlyLeavers

ImportInvariant == ScenarioOK /\ MembersOK /\ NodeOK /\ ImportedOK /\ ProviderOK /\ PassOK

LEMMA ImportTypes == ImportInvariant => ImportTypeOK
BY DEF ImportInvariant, ScenarioOK, MembersOK, NodeOK, Machine, ImportedOK, ImportedObject,
       ProviderOK, ProviderObject, PassOK, PassTypes, ImportTypeOK

\* What an action leaves alone.
LEMMA ImportFrames ==
    /\ ScenarioOK /\ UNCHANGED bounds => ScenarioOK'
    /\ MembersOK /\ UNCHANGED <<members, joining, given>> => MembersOK'
    /\ NodeOK /\ UNCHANGED node => NodeOK'
    /\ ImportedOK /\ UNCHANGED <<imported, given>> => ImportedOK'
    /\ ProviderOK /\ UNCHANGED provider => ProviderOK'
    /\ PassOK /\ UNCHANGED <<pass, provider, members, came, given>> => PassOK'
BY DEF ScenarioOK, MembersOK, NodeOK, ImportedOK, ProviderOK, PassOK, PassTypes, CleansUpDeleted,
       MissesOnlyAdded, FreesOnlyLeavers, bounds, pass

LEMMA MachineChange ==
    /\ Registered \in Machine /\ Unregistered \in Machine /\ Member \in Machine
    /\ Registered.registered
    /\ \A m \in Machine, b \in BOOLEAN :
         /\ [m EXCEPT !.label = b] \in Machine /\ [m EXCEPT !.label = b].registered = m.registered
         /\ [m EXCEPT !.role = b] \in Machine /\ [m EXCEPT !.role = b].registered = m.registered
         /\ [m EXCEPT !.origin = b] \in Machine /\ [m EXCEPT !.origin = b].registered = m.registered
<1>1. Registered \in Machine /\ Registered.registered
  BY DEF Registered, Machine
<1>2. \A m \in Machine, b \in BOOLEAN :
         /\ [m EXCEPT !.label = b] \in Machine /\ [m EXCEPT !.label = b].registered = m.registered
         /\ [m EXCEPT !.role = b] \in Machine /\ [m EXCEPT !.role = b].registered = m.registered
         /\ [m EXCEPT !.origin = b] \in Machine /\ [m EXCEPT !.origin = b].registered = m.registered
         /\ [m EXCEPT !.registered = b] \in Machine
  BY DEF Machine
<1>3. Unregistered \in Machine
  BY <1>1, <1>2 DEF Unregistered
<1>4. Member \in Machine
  <2> DEFINE x == [Registered EXCEPT !.label = TRUE]
  <2>1. x \in Machine
    BY <1>1, <1>2
  <2>2. [x EXCEPT !.role = TRUE] \in Machine
    <3> HIDE DEF x
    <3> QED
      BY <2>1, <1>2
  <2> QED
    BY <2>2 DEF Member
<1> QED
  BY <1>1, <1>2, <1>3, <1>4

LEMMA ImportedChange ==
    /\ NotImported \in ImportedObject /\ NotImported.pending = {}
    /\ \A c \in ImportedObject, b \in BOOLEAN :
         /\ c.nodes \subseteq Machines /\ c.pending \subseteq Machines
         /\ [c EXCEPT !.exists = b] \in ImportedObject /\ [c EXCEPT !.exists = b].pending = c.pending
         /\ [c EXCEPT !.deleting = b] \in ImportedObject /\ [c EXCEPT !.deleting = b].pending = c.pending
         /\ [c EXCEPT !.finalizer = b] \in ImportedObject
         /\ [c EXCEPT !.finalizer = b].pending = c.pending
    /\ \A c \in ImportedObject, m \in SUBSET Machines :
         /\ [c EXCEPT !.nodes = m] \in ImportedObject /\ [c EXCEPT !.nodes = m].pending = c.pending
         /\ [c EXCEPT !.pending = m] \in ImportedObject /\ [c EXCEPT !.pending = m].pending = m
<1>1. NotImported \in ImportedObject /\ NotImported.pending = {}
  BY DEF NotImported, ImportedObject
<1> QED
  BY <1>1 DEF ImportedObject

LEMMA ProviderChange ==
    /\ NoProvider \in ProviderObject
    /\ \A p \in ProviderObject, b \in BOOLEAN :
         /\ [p EXCEPT !.exists = b] \in ProviderObject
         /\ [p EXCEPT !.deleting = b] \in ProviderObject /\ [p EXCEPT !.deleting = b].deleting = b
         /\ [p EXCEPT !.finalizer = b] \in ProviderObject
         /\ [p EXCEPT !.finalizer = b].deleting = p.deleting
         /\ [p EXCEPT !.finalizer = b].ready = p.ready
    /\ \A p \in ProviderObject, r \in Reasons :
         [p EXCEPT !.ready = r] \in ProviderObject /\ [p EXCEPT !.ready = r].deleting = p.deleting
<1>1. NoProvider \in ProviderObject
  BY DEF NoProvider, ProviderObject, Reasons
<1> QED
  BY <1>1 DEF ProviderObject

LEMMA FinishKeeps ==
    ASSUME ProviderOK, NEW r \in Reasons, Finish(r) PROVE ProviderOK' /\ PassOK'
<1>1. ProviderOK'
  BY ProviderChange DEF ProviderOK, Finish
<1>2. PassOK'
  BY DEF Finish, PassOK, PassTypes, CleansUpDeleted, MissesOnlyAdded, FreesOnlyLeavers
<1> QED
  BY <1>1, <1>2

\* No registered node loses its registration.
AllStay == \A m \in Machines : node[m].registered => node'[m].registered

\* What may happen to one node without taking its registration.
LEMMA OneNode ==
    ASSUME NodeOK, NEW n \in Machines, NEW x \in Machine, x.registered = node[n].registered \/ x.registered,
           node' = [node EXCEPT ![n] = x]
    PROVE  NodeOK' /\ AllStay
BY DEF NodeOK, AllStay

\* What each step is to keep, and whom it may unregister.
Keeps == ImportInvariant' /\ \A n \in Machines : node[n].registered /\ ~node'[n].registered =>
                                n \notin members \/ provider.deleting \/ n \in given.adding \cup came

LEMMA AllStayKeeps == ImportInvariant' /\ AllStay => Keeps
BY DEF AllStay, Keeps

LEMMA SameNodes == UNCHANGED node => AllStay
BY DEF AllStay

LEMMA BoundsType == ImportInvariant => given.failures \in Nat /\ given.adding \subseteq Machines
BY ImportAssumption DEF ImportInvariant, ScenarioOK

LEMMA CallFailsKeeps == ImportInvariant /\ CallFails => Keeps
<1> SUFFICES ASSUME ImportInvariant, CallFails PROVE Keeps
  OBVIOUS
<1>1. PICK r \in Reasons : Finish(r)
  BY DEF CallFails, Reasons
<1>2. ProviderOK' /\ PassOK'
  BY <1>1, FinishKeeps DEF ImportInvariant
<1>3. ScenarioOK'
  BY BoundsType DEF ImportInvariant, ScenarioOK, CallFails
<1> QED
  BY <1>2, <1>3, ImportFrames, SameNodes, AllStayKeeps DEF ImportInvariant, CallFails

LEMMA ReconcileKeeps == ImportInvariant /\ Reconcile => Keeps
<1> SUFFICES ASSUME ImportInvariant, Reconcile PROVE Keeps
  OBVIOUS
<1> DEFINE p == [provider EXCEPT !.finalizer = TRUE]
           r == IF provider.ready = "none" THEN "Created" ELSE provider.ready
<1>1. provider \in ProviderObject /\ r \in Reasons
  BY DEF ImportInvariant, ProviderOK, ProviderObject, Reasons
<1>2. p \in ProviderObject /\ p.ready = provider.ready
  BY <1>1, ProviderChange
<1>3. provider' = [p EXCEPT !.ready = IF @ = "none" THEN "Created" ELSE @]
  BY DEF Reconcile
<1>4. provider' = [p EXCEPT !.ready = r]
  BY <1>2, <1>3
<1>5. ProviderOK'
  <2> HIDE DEF p, r
  <2> QED
    BY <1>1, <1>2, <1>4, ProviderChange DEF ProviderOK
<1>6. at' \in {"idle", "info"} /\ UNCHANGED <<read, visit>>
  BY DEF Reconcile
<1>7. PassOK'
  BY <1>6 DEF ImportInvariant, PassOK, PassTypes, CleansUpDeleted, MissesOnlyAdded, FreesOnlyLeavers
<1> QED
  BY <1>5, <1>7, ImportFrames, SameNodes, AllStayKeeps DEF ImportInvariant, Reconcile, bounds

LEMMA ClusterInfoKeeps == ImportInvariant /\ ClusterInfo => Keeps
<1> SUFFICES ASSUME ImportInvariant, ClusterInfo PROVE Keeps
  OBVIOUS
<1>1. PassOK'
  BY DEF ImportInvariant, ClusterInfo, MembersOK, PassOK, PassTypes, CleansUpDeleted, MissesOnlyAdded,
         FreesOnlyLeavers
<1> QED
  BY <1>1, ImportFrames, SameNodes, AllStayKeeps DEF ImportInvariant, ClusterInfo, objects, bounds

LEMMA NodeDiffKeeps == ImportInvariant /\ NodeDiff => Keeps
<1> SUFFICES ASSUME ImportInvariant, NodeDiff PROVE Keeps
  OBVIOUS
<1>1. ProviderOK' /\ PassOK'
  <2>1. CASE read \ ListKCNode # {}
    <3>1. Finish("SyncFailed") /\ "SyncFailed" \in Reasons
      BY <2>1 DEF NodeDiff, Reasons
    <3> QED
      BY <3>1, FinishKeeps DEF ImportInvariant
  <2>2. CASE ~(read \ ListKCNode # {})
    <3>1. /\ at = "diff" /\ visit' = ListKCNode \ read /\ at' = "free"
          /\ UNCHANGED <<provider, read, members, came, given>>
      BY <2>2 DEF NodeDiff, bounds
    <3>2. members \ (given.adding \cup came) \subseteq read
      BY <3>1 DEF ImportInvariant, PassOK, MissesOnlyAdded
    <3>3. FreesOnlyLeavers'
      BY <3>1, <3>2 DEF FreesOnlyLeavers
    <3>4. PassTypes'
      BY <3>1 DEF ImportInvariant, PassOK, PassTypes, ListKCNode
    <3> QED
      BY <3>1, <3>3, <3>4, ImportFrames
         DEF ImportInvariant, PassOK, CleansUpDeleted, MissesOnlyAdded
  <2> QED
    BY <2>1, <2>2
<1> QED
  BY <1>1, ImportFrames, SameNodes, AllStayKeeps DEF ImportInvariant, NodeDiff, bounds

\* Freeing unregisters a node only if it may.
LEMMA FreeNodeKeeps == ASSUME ImportInvariant, NEW n \in Machines, FreeNode(n) PROVE Keeps
<1> DEFINE x == IF node[n].origin THEN Registered ELSE Unregistered
<1>1. x \in Machine
  BY MachineChange
<1>2. node' = [node EXCEPT ![n] = x]
  BY DEF FreeNode
<1> HIDE DEF x
<1>3. NodeOK' /\ \A m \in Machines \ {n} : node'[m] = node[m]
  BY <1>1, <1>2 DEF ImportInvariant, NodeOK
<1>4. n \notin members \/ n \in given.adding \cup came
  BY DEF FreeNode, ImportInvariant, PassOK, FreesOnlyLeavers
<1>5. PassOK'
  BY DEF ImportInvariant, FreeNode, PassOK, PassTypes, CleansUpDeleted, MissesOnlyAdded,
         FreesOnlyLeavers, bounds
<1>6. ImportInvariant'
  BY <1>3, <1>5, ImportFrames DEF ImportInvariant, FreeNode, bounds
<1> QED
  BY <1>3, <1>4, <1>6 DEF Keeps

LEMMA ImportClusterKeeps == ImportInvariant /\ ImportClusterToKC => Keeps
<1> SUFFICES ASSUME ImportInvariant, ImportClusterToKC PROVE Keeps
  OBVIOUS
<1>1. ProviderOK' /\ PassOK'
  <2>1. Finish("SyncSucceed") /\ "SyncSucceed" \in Reasons
    BY DEF ImportClusterToKC, Reasons
  <2> QED
    BY <2>1, FinishKeeps DEF ImportInvariant
<1>2. ImportedOK'
  <2> DEFINE x == [NotImported EXCEPT !.exists = TRUE]
  <2>1. x \in ImportedObject /\ x.pending = {}
    BY ImportedChange
  <2>2. imported' = [x EXCEPT !.nodes = read] /\ read \in SUBSET Machines
    BY DEF ImportClusterToKC, ImportInvariant, PassOK, PassTypes
  <2> HIDE DEF x
  <2> QED
    BY <2>1, <2>2, ImportedChange DEF ImportedOK
<1> QED
  BY <1>1, <1>2, ImportFrames, SameNodes, AllStayKeeps DEF ImportInvariant, ImportClusterToKC, bounds

LEMMA ReconcileDeletedKeeps == ImportInvariant /\ ReconcileDeleted => Keeps
<1> SUFFICES ASSUME ImportInvariant, ReconcileDeleted PROVE Keeps
  OBVIOUS
<1>1. ProviderOK' /\ PassOK'
  <2>1. CASE provider.ready \in {"Removing", "RemoveFailed"}
    BY <2>1, ImportFrames
       DEF ImportInvariant, ReconcileDeleted, PassOK, PassTypes, CleansUpDeleted, MissesOnlyAdded,
           FreesOnlyLeavers
  <2>2. CASE provider.ready \notin {"Removing", "RemoveFailed"}
    <3>1. Finish("Removing") /\ "Removing" \in Reasons
      BY <2>2 DEF ReconcileDeleted, Reasons
    <3> QED
      BY <3>1, FinishKeeps DEF ImportInvariant
  <2> QED
    BY <2>1, <2>2
<1> QED
  BY <1>1, ImportFrames, SameNodes, AllStayKeeps DEF ImportInvariant, ReconcileDeleted, bounds

LEMMA CleanupKeeps == ImportInvariant /\ Cleanup => Keeps
<1> SUFFICES ASSUME ImportInvariant, Cleanup PROVE Keeps
  OBVIOUS
<1>1. PassOK'
  BY DEF ImportInvariant, Cleanup, PassOK, PassTypes, CleansUpDeleted, MissesOnlyAdded,
         FreesOnlyLeavers, ListKCNode, objects
<1> QED
  BY <1>1, ImportFrames, SameNodes, AllStayKeeps DEF ImportInvariant, Cleanup, objects, bounds

LEMMA DrainNodeKeeps == ASSUME ImportInvariant, NEW n \in Machines, DrainNode(n) PROVE Keeps
<1> DEFINE x == IF node[n].origin THEN [node[n] EXCEPT !.role = FALSE] ELSE Unregistered
<1>1. x \in Machine
  BY MachineChange DEF ImportInvariant, NodeOK
<1>2. node' = [node EXCEPT ![n] = x]
  BY DEF DrainNode
<1> HIDE DEF x
<1>3. NodeOK'
  BY <1>1, <1>2 DEF ImportInvariant, NodeOK
<1>4. provider.deleting
  BY DEF DrainNode, ImportInvariant, PassOK, CleansUpDeleted
<1>5. PassOK'
  BY DEF ImportInvariant, DrainNode, PassOK, PassTypes, CleansUpDeleted, MissesOnlyAdded,
         FreesOnlyLeavers
<1>6. ImportInvariant'
  BY <1>3, <1>5, ImportFrames DEF ImportInvariant, DrainNode, bounds
<1> QED
  BY <1>4, <1>6 DEF Keeps

LEMMA DeleteImportedKeeps == ImportInvariant /\ DeleteImported => Keeps
<1> SUFFICES ASSUME ImportInvariant, DeleteImported PROVE Keeps
  OBVIOUS
<1>1. CASE imported.exists
  <2> DEFINE marked == [imported EXCEPT !.deleting = TRUE]
  <2>1. (imported' = marked \/ imported' = NotImported) /\ given' = given
    BY <1>1 DEF DeleteImported, bounds
  <2>2. imported \in ImportedObject /\ imported.pending \subseteq given.adding
    BY DEF ImportInvariant, ImportedOK
  <2>3. marked \in ImportedObject /\ marked.pending = imported.pending
    BY <2>2, ImportedChange
  <2>4. NotImported \in ImportedObject /\ NotImported.pending = {}
    BY ImportedChange
  <2> HIDE DEF marked
  <2>5. ImportedOK'
    BY <2>1, <2>2, <2>3, <2>4 DEF ImportedOK
  <2>6. ProviderOK' /\ PassOK'
    BY <1>1, ImportFrames
       DEF ImportInvariant, DeleteImported, PassOK, PassTypes, CleansUpDeleted, MissesOnlyAdded,
           FreesOnlyLeavers
  <2> QED
    BY <2>5, <2>6, ImportFrames, SameNodes, AllStayKeeps DEF ImportInvariant, DeleteImported, bounds
<1>2. CASE ~imported.exists
  <2>1. Finish("RemoveFailed") /\ "RemoveFailed" \in Reasons /\ UNCHANGED imported
    BY <1>2 DEF DeleteImported, Reasons
  <2>2. ProviderOK' /\ PassOK'
    BY <2>1, FinishKeeps DEF ImportInvariant
  <2> QED
    BY <2>1, <2>2, ImportFrames, SameNodes, AllStayKeeps DEF ImportInvariant, DeleteImported, bounds
<1> QED
  BY <1>1, <1>2

LEMMA RemoveProviderFinalizerKeeps == ImportInvariant /\ RemoveProviderFinalizer => Keeps
<1> SUFFICES ASSUME ImportInvariant, RemoveProviderFinalizer PROVE Keeps
  OBVIOUS
<1>1. ProviderOK'
  BY ProviderChange DEF ProviderOK, RemoveProviderFinalizer
<1>2. PassOK'
  BY DEF RemoveProviderFinalizer, PassOK, PassTypes, CleansUpDeleted, MissesOnlyAdded,
         FreesOnlyLeavers
<1> QED
  BY <1>1, <1>2, ImportFrames, SameNodes, AllStayKeeps
     DEF ImportInvariant, RemoveProviderFinalizer, bounds

\* The label and the role of one node.
LEMMA LabelAndRole ==
    ASSUME NodeOK, NEW n \in Machines, NEW l \in BOOLEAN, NEW r \in BOOLEAN,
           node' = [node EXCEPT ![n].label = l, ![n].role = r]
    PROVE  NodeOK' /\ AllStay
<1> DEFINE x == [node[n] EXCEPT !.label = l]
           y == [x EXCEPT !.role = r]
<1>1. node[n] \in Machine
  BY DEF NodeOK
<1>2. x \in Machine /\ x.registered = node[n].registered
  BY <1>1, MachineChange
<1>3. y \in Machine /\ y.registered = node[n].registered
  <2> HIDE DEF x
  <2> QED
    BY <1>2, MachineChange
<1>4. node' = [node EXCEPT ![n] = y]
  BY DEF NodeOK
<1> HIDE DEF y
<1> QED
  BY <1>3, <1>4, OneNode

\* Steps that change nodes and nothing else.
LEMMA NodeStepKeeps ==
    ASSUME ImportInvariant, NodeOK', AllStay,
           UNCHANGED <<members, imported, provider, joining, pass, bounds>>
    PROVE  Keeps
BY ImportFrames, AllStayKeeps DEF ImportInvariant, bounds

LEMMA ControllerStepKeeps == ImportInvariant /\ ControllerStep => Keeps
<1> SUFFICES ASSUME ImportInvariant, ControllerStep PROVE Keeps
  OBVIOUS
<1>1. CASE AddFinalizer
  <2>1. ImportedOK'
    BY <1>1, ImportedChange DEF ImportInvariant, ImportedOK, AddFinalizer, bounds
  <2> QED
    BY <1>1, <2>1, ImportFrames, SameNodes, AllStayKeeps DEF ImportInvariant, AddFinalizer, bounds
<1>2. CASE FinalizeImported
  <2>1. ImportedOK'
    BY <1>2, ImportedChange DEF ImportedOK, FinalizeImported
  <2> DEFINE Freed(m) == [node[m] EXCEPT !.label = FALSE, !.role = FALSE]
  <2>2. ASSUME NEW m \in Machines PROVE Freed(m) \in Machine /\ Freed(m).registered = node[m].registered
    <3> DEFINE x == [node[m] EXCEPT !.label = FALSE]
    <3>1. x \in Machine /\ x.registered = node[m].registered
      BY MachineChange DEF ImportInvariant, NodeOK
    <3>2. [x EXCEPT !.role = FALSE] \in Machine /\ [x EXCEPT !.role = FALSE].registered = node[m].registered
      <4> HIDE DEF x
      <4> QED
        BY <3>1, MachineChange
    <3> QED
      BY <3>2
  <2>3. node' = [m \in Machines |-> IF m \in imported.nodes /\ node[m].label /\ node[m].role
                                    THEN Freed(m) ELSE node[m]]
    BY <1>2 DEF FinalizeImported
  <2> HIDE DEF Freed
  <2>4. NodeOK' /\ AllStay
    BY <2>2, <2>3 DEF ImportInvariant, NodeOK, AllStay
  <2> QED
    BY <1>2, <2>1, <2>4, ImportFrames, AllStayKeeps DEF ImportInvariant, FinalizeImported, bounds
<1>3. ASSUME NEW n \in Machines, UpdateClusterNode(n) PROVE Keeps
  <2>1. NodeOK' /\ AllStay
    BY <1>3, LabelAndRole DEF ImportInvariant, UpdateClusterNode
  <2> QED
    BY <1>3, <2>1, NodeStepKeeps DEF UpdateClusterNode
<1>4. ASSUME NEW n \in Machines, ProcessPendingOperation(n) PROVE Keeps
  <2>1. MembersOK'
    BY <1>4, BoundsType DEF ImportInvariant, MembersOK, ImportedOK, ProcessPendingOperation, bounds
  <2>2. UNCHANGED <<members, node, imported, provider, came, given>>
    BY <1>4 DEF ProcessPendingOperation, objects, bounds
  <2> QED
    BY <1>4, <2>1, <2>2, ImportFrames, SameNodes, AllStayKeeps
       DEF ImportInvariant, ProcessPendingOperation
<1>5. ASSUME NEW n \in Machines, SyncImportedRole(n) PROVE Keeps
  <2>1. NodeOK' /\ AllStay
    <3>1. CASE node' = [node EXCEPT ![n].role = TRUE]
      <4> DEFINE x == [node[n] EXCEPT !.role = TRUE]
      <4>1. x \in Machine /\ x.registered = node[n].registered
        BY MachineChange DEF ImportInvariant, NodeOK
      <4>2. node' = [node EXCEPT ![n] = x]
        BY <3>1
      <4> HIDE DEF x
      <4> QED
        BY <4>1, <4>2, OneNode DEF ImportInvariant
    <3>2. CASE node' = [node EXCEPT ![n].label = FALSE, ![n].role = FALSE]
      BY <3>2, LabelAndRole DEF ImportInvariant
    <3> QED
      BY <1>5, <3>1, <3>2 DEF SyncImportedRole
  <2> QED
    BY <1>5, <2>1, NodeStepKeeps DEF SyncImportedRole
<1> QED
  BY <1>1, <1>2, <1>3, <1>4, <1>5 DEF ControllerStep

LEMMA DeleteProviderKeeps == ImportInvariant /\ DeleteProvider => Keeps
<1> SUFFICES ASSUME ImportInvariant, DeleteProvider PROVE Keeps
  OBVIOUS
<1>1. ProviderOK' /\ ~provider.deleting
  BY ProviderChange DEF ImportInvariant, ProviderOK, DeleteProvider
<1>2. PassOK'
  BY <1>1 DEF ImportInvariant, DeleteProvider, PassOK, PassTypes, CleansUpDeleted, MissesOnlyAdded,
              FreesOnlyLeavers, pass, bounds
<1> QED
  BY <1>1, <1>2, ImportFrames, SameNodes, AllStayKeeps DEF ImportInvariant, DeleteProvider, bounds

\* Members come by an operation that adds a node, or on their own, and go at will.
LEMMA OthersKeep ==
    ASSUME ImportInvariant, NEW n \in Machines, Register(n) \/ AddMachine(n) \/ JoinSucceeds(n) \/ Leave(n) \/ JoinOutside(n)
    PROVE  Keeps
<1>1. CASE Register(n)
  <2>1. node' = [node EXCEPT ![n] = Registered]
    BY <1>1 DEF Register
  <2>2. NodeOK' /\ AllStay
    BY <2>1, OneNode, MachineChange DEF ImportInvariant
  <2> QED
    BY <1>1, <2>2, NodeStepKeeps DEF Register
<1>2. CASE AddMachine(n)
  <2>1. NodeOK' /\ AllStay
    <3> DEFINE x == [node[n] EXCEPT !.origin = TRUE]
    <3>1. x \in Machine /\ x.registered = node[n].registered
      BY MachineChange DEF ImportInvariant, NodeOK
    <3>2. node' = [node EXCEPT ![n] = x]
      BY <1>2 DEF AddMachine
    <3> HIDE DEF x
    <3> QED
      BY <3>1, <3>2, OneNode DEF ImportInvariant
  <2>2. ImportedOK'
    <3> DEFINE x == [imported EXCEPT !.nodes = @ \cup {n}]
    <3>1. /\ imported \in ImportedObject /\ imported.nodes \cup {n} \in SUBSET Machines
          /\ imported.pending \cup {n} \in SUBSET Machines
          /\ imported.pending \subseteq given.adding /\ n \in given.adding /\ given' = given
      BY <1>2, ImportedChange DEF ImportInvariant, ImportedOK, AddMachine, bounds
    <3>2. x \in ImportedObject /\ x.pending = imported.pending
      BY <3>1, ImportedChange
    <3>3. imported' = [x EXCEPT !.pending = @ \cup {n}]
      BY <1>2 DEF AddMachine
    <3> HIDE DEF x
    <3>4. imported' = [x EXCEPT !.pending = imported.pending \cup {n}]
      BY <3>2, <3>3
    <3>5. imported' \in ImportedObject /\ imported'.pending = imported.pending \cup {n}
      BY <3>1, <3>2, <3>4, ImportedChange
    <3> QED
      BY <3>1, <3>5 DEF ImportedOK
  <2> QED
    BY <1>2, <2>1, <2>2, ImportFrames, AllStayKeeps DEF ImportInvariant, AddMachine, bounds
<1>3. CASE JoinSucceeds(n)
  <2>1. /\ members' = members \cup {n} /\ joining' = joining \ {n} /\ n \in given.adding
        /\ UNCHANGED <<node, provider, pass, bounds>> /\ given' = given /\ came' = came
    BY <1>3 DEF ImportInvariant, MembersOK, JoinSucceeds, bounds
  <2>2. MembersOK'
    BY <2>1 DEF ImportInvariant, MembersOK
  <2>3. ImportedOK'
    <3>1. imported \in ImportedObject /\ imported.pending \ {n} \in SUBSET Machines
      BY ImportedChange DEF ImportInvariant, ImportedOK
    <3>2. imported' = [imported EXCEPT !.pending = imported.pending \ {n}]
      BY <1>3 DEF JoinSucceeds
    <3>3. imported' \in ImportedObject /\ imported'.pending = imported.pending \ {n}
      BY <3>1, <3>2, ImportedChange
    <3> QED
      BY <2>1, <3>3 DEF ImportInvariant, ImportedOK
  <2>4. PassOK'
    BY <2>1 DEF ImportInvariant, PassOK, PassTypes, CleansUpDeleted, MissesOnlyAdded,
                FreesOnlyLeavers, pass
  <2> QED
    BY <2>1, <2>2, <2>3, <2>4, ImportFrames, SameNodes, AllStayKeeps DEF ImportInvariant
<1>4. CASE Leave(n)
  <2>1. members' = members \ {n} /\ UNCHANGED <<node, imported, provider, joining, pass, bounds, came, given>>
    BY <1>4 DEF Leave, objects, bounds
  <2>2. MembersOK'
    BY <2>1 DEF ImportInvariant, MembersOK
  <2>3. PassOK'
    BY <2>1 DEF ImportInvariant, PassOK, PassTypes, CleansUpDeleted, MissesOnlyAdded,
                FreesOnlyLeavers, pass
  <2> QED
    BY <2>1, <2>2, <2>3, ImportFrames, SameNodes, AllStayKeeps DEF ImportInvariant
<1>5. CASE JoinOutside(n)
  <2>1. /\ members' = members \cup {n} /\ came' = came \cup {n}
        /\ UNCHANGED <<node, imported, provider, joining, pass, failures, given>>
    BY <1>5 DEF JoinOutside, objects
  <2>2. MembersOK' /\ ScenarioOK'
    BY <2>1 DEF ImportInvariant, MembersOK, ScenarioOK
  <2>3. PassOK'
    BY <2>1 DEF ImportInvariant, PassOK, PassTypes, CleansUpDeleted, MissesOnlyAdded,
                FreesOnlyLeavers, pass
  <2> QED
    BY <2>1, <2>2, <2>3, ImportFrames, SameNodes, AllStayKeeps DEF ImportInvariant
<1> QED
  BY <1>1, <1>2, <1>3, <1>4, <1>5

LEMMA ImportStart == ImportInit => ImportInvariant
<1> SUFFICES ASSUME ImportInit PROVE ImportInvariant
  OBVIOUS
<1>1. /\ given \in Scenarios /\ given.members \in SUBSET Machines /\ given.failures \in Nat
      /\ given.imported \in BOOLEAN
  BY ImportAssumption DEF ImportInit
<1>2. ScenarioOK /\ MembersOK
  <2>1. members = given.members /\ joining = {} /\ failures = 0 /\ came = {}
    BY DEF ImportInit
  <2> QED
    BY <1>1, <2>1 DEF ScenarioOK, MembersOK
<1>3. NodeOK
  <2>1. node = [n \in Machines |-> IF given.imported /\ n \in given.members THEN Member
                                  ELSE IF n \in given.adding THEN Registered ELSE Unregistered]
    BY DEF ImportInit
  <2> QED
    BY <2>1, MachineChange DEF NodeOK
<1>4. ImportedOK
  <2> DEFINE x == [NotImported EXCEPT !.exists = TRUE]
             y == [x EXCEPT !.finalizer = TRUE]
             z == [y EXCEPT !.nodes = given.members]
  <2>1. x \in ImportedObject /\ x.pending = {}
    BY ImportedChange
  <2>2. y \in ImportedObject /\ y.pending = {}
    <3> HIDE DEF x
    <3> QED
      BY <2>1, ImportedChange
  <2>3. z \in ImportedObject /\ z.pending = {}
    <3> HIDE DEF y
    <3> QED
      BY <1>1, <2>2, ImportedChange
  <2>4. imported = z \/ imported = NotImported
    BY DEF ImportInit
  <2> HIDE DEF z
  <2> QED
    BY <2>3, <2>4, ImportedChange DEF ImportedOK
<1>5. ProviderOK
  <2> DEFINE r == IF given.imported THEN "SyncSucceed" ELSE "none"
             x == [NoProvider EXCEPT !.exists = TRUE]
             y == [x EXCEPT !.finalizer = given.imported]
  <2>1. x \in ProviderObject /\ r \in Reasons
    BY ProviderChange DEF Reasons
  <2>2. y \in ProviderObject
    <3> HIDE DEF x
    <3> QED
      BY <1>1, <2>1, ProviderChange
  <2>3. provider = [y EXCEPT !.ready = r]
    BY DEF ImportInit
  <2> HIDE DEF y, r
  <2> QED
    BY <2>1, <2>2, <2>3, ProviderChange DEF ProviderOK
<1>6. PassOK
  <2>1. at = "idle" /\ read = {} /\ visit = {}
    BY DEF ImportInit
  <2> QED
    BY <2>1 DEF PassOK, PassTypes, CleansUpDeleted, MissesOnlyAdded, FreesOnlyLeavers
<1> QED
  BY <1>2, <1>3, <1>4, <1>5, <1>6 DEF ImportInvariant

LEMMA ImportStep == ImportInvariant /\ [ImportNext]_importVars => Keeps
<1> SUFFICES ASSUME ImportInvariant, [ImportNext]_importVars PROVE Keeps
  OBVIOUS
<1>1. CASE UNCHANGED importVars \/ Gone
  <2>1. /\ UNCHANGED <<members, node, imported, provider, joining, at, read, visit, bounds>>
        /\ UNCHANGED <<failures, came, given>>
    BY <1>1 DEF Gone, importVars, bounds
  <2>2. UNCHANGED pass
    BY <2>1 DEF pass
  <2> QED
    BY <2>1, <2>2, ImportFrames, SameNodes, AllStayKeeps DEF ImportInvariant
<1>2. CASE ProviderStep
  BY <1>2, ReconcileKeeps, ClusterInfoKeeps, NodeDiffKeeps, ImportClusterKeeps, ReconcileDeletedKeeps,
     CleanupKeeps, DeleteImportedKeeps, RemoveProviderFinalizerKeeps, FreeNodeKeeps, DrainNodeKeeps
     DEF ProviderStep
<1> QED
  BY <1>1, <1>2, CallFailsKeeps, ControllerStepKeeps, DeleteProviderKeeps, OthersKeep DEF ImportNext

\* The agent of a member is never drained by a sync, unless users added the node or
\* it came back outside kubeclipper: though nodes come and go while the provider's
\* controller works from the members it read at the start of the pass, and calls
\* fail anywhere (syncNode, drainAgent).
THEOREM SyncDrainsOnlyLeavers == ImportSpec => DrainsOnlyLeavers
<1>1. ImportInvariant /\ [ImportNext]_importVars => ImportInvariant'
  BY ImportStep DEF Keeps
<1>2. ImportInvariant /\ [ImportNext]_importVars =>
        [\A n \in Machines : node[n].registered /\ ~node'[n].registered =>
           n \notin members \/ provider.deleting \/ n \in given.adding \cup came]_importVars
  BY ImportStep DEF Keeps
<1> QED
  BY ImportStart, <1>1, <1>2, PTL DEF ImportSpec, DrainsOnlyLeavers

\* Both parts keep their types, and a node has the name of a cluster in its labels
\* exactly if it has a role (updateNodeRoleLabel, syncNodeRole).
THEOREM NodesAreTyped == MCInit /\ [][MCNext]_<<part, vars, importVars>> => []TypesOK
<1>1. MCInit => Types /\ ImportInvariant
  BY TypesStart, ImportStart DEF MCInit
<1>2. Types /\ ImportInvariant /\ [MCNext]_<<part, vars, importVars>> => (Types /\ ImportInvariant)'
  <2>1. [MCNext]_<<part, vars, importVars>> => [Next]_vars /\ [ImportNext]_importVars
    BY DEF MCNext
  <2> QED
    BY <2>1, TypesStep, ImportStep DEF Keeps
<1>3. Types /\ ImportInvariant => TypesOK
  BY TypesAreTypeOK, ImportTypes DEF TypesOK
<1> QED
  BY <1>1, <1>2, <1>3, PTL

=============================================================================
