--------------------------- MODULE ImportedCluster ---------------------------
(***************************************************************************)
(* A cluster that was made with kubeadm and is imported through a cloud    *)
(* provider: the cloud provider controller                                 *)
(* (pkg/controller/cloudprovidercontroller), the kubeadm provider it calls *)
(* (pkg/clustermanage/kubeadm), and the parts of the cluster controller,   *)
(* the node controller and the API that write the same objects.            *)
(*                                                                         *)
(* The controller has one worker, and a pass always has a successor: the   *)
(* event of its own write, the retry of an error, or the four-hour         *)
(* interval.  Listers are taken as current, and the agents answer when     *)
(* their identity is asked for over ssh.                                   *)
(***************************************************************************)
EXTENDS Integers

CONSTANTS
    Machines,
    Scenarios       \* how it begins and what may happen:
                    \*   members   the nodes of the kubeadm cluster at first
                    \*   imported  whether the cluster has been imported already
                    \*   adding    nodes that users may add through the API
                    \*   leaving   members that may leave the kubeadm cluster
                    \*   outside   machines that may join it outside kubeclipper, each once
                    \*   failures  bound on calls to machines and clusters that fail

ASSUME ImportAssumption ==
    \A s \in Scenarios :
        /\ s.members \subseteq Machines /\ s.adding \subseteq Machines /\ s.leaving \subseteq Machines
        /\ s.outside \subseteq Machines
        /\ s.imported \in BOOLEAN /\ s.failures \in Nat

VARIABLES
    members,    \* the nodes of the kubeadm cluster
    node,       \* node[n]: n's object in kubeclipper
    imported,   \* the cluster's object
    provider,   \* the cloud provider's object
    joining,    \* nodes whose AddNodes operation runs
    at, read, visit,    \* the controller's pass: where, the members it read, the nodes it visits
    failures,
    came,       \* machines that have joined the kubeadm cluster outside kubeclipper
    given       \* the scenario of this behaviour

bounds == <<failures, came, given>>
objects == <<node, imported, provider>>
pass == <<at, read, visit>>
importVars == <<members, node, imported, provider, joining, at, read, visit, bounds>>

Registered == [registered |-> TRUE, label |-> FALSE, role |-> FALSE, origin |-> FALSE]
Unregistered == [Registered EXCEPT !.registered = FALSE]
Member == [Registered EXCEPT !.label = TRUE, !.role = TRUE]
NotImported == [exists |-> FALSE, deleting |-> FALSE, finalizer |-> FALSE, nodes |-> {}, pending |-> {}]
Reasons == {"none", "Created", "SyncFailed", "SyncSucceed", "Removing", "RemoveFailed"}
NoProvider == [exists |-> FALSE, deleting |-> FALSE, finalizer |-> FALSE, ready |-> "none"]

ImportInit ==
    /\ given \in Scenarios
    /\ members = given.members
    /\ node = [n \in Machines |->
                 IF given.imported /\ n \in given.members THEN Member
                 ELSE IF n \in given.adding THEN Registered ELSE Unregistered]
    /\ imported = IF given.imported THEN [NotImported EXCEPT !.exists = TRUE, !.finalizer = TRUE, !.nodes = given.members]
                 ELSE NotImported
    /\ provider = [NoProvider EXCEPT !.exists = TRUE, !.finalizer = given.imported,
                                     !.ready = IF given.imported THEN "SyncSucceed" ELSE "none"]
    /\ joining = {} /\ failures = 0 /\ came = {}
    /\ at = "idle" /\ read = {} /\ visit = {}

-----------------------------------------------------------------------------
(* A pass of the cloud provider controller.                                *)

Syncing == at \in {"info", "diff", "free"}

(* The status is written conditionally: not if the deletion was asked for  *)
(* during a sync.                                                          *)
Finish(reason) ==
    /\ provider' = IF Syncing /\ provider.deleting THEN provider ELSE [provider EXCEPT !.ready = reason]
    /\ at' = "idle" /\ read' = {} /\ visit' = {}

(* A call to the cluster, to a machine or to the store fails.              *)
CallFails ==
    /\ at # "idle" /\ failures < given.failures
    /\ failures' = failures + 1
    /\ Finish(IF Syncing THEN "SyncFailed" ELSE "RemoveFailed")
    /\ UNCHANGED <<members, node, imported, joining, came, given>>

(* The first pass records the conditions and the finalizer and returns.    *)
Reconcile ==
    /\ at = "idle" /\ provider.exists /\ ~provider.deleting
    /\ provider' = [provider EXCEPT !.finalizer = TRUE, !.ready = IF @ = "none" THEN "Created" ELSE @]
    /\ at' = IF provider.ready = "none" THEN "idle" ELSE "info"
    /\ UNCHANGED <<members, node, imported, joining, read, visit, bounds>>

(* Sync asks the kubeadm cluster for its nodes.                            *)
ClusterInfo ==
    /\ at = "info"
    /\ read' = members
    /\ at' = "diff"
    /\ UNCHANGED <<members, objects, joining, visit, bounds>>

(* listKCNode: the registered nodes that carry the cluster's label.        *)
ListKCNode == {n \in Machines : node[n].registered /\ node[n].label}

(* A bug of this kind: every node of the cluster is taken for a legacy one. *)
NodeDiff_All ==
    /\ at = "diff"
    /\ IF read \ ListKCNode # {} THEN Finish("SyncFailed")
       ELSE visit' = ListKCNode /\ at' = "free" /\ UNCHANGED <<provider, read>>
    /\ UNCHANGED <<members, node, imported, joining, bounds>>

(* NodeDiff and the first loop of syncNode: a member without the label     *)
(* counts as one that is not registered, and ends the sync.                *)
NodeDiff ==
    /\ at = "diff"
    /\ IF read \ ListKCNode # {} THEN Finish("SyncFailed")
       ELSE visit' = ListKCNode \ read /\ at' = "free" /\ UNCHANGED <<provider, read>>
    /\ UNCHANGED <<members, node, imported, joining, bounds>>

(* markToFree for a node of kubeclipper's own, drainAgent for another's.   *)
FreeNode(n) ==
    /\ at = "free" /\ n \in visit
    /\ node' = [node EXCEPT ![n] = IF @.origin THEN Registered ELSE Unregistered]
    /\ visit' = visit \ {n}
    /\ UNCHANGED <<members, imported, provider, joining, at, read, bounds>>

(* A bug of this kind: an existing cluster is left as it is.               *)
ImportClusterToKC_CreateOnly ==
    /\ at = "free" /\ visit = {}
    /\ imported' = IF imported.exists THEN imported ELSE [NotImported EXCEPT !.exists = TRUE, !.nodes = read]
    /\ Finish("SyncSucceed")
    /\ UNCHANGED <<members, node, joining, bounds>>

(* importClusterToKC: the object is made anew from what the cluster says.  *)
(* An update keeps none of its finalizers and pending operations.          *)
ImportClusterToKC ==
    /\ at = "free" /\ visit = {}
    /\ imported' = [NotImported EXCEPT !.exists = TRUE, !.nodes = read]
    /\ Finish("SyncSucceed")
    /\ UNCHANGED <<members, node, joining, bounds>>

(* A provider that is being deleted: the condition is recorded first.      *)
ReconcileDeleted ==
    /\ at = "idle" /\ provider.exists /\ provider.deleting
    /\ IF provider.ready \in {"Removing", "RemoveFailed"}
       THEN at' = "cleanup" /\ UNCHANGED <<provider, read, visit>>
       ELSE Finish("Removing")
    /\ UNCHANGED <<members, node, imported, joining, bounds>>

Cleanup ==
    /\ at = "cleanup"
    /\ IF imported.exists THEN at' = "drain" /\ visit' = ListKCNode
       ELSE at' = "finalize" /\ UNCHANGED visit
    /\ UNCHANGED <<members, objects, joining, read, bounds>>

DrainNode(n) ==
    /\ at = "drain" /\ n \in visit
    /\ node' = [node EXCEPT ![n] = IF @.origin THEN [@ EXCEPT !.role = FALSE] ELSE Unregistered]
    /\ visit' = visit \ {n}
    /\ UNCHANGED <<members, imported, provider, joining, at, read, bounds>>

(* Without a finalizer the object is gone at once; gone already, the call  *)
(* is an error.                                                            *)
DeleteImported ==
    /\ at = "drain" /\ visit = {}
    /\ IF imported.exists
       THEN /\ imported' = IF imported.finalizer THEN [imported EXCEPT !.deleting = TRUE] ELSE NotImported
            /\ at' = "finalize" /\ UNCHANGED <<provider, read, visit>>
       ELSE Finish("RemoveFailed") /\ UNCHANGED imported
    /\ UNCHANGED <<members, node, joining, bounds>>

RemoveProviderFinalizer ==
    /\ at = "finalize"
    /\ provider' = NoProvider
    /\ at' = "idle" /\ read' = {} /\ visit' = {}
    /\ UNCHANGED <<members, node, imported, joining, bounds>>

ProviderStep ==
    \/ Reconcile \/ ClusterInfo \/ NodeDiff \/ ImportClusterToKC
    \/ ReconcileDeleted \/ Cleanup \/ DeleteImported \/ RemoveProviderFinalizer
    \/ \E n \in Machines : FreeNode(n) \/ DrainNode(n)

-----------------------------------------------------------------------------
(* The cluster controller and the node controller, on current copies.      *)

AddFinalizer ==
    /\ imported.exists /\ ~imported.deleting /\ ~imported.finalizer
    /\ imported' = [imported EXCEPT !.finalizer = TRUE]
    /\ UNCHANGED <<members, node, provider, joining, pass, bounds>>

UpdateClusterNode(n) ==
    /\ imported.exists /\ ~imported.deleting /\ imported.finalizer
    /\ n \in imported.nodes /\ node[n].registered /\ ~node[n].role
    /\ node' = [node EXCEPT ![n].label = TRUE, ![n].role = TRUE]
    /\ UNCHANGED <<members, imported, provider, joining, pass, bounds>>

ProcessPendingOperation(n) ==
    /\ imported.exists /\ ~imported.deleting /\ n \in imported.pending \ joining
    /\ joining' = joining \cup {n}
    /\ UNCHANGED <<members, objects, pass, bounds>>

FinalizeImported ==
    /\ imported.deleting
    /\ node' = [n \in Machines |-> IF n \in imported.nodes /\ node[n].label /\ node[n].role
                                THEN [node[n] EXCEPT !.label = FALSE, !.role = FALSE] ELSE node[n]]
    /\ imported' = NotImported
    /\ UNCHANGED <<members, provider, joining, pass, bounds>>

(* The node controller: a label without its cluster is taken away.         *)
SyncImportedRole(n) ==
    /\ node[n].registered /\ node[n].label
    /\ \/ /\ imported.exists /\ n \in imported.nodes /\ ~node[n].role
          /\ node' = [node EXCEPT ![n].role = TRUE]
       \/ /\ ~(imported.exists /\ n \in imported.nodes)
          /\ node' = [node EXCEPT ![n].label = FALSE, ![n].role = FALSE]
    /\ UNCHANGED <<members, imported, provider, joining, pass, bounds>>

ControllerStep ==
    \/ AddFinalizer \/ FinalizeImported
    \/ \E n \in Machines : UpdateClusterNode(n) \/ ProcessPendingOperation(n) \/ SyncImportedRole(n)

-----------------------------------------------------------------------------
(* Users, operations and the kubeadm cluster.                              *)

(* kcctl join.                                                             *)
Register(n) ==
    /\ n \in members /\ ~node[n].registered /\ ~provider.deleting
    /\ node' = [node EXCEPT ![n] = Registered]
    /\ UNCHANGED <<members, imported, provider, joining, pass, bounds>>

(* AddOrRemoveNodes.                                                       *)
AddMachine(n) ==
    /\ n \in given.adding /\ n \notin members
    /\ imported.exists /\ ~imported.deleting /\ n \notin imported.nodes
    /\ node[n].registered
    /\ node' = [node EXCEPT ![n].origin = TRUE]
    /\ imported' = [imported EXCEPT !.nodes = @ \cup {n}, !.pending = @ \cup {n}]
    /\ UNCHANGED <<members, provider, joining, pass, bounds>>

JoinSucceeds(n) ==
    /\ n \in joining
    /\ members' = members \cup {n}
    /\ joining' = joining \ {n}
    /\ imported' = [imported EXCEPT !.pending = @ \ {n}]
    /\ UNCHANGED <<node, provider, pass, bounds>>

Leave(n) ==
    /\ n \in given.leaving \cap members
    /\ members' = members \ {n}
    /\ UNCHANGED <<objects, joining, pass, bounds>>

(* kubeadm join on the machine itself.                                     *)
JoinOutside(n) ==
    /\ n \in given.outside \ (members \cup came)
    /\ members' = members \cup {n}
    /\ came' = came \cup {n}
    /\ UNCHANGED <<objects, joining, pass, failures, given>>

DeleteProvider ==
    /\ provider.exists /\ ~provider.deleting
    /\ provider' = IF provider.finalizer THEN [provider EXCEPT !.deleting = TRUE] ELSE NoProvider
    /\ UNCHANGED <<members, node, imported, joining, pass, bounds>>

Gone == ~provider.exists /\ UNCHANGED importVars

ImportNext ==
    \/ ProviderStep \/ CallFails \/ ControllerStep \/ DeleteProvider \/ Gone
    \/ \E n \in Machines : Register(n) \/ AddMachine(n) \/ JoinSucceeds(n) \/ Leave(n) \/ JoinOutside(n)

ImportSpec == ImportInit /\ [][ImportNext]_importVars

(* The controllers work, an operation that runs ends, and nodes asked for  *)
(* are joined.                                                             *)
ImportFairness ==
    /\ WF_importVars(ProviderStep) /\ WF_importVars(AddFinalizer) /\ WF_importVars(FinalizeImported)
    /\ \A n \in Machines :
         /\ WF_importVars(UpdateClusterNode(n)) /\ WF_importVars(ProcessPendingOperation(n))
         /\ WF_importVars(SyncImportedRole(n))
         /\ WF_importVars(JoinSucceeds(n)) /\ WF_importVars(Register(n))

ImportFairSpec == ImportSpec /\ ImportFairness

-----------------------------------------------------------------------------
(* Every variable has its type.                                            *)
ImportTypeOK ==
    /\ members \subseteq Machines /\ joining \subseteq Machines
    /\ node \in [Machines -> [registered : BOOLEAN, label : BOOLEAN, role : BOOLEAN, origin : BOOLEAN]]
    /\ imported \in [exists : BOOLEAN, deleting : BOOLEAN, finalizer : BOOLEAN,
                    nodes : SUBSET Machines, pending : SUBSET Machines]
    /\ provider \in [exists : BOOLEAN, deleting : BOOLEAN, finalizer : BOOLEAN, ready : Reasons]
    /\ at \in {"idle", "info", "diff", "free", "cleanup", "drain", "finalize"}
    /\ read \subseteq Machines /\ visit \subseteq Machines
    /\ failures \in 0 .. given.failures /\ came \subseteq Machines /\ given \in Scenarios

(* While the provider stays, the cluster's object ends up with the nodes   *)
(* of the kubeadm cluster, each of them labelled; once it is deleted,      *)
(* nothing is left of the cluster, through failed calls, nodes that leave, *)
(* and updates that drop the finalizer ("Sync keep cluster consistent in   *)
(* kc and kubeadm", Cleanup).  The first part needs an import that has     *)
(* happened, since the first one finds no labels, no node added beside the *)
(* syncs, since an import drops it again, and no member that joined        *)
(* outside, since nothing gives it the label that every sync asks for.     *)
(* The second does not: nodes that are being added lose the role in        *)
(* Cleanup, are passed over by the finalizer, and keep the label until the *)
(* node controller misses the cluster (finalizeCluster, syncNodeRole).     *)
KeepsConsistent ==
    <>[](IF provider.exists
         THEN \/ ~given.imported \/ given.adding # {} \/ came \cap members # {}
              \/ imported.exists /\ imported.nodes = members /\ ListKCNode = members
         ELSE ~imported.exists /\ ListKCNode = {})

(* An agent is removed only from a node that has left the kubeadm cluster, *)
(* unless the provider is being deleted, or the node is one that users     *)
(* add, which is labelled before it has joined, or one that came back      *)
(* outside kubeclipper, after the sync had read the members (syncNode,     *)
(* drainAgent).                                                            *)
DrainsOnlyLeavers ==
    [][\A n \in Machines : node[n].registered /\ ~node'[n].registered =>
         n \notin members \/ provider.deleting \/ n \in given.adding \cup came]_importVars
=============================================================================
