------------------------------ MODULE DomainSync ------------------------------
(***************************************************************************)
(* DNS records of the platform, written into the coredns configmap of the  *)
(* clusters that a domain names: the DNS controller                        *)
(* (pkg/controller/dnscontroller) and the API on domains and records.      *)
(*                                                                         *)
(* The records of a domain are their version, and every change of them is  *)
(* one of their number; a Corefile holds, for every domain in it, the      *)
(* version that was rendered.  The controller's copies of domains lag      *)
(* behind the store and are changed in place; its copies of clusters are   *)
(* taken as current.                                                       *)
(***************************************************************************)
EXTENDS Integers, FiniteSets

CONSTANTS
    Domains, Clusters, Workers,
    Scenarios       \* what there is and what users do, see DomainAssumption

AllKinds == {"create", "cluster", "record", "delete", "deleteCluster"}

\* names: the clusters that a domain names, of the domains in existing, which are there
\* from the start; gone and offline: clusters that are not there, or have no client yet;
\* of, kinds and lists: the domains, requests and clusters to name that users are about;
\* requests: bound on their number; failures: bound on writes and calls that fail in transit.
ASSUME DomainAssumption ==
    \A s \in Scenarios :
        /\ s.names \in [Domains -> SUBSET Clusters]
        /\ s.existing \subseteq Domains /\ s.of \subseteq Domains
        /\ s.gone \subseteq Clusters /\ s.offline \subseteq Clusters
        /\ s.kinds \subseteq AllKinds /\ s.lists \subseteq SUBSET Clusters
        /\ s.requests \in Nat /\ s.failures \in Nat

VARIABLES
    domain,     \* domain[d]: the object in the store
    cached,     \* cached[d]: the controller's copy of it
    cluster,    \* cluster[c]: "ready", "deleting" or "gone"
    client,     \* the clusters that the server has a client for
    changed,    \* clusters with an event on its way to the controller
    queue,      \* domains to reconcile
    worker,     \* worker[w]: a pass and what it holds
    corefile,   \* corefile[c][d]: the version of d's records that c serves, 0 for none, see Installed
    ports,      \* the clusters whose kube-dns service has the ports that records need
    requests, failures,
    scenario    \* the scenario of this behaviour

objects == <<domain, cluster, client>>
served == <<corefile, ports>>
bounds == <<requests, failures, scenario>>
vars == <<objects, cached, changed, queue, worker, served, bounds>>

Absent == [exists |-> FALSE, rev |-> 0, sync |-> {}, records |-> 0, count |-> 0]
Idle == [pc |-> "idle"]

(* What a cluster should serve of a domain.                                *)
Desired(c) == [d \in Domains |-> IF c \in domain[d].sync THEN domain[d].records ELSE 0]

(* The Corefile that a cluster is installed with, which is none of the     *)
(* controller's.                                                           *)
Installed == [d \in Domains |-> -1]

Init ==
    /\ scenario \in Scenarios
    /\ domain = [d \in Domains |->
                    IF d \in scenario.existing
                    THEN [exists |-> TRUE, rev |-> 1, sync |-> scenario.names[d], records |-> 1, count |-> 1]
                    ELSE Absent]
    /\ cached = domain
    /\ cluster = [c \in Clusters |-> IF c \in scenario.gone THEN "gone" ELSE "ready"]
    /\ client = Clusters \ (scenario.gone \cup scenario.offline)
    /\ changed = {} /\ queue = {}
    /\ worker = [w \in Workers |-> Idle]
    /\ corefile = [c \in Clusters |-> IF c \in client /\ scenario.existing # {} THEN Desired(c) ELSE Installed]
    /\ ports = {c \in Clusters : corefile[c] # Installed}
    /\ requests = 0 /\ failures = 0

-----------------------------------------------------------------------------
(* The API on domains and records.                                         *)

Request(kind) ==
    /\ kind \in scenario.kinds /\ requests < scenario.requests
    /\ requests' = requests + 1
    /\ UNCHANGED <<client, cached, queue, worker, served, failures, scenario>>

Store(d, value) == domain' = [domain EXCEPT ![d] = [value EXCEPT !.rev = domain[d].rev + 1]]

(* checkSyncCluster: a cluster that is being deleted still exists.         *)
CheckSyncCluster(S) == \A c \in S : cluster[c] # "gone"

CreateDomain(d, S) ==
    /\ Request("create") /\ ~domain[d].exists /\ CheckSyncCluster(S)
    /\ Store(d, [Absent EXCEPT !.exists = TRUE, !.sync = S, !.records = domain[d].records + 1])
    /\ UNCHANGED <<cluster, changed>>

UpdateDomain(d, S) ==
    /\ Request("cluster") /\ domain[d].exists /\ CheckSyncCluster(S) /\ S # domain[d].sync
    /\ Store(d, [domain[d] EXCEPT !.sync = S])
    /\ UNCHANGED <<cluster, changed>>

(* CreateRecords, UpdateRecord and DeleteRecord.                           *)
UpdateRecord(d) ==
    /\ Request("record") /\ domain[d].exists
    /\ Store(d, [domain[d] EXCEPT !.records = @ + 1])
    /\ UNCHANGED <<cluster, changed>>

DeleteDomain(d) ==
    /\ Request("delete") /\ domain[d].exists
    /\ Store(d, [domain[d] EXCEPT !.exists = FALSE, !.sync = {}])
    /\ UNCHANGED <<cluster, changed>>

DeleteCluster(c) ==
    /\ Request("deleteCluster") /\ cluster[c] = "ready"
    /\ cluster' = [cluster EXCEPT ![c] = "deleting"]
    /\ changed' = changed \cup {c}
    /\ UNCHANGED domain

Api ==
    \/ \E d \in scenario.of, S \in scenario.lists : CreateDomain(d, S) \/ UpdateDomain(d, S)
    \/ \E d \in scenario.of : UpdateRecord(d) \/ DeleteDomain(d)
    \/ \E c \in Clusters : DeleteCluster(c)

(* The cluster controller is done with a deleted cluster, whose client     *)
(* goes,                                                                   *)
ClusterGone(c) ==
    /\ cluster[c] = "deleting"
    /\ cluster' = [cluster EXCEPT ![c] = "gone"]
    /\ client' = client \ {c}
    /\ changed' = changed \cup {c}
    /\ UNCHANGED <<domain, cached, queue, worker, served, bounds>>

(* or has a client for a new one, which is installed, at last.             *)
Connect(c) ==
    /\ cluster[c] = "ready" /\ c \notin client
    /\ client' = client \cup {c}
    /\ UNCHANGED <<domain, cluster, cached, changed, queue, worker, served, bounds>>

-----------------------------------------------------------------------------
(* Events.                                                                 *)

DeliverDomain(d) ==
    /\ cached[d].rev # domain[d].rev
    /\ cached' = [cached EXCEPT ![d] = domain[d]]
    /\ queue' = queue \cup {d}
    /\ UNCHANGED <<objects, changed, worker, served, bounds>>

(* findObjectsForCluster, on the event of a cluster that is deleted.       *)
FindObjectsForCluster(c) ==
    /\ c \in changed
    /\ changed' = changed \ {c}
    /\ queue' = queue \cup {d \in Domains : cached[d].exists /\ c \in cached[d].sync}
    /\ UNCHANGED <<objects, cached, worker, served, bounds>>

(* The informers deliver everything again every ten hours.                 *)
Resync ==
    /\ queue' = queue \cup {d \in Domains : cached[d].exists}
    /\ UNCHANGED <<objects, cached, changed, worker, served, bounds>>

-----------------------------------------------------------------------------
(* A pass of the controller.  A key is never with two workers at once.     *)

Return(w) == worker' = [worker EXCEPT ![w] = Idle]
Error(w) == Return(w) /\ queue' = queue \cup {worker[w].domain}

(* What a pass changes in its copy is changed in the controller's cache,   *)
(* unless a newer copy has come.                                           *)
InPlace(copy, d) == cached' = IF cached[d].rev = copy.rev THEN [cached EXCEPT ![d] = copy] ELSE cached

Reconcile(w, d) ==
    /\ worker[w] = Idle /\ d \in queue
    /\ \A v \in Workers : worker[v] # Idle => worker[v].domain # d
    /\ queue' = queue \ {d}
    /\ worker' = IF cached[d].exists THEN [worker EXCEPT ![w] = [pc |-> "count", domain |-> d, copy |-> cached[d]]]
                 ELSE worker
    /\ UNCHANGED <<objects, cached, changed, served, bounds>>

(* A write or a call fails in transit.                                     *)
CallFails == failures < scenario.failures /\ failures' = failures + 1

(* UpdateDomain as the controller calls it: conditional on the version     *)
(* that it read, and what the store returns is not kept.                   *)
Write(w, copy, next) ==
    LET d == worker[w].domain IN
    /\ InPlace(copy, d)
    /\ \/ /\ domain[d].exists /\ domain[d].rev = copy.rev
          /\ Store(d, copy)
          /\ worker' = [worker EXCEPT ![w].copy = copy, ![w].pc = next]
          /\ UNCHANGED <<queue, failures>>
       \/ /\ ~domain[d].exists \/ domain[d].rev # copy.rev
          /\ Error(w) /\ UNCHANGED <<domain, failures>>
       \/ CallFails /\ Error(w) /\ UNCHANGED domain

UpdateCount(w) ==
    /\ worker[w].pc = "count"
    /\ IF worker[w].copy.count # worker[w].copy.records
       THEN Write(w, [worker[w].copy EXCEPT !.count = worker[w].copy.records], "clusters")
       ELSE /\ worker' = [worker EXCEPT ![w].pc = "clusters"]
            /\ UNCHANGED <<domain, cached, queue, failures>>
    /\ UNCHANGED <<cluster, client, changed, served, requests, scenario>>

(* A cluster that is not found is an error before the test that would take *)
(* it out; one that is being deleted is taken out.                         *)
SyncDomainCluster(w) ==
    LET copy == worker[w].copy
        removed == {c \in copy.sync : cluster[c] = "deleting"}
    IN /\ worker[w].pc = "clusters"
       /\ IF \E c \in copy.sync : cluster[c] = "gone"
          THEN Error(w) /\ UNCHANGED <<domain, cached, failures>>
          ELSE IF removed = {}
          THEN /\ worker' = [worker EXCEPT ![w].pc = "list"]
               /\ UNCHANGED <<domain, cached, queue, failures>>
          ELSE Write(w, [copy EXCEPT !.sync = @ \ removed], "list")
       /\ UNCHANGED <<cluster, client, changed, served, requests, scenario>>

(* A bug of this kind: what the cluster has of other domains is kept.      *)
BuildDomain_Merges(c) == [d \in Domains |-> IF c \in cached[d].sync THEN cached[d].records ELSE corefile[c][d]]

(* buildDomain and renderCorefile, on the controller's copies.             *)
BuildDomain(c) == [d \in Domains |-> IF c \in cached[d].sync THEN cached[d].records ELSE 0]

(* syncConfigMap lists domains and clusters once,                          *)
ListDomains(w) ==
    /\ worker[w].pc = "list"
    /\ worker' = [worker EXCEPT ![w] = [pc |-> "next", domain |-> worker[w].domain,
                                        corefile |-> [c \in Clusters |-> BuildDomain(c)],
                                        todo |-> {c \in Clusters : cluster[c] # "gone"}]]
    /\ UNCHANGED <<objects, cached, changed, queue, served, bounds>>

(* and then goes through the clusters: the first one without a client, and *)
(* the first call that fails, ends the pass.  It reads the service and the *)
(* configmap, and goes on where the Corefile is as it should be.           *)
GetConfigMap(w, c) ==
    LET p == worker[w] IN
    /\ p.pc = "next" /\ c \in p.todo
    /\ \/ /\ c \in client
          /\ worker' = [worker EXCEPT ![w] =
                          IF corefile[c] = p.corefile[c] THEN [p EXCEPT !.todo = @ \ {c}]
                          ELSE [pc |-> "configmap", domain |-> p.domain, corefile |-> p.corefile,
                                todo |-> p.todo \ {c}, at |-> c, fresh |-> TRUE, ports |-> c \in ports]]
          /\ UNCHANGED <<queue, failures>>
       \/ c \notin client /\ Error(w) /\ UNCHANGED failures
       \/ CallFails /\ Error(w)
    /\ UNCHANGED <<objects, cached, changed, served, requests, scenario>>

NextCluster(p) == [pc |-> "next", domain |-> p.domain, corefile |-> p.corefile, todo |-> p.todo]

(* Whoever else has read the configmap of c will meet a conflict.          *)
Outdate(c, v) ==
    IF worker[v].pc = "configmap" /\ worker[v].at = c THEN [worker[v] EXCEPT !.fresh = FALSE] ELSE worker[v]

Put(p) == corefile' = [corefile EXCEPT ![p.at] = p.corefile[p.at]]

(* The configmap is written, if it has not been since; the answer may be   *)
(* lost.                                                                   *)
SyncConfigMap(w) ==
    LET p == worker[w]
        can == p.fresh /\ p.at \in client
    IN /\ p.pc = "configmap"
       /\ \/ /\ can /\ Put(p)
             /\ worker' = [v \in Workers |->
                             IF v # w THEN Outdate(p.at, v)
                             ELSE IF p.ports THEN NextCluster(p)
                             ELSE [p EXCEPT !.pc = "service"]]
             /\ UNCHANGED <<queue, failures>>
          \/ ~can /\ Error(w) /\ UNCHANGED <<corefile, failures>>
          \/ /\ CallFails
             /\ \/ UNCHANGED corefile /\ Error(w)
                \/ /\ can /\ Put(p)
                   /\ worker' = [v \in Workers |-> IF v = w THEN Idle ELSE Outdate(p.at, v)]
                   /\ queue' = queue \cup {p.domain}
       /\ UNCHANGED <<objects, cached, changed, ports, requests, scenario>>

(* The ports are added to a service that had not all of them when it was   *)
(* read.  A pass that is repeated finds the Corefile as it should be, and  *)
(* does not come here again.                                               *)
SyncService(w) ==
    LET p == worker[w]
        can == p.at \in client \ ports
    IN /\ p.pc = "service"
       /\ \/ /\ can /\ ports' = ports \cup {p.at}
             /\ worker' = [worker EXCEPT ![w] = NextCluster(p)]
             /\ UNCHANGED <<queue, failures>>
          \/ ~can /\ Error(w) /\ UNCHANGED <<ports, failures>>
          \/ CallFails /\ Error(w) /\ UNCHANGED ports
       /\ UNCHANGED <<objects, cached, changed, corefile, requests, scenario>>

EndPass(w) ==
    /\ worker[w].pc = "next" /\ worker[w].todo = {}
    /\ Return(w)
    /\ UNCHANGED <<objects, cached, changed, queue, served, bounds>>

WorkerStep(w) ==
    \/ \E d \in Domains : Reconcile(w, d)
    \/ UpdateCount(w) \/ SyncDomainCluster(w) \/ ListDomains(w) \/ EndPass(w)
    \/ \E c \in Clusters : GetConfigMap(w, c)
    \/ SyncConfigMap(w) \/ SyncService(w)

Next ==
    \/ Api \/ Resync
    \/ \E w \in Workers : WorkerStep(w)
    \/ \E d \in Domains : DeliverDomain(d)
    \/ \E c \in Clusters : FindObjectsForCluster(c) \/ ClusterGone(c) \/ Connect(c)

Spec == Init /\ [][Next]_vars

(* Events arrive, the workers work, every key of the queue, which is first *)
(* in first out, has its turn, and the ten-hour resync comes again and     *)
(* again.                                                                  *)
FairSpec ==
    /\ Spec
    /\ \A w \in Workers : WF_vars(WorkerStep(w))
    /\ \A d \in Domains : WF_vars(DeliverDomain(d)) /\ SF_vars(\E w \in Workers : Reconcile(w, d))
    /\ \A c \in Clusters : WF_vars(FindObjectsForCluster(c))
    /\ WF_vars(Resync)

-----------------------------------------------------------------------------
(* Every variable has its type; a pass holds its copy or what it renders.  *)
Copies == [exists : BOOLEAN, rev : Nat, sync : SUBSET Clusters, records : Nat, count : Nat]
Corefiles == [Clusters -> [Domains -> Int]]
Reading == [pc : {"count", "clusters", "list"}, domain : Domains, copy : Copies]
Going == [pc : {"next"}, domain : Domains, corefile : Corefiles, todo : SUBSET Clusters]
Writing == [pc : {"configmap", "service"}, domain : Domains, corefile : Corefiles, todo : SUBSET Clusters,
            at : Clusters, fresh : BOOLEAN, ports : BOOLEAN]
Passes == {Idle} \cup Reading \cup Going \cup Writing
TypeOK ==
    /\ domain \in [Domains -> Copies] /\ cached \in [Domains -> Copies]
    /\ cluster \in [Clusters -> {"ready", "deleting", "gone"}]
    /\ client \subseteq Clusters /\ changed \subseteq Clusters /\ queue \subseteq Domains
    /\ corefile \in Corefiles /\ ports \subseteq Clusters
    /\ worker \in [Workers -> Passes]
    /\ requests \in Nat /\ failures \in Nat /\ scenario \in Scenarios

(* What a deletion leaves is not taken care of: Reconcile does nothing for *)
(* a domain that is gone, and fails for ever for one that names a cluster  *)
(* that is gone.                                                           *)
Remains ==
    \E d \in Domains :
        \/ domain[d].rev > 0 /\ ~domain[d].exists
        \/ \E c \in domain[d].sync : cluster[c] = "gone"

(* A cluster that is being installed, or whose installation has failed,    *)
(* keeps every pass from the clusters behind it in the list.               *)
Unconnected == \E c \in Clusters : cluster[c] # "gone" /\ c \notin client

Serves(c) == [d \in Domains |-> IF corefile[c][d] > 0 THEN corefile[c][d] ELSE 0]

(* When users are done, every cluster comes to serve exactly the records   *)
(* of the domains that name it, whatever failed or was overtaken by the    *)
(* pass of another domain (Reconcile, syncConfigMap).                      *)
CorefilesSettle ==
    <>[](\/ Remains \/ Unconnected
         \/ \A c \in Clusters : cluster[c] = "ready" => Serves(c) = Desired(c))

(* A cluster that has a Corefile of the controller's comes to have the     *)
(* ports for it (syncConfigMap, addonPorts).  A call that fails is not     *)
(* repeated, since the Corefile is there already.                          *)
PortsSettle ==
    <>[](failures > 0 \/ \A c \in Clusters : cluster[c] = "ready" /\ corefile[c] # Installed => c \in ports)

(* The count of a domain comes to be that of its records, though the       *)
(* write is lost to any newer one (Reconcile).  A write that fails in      *)
(* transit is not repeated, since the copy has been changed already.       *)
CountSettles ==
    <>[](failures > 0 \/ \A d \in Domains : domain[d].exists => domain[d].count = domain[d].records)

(* When users are done, domains, Corefiles and services settle.            *)
DomainsSettle == CountSettles /\ CorefilesSettle /\ PortsSettle
=============================================================================
