------------------------------ MODULE MCPlatform ------------------------------
(* The DNS records of the platform, and the health of one of its nodes. *)
EXTENDS DomainSync, NodeHealth

CONSTANTS d1, d2, c1, c2, w1, w2

\* A domain is changed, deleted and created again, and a cluster is deleted.
Life ==
    [names |-> [d \in Domains |-> {c1}], existing |-> {d1}, gone |-> {}, offline |-> {}, of |-> {d1},
     kinds |-> AllKinds, lists |-> SUBSET Clusters, requests |-> 2, failures |-> 1]

\* The records of two domains change in a cluster that both name.
Overtaking ==
    [names |-> [d \in Domains |-> {c1}], existing |-> Domains, gone |-> {c2}, offline |-> {},
     of |-> Domains, kinds |-> {"record"}, lists |-> {}, requests |-> 2, failures |-> 0]

\* Two domains come to a cluster that is being installed.
Installing ==
    [names |-> [d \in Domains |-> {}], existing |-> {}, gone |-> {c2}, offline |-> {c1},
     of |-> Domains, kinds |-> {"create"}, lists |-> {{c1}}, requests |-> 2, failures |-> 1]

AllScenarios == {Life, Overtaking, Installing}

VARIABLE part

\* The two parts have nothing in common, and one of them moves.
MCInit ==
    /\ part \in {"domains", "health"} /\ Init /\ HealthInit
    /\ part = "health" => scenario = CHOOSE s \in Scenarios : TRUE

MCNext ==
    \/ part = "domains" /\ Next /\ UNCHANGED <<part, healthVars>>
    \/ part = "health" /\ HealthNext /\ UNCHANGED <<part, vars>>

\* The fairness of each part, while it is the one that moves.
Moves(p) == part = p
DomainFairness ==
    /\ \A w \in Workers : WF_vars(Moves("domains") /\ WorkerStep(w))
    /\ \A d \in Domains : WF_vars(Moves("domains") /\ DeliverDomain(d))
    /\ \A d \in Domains : SF_vars(Moves("domains") /\ \E w \in Workers : Reconcile(w, d))
    /\ \A c \in Clusters : WF_vars(Moves("domains") /\ FindObjectsForCluster(c))
    /\ WF_vars(Moves("domains") /\ Resync)

HealthFairness ==
    /\ WF_healthVars(Moves("health") /\ RenewNodeLease)
    /\ WF_healthVars(Moves("health") /\ GetNode)
    /\ WF_healthVars(Moves("health") /\ UpdateNodeStatus)
    /\ SF_healthVars(Moves("health") /\ UpdateNodeStatus /\ agent.copy = "fresh")
    /\ WF_healthVars(Moves("health") /\ TryUpdateNodeHealth)
    /\ WF_healthVars(Moves("health") /\ DeliverNode)
    /\ WF_healthVars(Moves("health") /\ DeliverLease)
    /\ SF_healthVars(Moves("health") /\ Tick /\ (agent.up => agent'.report))

MCSpec ==
    MCInit /\ [][MCNext]_<<part, vars, healthVars>> /\ DomainFairness /\ HealthFairness

\* Every variable has its type, and a silent node is found out in time
\* (tryUpdateNodeHealth).
HealthInvariant == TypeOK /\ HealthTypeOK /\ SilenceIsDetected

\* A node whose agent stays up becomes Ready (updateNodeStatus against the monitor
\* and other writers).
Recovers == part = "health" /\ agent.up ~> cond = "True" \/ ~agent.up

=============================================================================
