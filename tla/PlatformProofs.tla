--------------------------- MODULE PlatformProofs ---------------------------
(***************************************************************************)
(* Proofs about the health of a node, for every grace period and every lag *)
(* of the informers that is shorter, beside the DNS records of the         *)
(* platform, for all domains, clusters, workers and scenarios.             *)
(***************************************************************************)
EXTENDS MCPlatform, TLAPS

-----------------------------------------------------------------------------
(***************************************************************************)
(* The health of a node.                                                   *)
(***************************************************************************)
\* What the steps of a clock do.
LEMMA LaterClock ==
    ASSUME NEW t \in Nat, NEW bound \in Nat, t <= bound
    PROVE  Later(t, bound) = IF t < bound THEN t + 1 ELSE bound
<1> DEFINE S == {t + 1, bound}
<1>1. Min(S) \in S /\ \A y \in S : Min(S) <= y
  <2>1. \E x \in S : \A y \in S : x <= y
    BY SMT
  <2> QED BY <2>1, Zenon DEF Min
<1> QED BY <1>1 DEF Later

\* Until the pass of the monitor there is one more tick to come.
Pass == IF monitored THEN 0 ELSE 1

\* How long ago the last write can be, by what is still on its way to the monitor:
\* the lease, the report, a renewal that the monitor has yet to take up, and what
\* its clock has counted since.
Waiting(n) == silent <= n + Pass

SilenceInvariant ==
    /\ leaseStored => silent <= leaseLate
    /\ leaseSeen => Waiting(Lag)
    /\ beatStored => ~nodeSynced /\ silent <= nodeLate
    /\ beatSeen => Waiting(Lag)
    /\ ~nodeSynced => cond = "Unknown" \/ silent <= nodeLate
    /\ nodeSynced => condSeen = cond
    /\ ~health.known => Waiting(0) /\ ~health.lease /\ health.probe = 0
    /\ silent <= age \/ age = Grace + 1
    /\ cond # "Unknown" =>
         /\ health.known /\ ~health.ready /\ condSeen # "none" => Waiting(Lag)
         /\ health.known /\ ~health.lease /\ leaseKnown => Waiting(Lag + 1)
         /\ health.known => silent <= health.probe + Lag + 2 \/ health.probe = Grace + 1
         /\ Waiting(Grace + Lag + 2)

\* How long the monitor can have gone without a renewal, while the agent is up.
Pending == leaseKnown /\ (~health.lease \/ leaseSeen)

LeaseInvariant ==
    /\ ~leaseStored => leaseLate = 0
    /\ ~agent.up => upFor = 0
    /\ ~leaseKnown => upFor <= leaseLate
    /\ agent.up /\ ~agent.renew /\ ~leaseStored => leaseKnown
    /\ ~Pending /\ upFor > leaseLate => health.probe <= leaseLate + 1
    /\ ~Pending /\ agent.up /\ ~agent.renew /\ ~leaseStored => health.probe = 0

HInv == HealthTypeOK /\ SilenceInvariant /\ LeaseInvariant

\* A clock at zero is in its range.
LEMMA ZeroInRange == 0 \in 0..Bound + 1 /\ 0 \in 0..Lag + 1 /\ 0 \in 0..Grace + 1 /\ 0 \in 0..Lag /\ Bound \in Nat
BY HealthAssumption DEF Bound

\* The type of the state, in two parts.
HealthBooleans ==
    /\ nodeSynced \in BOOLEAN /\ beatStored \in BOOLEAN /\ beatSeen \in BOOLEAN
    /\ leaseStored \in BOOLEAN /\ leaseSeen \in BOOLEAN /\ leaseKnown \in BOOLEAN /\ monitored \in BOOLEAN

HealthValues ==
    /\ cond \in {"none", "True", "Unknown"} /\ condSeen \in {"none", "True", "Unknown"}
    /\ nodeLate \in 0..Lag /\ leaseLate \in 0..Lag
    /\ health \in [known : BOOLEAN, ready : BOOLEAN, lease : BOOLEAN, probe : 0..Grace + 1]
    /\ agent \in [up : BOOLEAN, copy : {"none", "fresh", "stale"}, report : BOOLEAN, renew : BOOLEAN]
    /\ age \in 0..Grace + 1 /\ upFor \in 0..Lag + 1 /\ silent \in 0..Bound + 1

\* Together they are the type.
LEMMA HealthTypeParts == HealthTypeOK <=> HealthBooleans /\ HealthValues
BY Zenon DEF HealthTypeOK, HealthBooleans, HealthValues

\* And in the next state.
LEMMA HealthTypePartsNext == HealthTypeOK' <=> HealthBooleans' /\ HealthValues'
BY Zenon DEF HealthTypeOK, HealthBooleans, HealthValues

\* The initial state satisfies the invariant.
LEMMA HealthStarts == HealthInit => HInv
<1> SUFFICES ASSUME HealthInit PROVE HInv
  OBVIOUS
<1> USE HealthAssumption DEF HealthInit, Unseen
<1>1. HealthTypeOK
  <2>1. HealthBooleans
    BY Zenon DEF HealthBooleans
  <2>2. HealthValues
    BY ZeroInRange DEF HealthValues
  <2> QED BY <2>1, <2>2, HealthTypeParts
<1>2. SilenceInvariant
  BY DEF SilenceInvariant, Waiting, Pass
<1>3. LeaseInvariant
  BY DEF LeaseInvariant, Pending
<1> QED BY <1>1, <1>2, <1>3 DEF HInv

\* RenewNodeLease.
LEMMA RenewNodeLeaseKeeps == HInv /\ RenewNodeLease => HInv'
<1> SUFFICES ASSUME HInv, RenewNodeLease PROVE HInv'
  OBVIOUS
<1> USE HealthAssumption DEF HInv, RenewNodeLease, store, informer, clocks
<1>1. HealthTypeOK'
  <2>1. HealthBooleans'
    BY HealthTypeParts, Zenon DEF HealthBooleans
  <2>2. HealthValues'
    BY HealthTypeParts, ZeroInRange DEF HealthValues
  <2> QED BY <2>1, <2>2, HealthTypePartsNext
<1>2. SilenceInvariant'
  BY DEF HealthTypeOK, SilenceInvariant, Waiting, Pass
<1>3. LeaseInvariant'
  BY DEF HealthTypeOK, LeaseInvariant, Pending
<1> QED BY <1>1, <1>2, <1>3

\* GetNode.
LEMMA GetNodeKeeps == HInv /\ GetNode => HInv'
<1> SUFFICES ASSUME HInv, GetNode PROVE HInv'
  OBVIOUS
<1> USE HealthAssumption DEF HInv, GetNode, store, informer, clocks
<1>1. HealthTypeOK'
  <2>1. HealthBooleans'
    BY HealthTypeParts, Zenon DEF HealthBooleans
  <2>2. HealthValues'
    BY HealthTypeParts, ZeroInRange DEF HealthValues
  <2> QED BY <2>1, <2>2, HealthTypePartsNext
<1>2. SilenceInvariant'
  BY DEF HealthTypeOK, SilenceInvariant, Waiting, Pass
<1>3. LeaseInvariant'
  BY DEF HealthTypeOK, LeaseInvariant, Pending
<1> QED BY <1>1, <1>2, <1>3

\* UpdateNodeStatus.
LEMMA UpdateNodeStatusKeeps == HInv /\ UpdateNodeStatus => HInv'
<1> SUFFICES ASSUME HInv, UpdateNodeStatus PROVE HInv'
  OBVIOUS
<1> USE HealthAssumption DEF HInv, UpdateNodeStatus, store, informer, clocks
<1>1. HealthTypeOK'
  <2>1. HealthBooleans'
    BY HealthTypeParts, Zenon DEF HealthBooleans
  <2>2. HealthValues'
    BY HealthTypeParts, ZeroInRange DEF HealthValues
  <2> QED BY <2>1, <2>2, HealthTypePartsNext
<1>2. SilenceInvariant'
  BY DEF HealthTypeOK, SilenceInvariant, Waiting, Pass
<1>3. LeaseInvariant'
  BY DEF HealthTypeOK, LeaseInvariant, Pending
<1> QED BY <1>1, <1>2, <1>3

\* AgentDown.
LEMMA AgentDownKeeps == HInv /\ AgentDown => HInv'
<1> SUFFICES ASSUME HInv, AgentDown PROVE HInv'
  OBVIOUS
<1> USE HealthAssumption DEF HInv, AgentDown, store, informer, clocks
<1>1. HealthTypeOK'
  <2>1. HealthBooleans'
    BY HealthTypeParts, Zenon DEF HealthBooleans
  <2>2. HealthValues'
    BY HealthTypeParts, ZeroInRange DEF HealthValues
  <2> QED BY <2>1, <2>2, HealthTypePartsNext
<1>2. SilenceInvariant'
  BY DEF HealthTypeOK, SilenceInvariant, Waiting, Pass
<1>3. LeaseInvariant'
  BY DEF HealthTypeOK, LeaseInvariant, Pending
<1> QED BY <1>1, <1>2, <1>3

\* AgentUp.
LEMMA AgentUpKeeps == HInv /\ AgentUp => HInv'
<1> SUFFICES ASSUME HInv, AgentUp PROVE HInv'
  OBVIOUS
<1> USE HealthAssumption DEF HInv, AgentUp, store, informer, clocks
<1>1. HealthTypeOK'
  <2>1. HealthBooleans'
    BY HealthTypeParts, Zenon DEF HealthBooleans
  <2>2. HealthValues'
    BY HealthTypeParts, ZeroInRange DEF HealthValues
  <2> QED BY <2>1, <2>2, HealthTypePartsNext
<1>2. SilenceInvariant'
  BY DEF HealthTypeOK, SilenceInvariant, Waiting, Pass
<1>3. LeaseInvariant'
  BY DEF HealthTypeOK, LeaseInvariant, Pending
<1> QED BY <1>1, <1>2, <1>3

\* Fields of a record that are replaced.
LEMMA UpdateFields ==
    ASSUME NEW P, NEW o \in [known : BOOLEAN, ready : BOOLEAN, lease : BOOLEAN, probe : P],
           NEW x \in BOOLEAN, NEW y \in BOOLEAN, NEW h,
           \/ h = [o EXCEPT !.ready = x, !.lease = y]
           \/ h = [o EXCEPT !.ready = x] /\ y = o.lease
    PROVE  /\ h \in [known : BOOLEAN, ready : BOOLEAN, lease : BOOLEAN, probe : P]
           /\ h.known = o.known /\ h.ready = x /\ h.lease = y /\ h.probe = o.probe
OBVIOUS

\* What the monitor finds out, and what it remembers.
LEMMA Remembered ==
    ASSUME HInv, TryUpdateNodeHealth
    PROVE  /\ Probe \in 0..Grace + 1
           /\ health' \in [known : BOOLEAN, ready : BOOLEAN, lease : BOOLEAN, probe : 0..Grace + 1]
           /\ health'.known /\ health'.probe = Probe
           /\ condSeen # "none" => health'.ready
           /\ ~health'.lease => ~LeaseRenewed /\ (leaseKnown /\ health.lease => Renewed)
<1> USE DEF HInv
<1>1. Probe \in 0..Grace + 1
  BY ZeroInRange DEF HealthTypeOK, Probe
<1> DEFINE ready == condSeen # "none"
           lease == LeaseRenewed \/ (health.lease /\ ~Renewed)
           late == ready \/ Alarm
           all == [known : BOOLEAN, ready : BOOLEAN, lease : BOOLEAN, probe : 0..Grace + 1]
<1>2. ready \in BOOLEAN /\ lease \in BOOLEAN /\ late \in BOOLEAN /\ leaseKnown \in BOOLEAN
  BY Zenon DEF HealthTypeOK
<1>3. Observed \in all /\ Observed.known /\ Observed.ready = ready /\ Observed.lease = lease /\ Observed.probe = Probe
  <2> HIDE DEF ready, lease
  <2>1. Observed = [known |-> TRUE, ready |-> ready, lease |-> lease, probe |-> Probe]
    BY Zenon DEF Observed, ready, lease
  <2> QED BY <2>1, <1>1, <1>2
<1>4. /\ health' \in all
      /\ health'.known /\ health'.probe = Probe
      /\ \/ health'.ready /\ health'.lease = leaseKnown
         \/ health'.ready = late /\ health'.lease = lease
  <2> HIDE DEF all, ready, lease
  <2>1. CASE health' = [Observed EXCEPT !.ready = TRUE, !.lease = leaseKnown]
    <3>1. /\ health' \in all
          /\ health'.known = Observed.known /\ health'.ready = TRUE
          /\ health'.lease = leaseKnown /\ health'.probe = Observed.probe
      BY <2>1, <1>2, <1>3 DEF all
    <3>2. health'.ready
      BY <3>1, Zenon
    <3>3. health'.known
      BY <3>1, <1>3
    <3>4. health'.probe = Probe
      BY <3>1, <1>3
    <3> QED BY <3>1, <3>2, <3>3, <3>4, Zenon
  <2>2. CASE health' = [Observed EXCEPT !.ready = @ \/ Alarm]
    <3>1. (Observed.ready \/ Alarm) = late
      BY <1>3, Zenon
    <3> HIDE DEF late
    <3>2. health' = [Observed EXCEPT !.ready = late]
      BY <2>2, <3>1, Zenon
    <3> QED BY <3>2, <1>2, <1>3, UpdateFields DEF all
  <2> QED BY <2>1, <2>2 DEF TryUpdateNodeHealth
<1>5. ~lease => ~LeaseRenewed /\ (health.lease => Renewed)
  OBVIOUS
<1>6. condSeen # "none" => late
  OBVIOUS
<1>7. ~leaseKnown => ~LeaseRenewed
  BY DEF LeaseRenewed
<1> HIDE DEF ready, lease, late
<1> QED BY <1>1, <1>2, <1>4, <1>5, <1>6, <1>7

\* TryUpdateNodeHealth.
LEMMA TryUpdateNodeHealthKeeps == HInv /\ TryUpdateNodeHealth => HInv'
<1> SUFFICES ASSUME HInv, TryUpdateNodeHealth PROVE HInv'
  OBVIOUS
<1> USE HealthAssumption DEF HInv
<1>a. /\ Probe \in 0..Grace + 1
      /\ health' \in [known : BOOLEAN, ready : BOOLEAN, lease : BOOLEAN, probe : 0..Grace + 1]
      /\ health'.known /\ health'.probe = Probe
      /\ condSeen # "none" => health'.ready
      /\ ~health'.lease => ~LeaseRenewed /\ (leaseKnown /\ health.lease => Renewed)
  BY Remembered
<1>b. /\ monitored' /\ ~beatSeen' /\ ~leaseSeen'
      /\ UNCHANGED <<beatStored, leaseStored, condSeen, nodeLate, leaseKnown, leaseLate, age, upFor, silent>>
  BY DEF TryUpdateNodeHealth, clocks
<1>c. \/ Alarm /\ nodeSynced /\ cond' = "Unknown" /\ ~nodeSynced' /\ agent' = [agent EXCEPT !.copy = Outdated]
      \/ ~(Alarm /\ nodeSynced) /\ UNCHANGED <<cond, nodeSynced, agent>>
  BY DEF TryUpdateNodeHealth
<1>1. HealthTypeOK'
  <2>1. HealthBooleans'
    BY HealthTypeParts, Zenon DEF HealthBooleans, TryUpdateNodeHealth
  <2>2. HealthValues'
    BY <1>a, <1>b, <1>c, HealthTypeParts DEF HealthValues, Outdated
  <2> QED BY <2>1, <2>2, HealthTypePartsNext
<1>2. SilenceInvariant'
  BY <1>a, <1>b, <1>c DEF HealthTypeOK, SilenceInvariant, Waiting, Pass, Probe, Alarm, GracePeriod, LeaseRenewed, Renewed
<1>3. LeaseInvariant'
  BY <1>a, <1>b, <1>c DEF HealthTypeOK, SilenceInvariant, LeaseInvariant, Pending, Probe, LeaseRenewed, Renewed, Outdated
<1> QED BY <1>1, <1>2, <1>3

\* Failover.
LEMMA FailoverKeeps == HInv /\ Failover => HInv'
<1> SUFFICES ASSUME HInv, Failover PROVE HInv'
  OBVIOUS
<1> USE HealthAssumption DEF HInv, Failover, store, informer, clocks, Unseen
<1>1. HealthTypeOK'
  <2>1. HealthBooleans'
    BY HealthTypeParts, Zenon DEF HealthBooleans
  <2>2. HealthValues'
    BY HealthTypeParts, ZeroInRange DEF HealthValues
  <2> QED BY <2>1, <2>2, HealthTypePartsNext
<1>2. SilenceInvariant'
  BY DEF HealthTypeOK, SilenceInvariant, Waiting, Pass
<1>3. LeaseInvariant'
  BY DEF HealthTypeOK, LeaseInvariant, Pending
<1> QED BY <1>1, <1>2, <1>3

\* DeliverNode.
LEMMA DeliverNodeKeeps == HInv /\ DeliverNode => HInv'
<1> SUFFICES ASSUME HInv, DeliverNode PROVE HInv'
  OBVIOUS
<1> USE HealthAssumption DEF HInv, DeliverNode, store, informer, clocks
<1>1. HealthTypeOK'
  <2>1. HealthBooleans'
    BY HealthTypeParts, Zenon DEF HealthBooleans
  <2>2. HealthValues'
    BY HealthTypeParts, ZeroInRange DEF HealthValues
  <2> QED BY <2>1, <2>2, HealthTypePartsNext
<1>2. SilenceInvariant'
  BY DEF HealthTypeOK, SilenceInvariant, Waiting, Pass
<1>3. LeaseInvariant'
  BY DEF HealthTypeOK, LeaseInvariant, Pending
<1> QED BY <1>1, <1>2, <1>3

\* DeliverLease.
LEMMA DeliverLeaseKeeps == HInv /\ DeliverLease => HInv'
<1> SUFFICES ASSUME HInv, DeliverLease PROVE HInv'
  OBVIOUS
<1> USE HealthAssumption DEF HInv, DeliverLease, store, informer, clocks
<1>1. HealthTypeOK'
  <2>1. HealthBooleans'
    BY HealthTypeParts, Zenon DEF HealthBooleans
  <2>2. HealthValues'
    BY HealthTypeParts, ZeroInRange DEF HealthValues
  <2> QED BY <2>1, <2>2, HealthTypePartsNext
<1>2. SilenceInvariant'
  BY DEF HealthTypeOK, SilenceInvariant, Waiting, Pass
<1>3. LeaseInvariant'
  BY DEF HealthTypeOK, LeaseInvariant, Pending
<1> QED BY <1>1, <1>2, <1>3

\* OtherWrite.
LEMMA OtherWriteKeeps == HInv /\ OtherWrite => HInv'
<1> SUFFICES ASSUME HInv, OtherWrite PROVE HInv'
  OBVIOUS
<1> USE HealthAssumption DEF HInv, OtherWrite, store, informer, clocks, Outdated
<1>1. HealthTypeOK'
  <2>1. HealthBooleans'
    BY HealthTypeParts, Zenon DEF HealthBooleans
  <2>2. HealthValues'
    BY HealthTypeParts, ZeroInRange DEF HealthValues
  <2> QED BY <2>1, <2>2, HealthTypePartsNext
<1>2. SilenceInvariant'
  BY DEF HealthTypeOK, SilenceInvariant, Waiting, Pass
<1>3. LeaseInvariant'
  BY DEF HealthTypeOK, LeaseInvariant, Pending
<1> QED BY <1>1, <1>2, <1>3

\* Tick.
LEMMA TickKeeps == HInv /\ Tick => HInv'
<1> SUFFICES ASSUME HInv, Tick PROVE HInv'
  OBVIOUS
<1> USE HealthAssumption DEF HInv
<1>a. /\ monitored /\ ~agent.report /\ ~agent.renew /\ ~monitored'
      /\ nodeSynced \/ nodeLate < Lag
      /\ ~leaseStored \/ leaseLate < Lag
      /\ nodeLate' = IF nodeSynced THEN 0 ELSE nodeLate + 1
      /\ leaseLate' = IF leaseStored THEN leaseLate + 1 ELSE 0
      /\ UNCHANGED <<cond, beatStored, leaseStored, condSeen, nodeSynced, beatSeen, leaseSeen, leaseKnown>>
  BY DEF Tick, store
<1>b. /\ age' = IF age < Grace + 1 THEN age + 1 ELSE Grace + 1
      /\ silent' = IF silent < Bound + 1 THEN silent + 1 ELSE Bound + 1
      /\ upFor' = IF agent.up THEN (IF upFor < Lag + 1 THEN upFor + 1 ELSE Lag + 1) ELSE 0
  BY LaterClock, ZeroInRange DEF Tick, HealthTypeOK
<1>c. /\ health' \in [known : BOOLEAN, ready : BOOLEAN, lease : BOOLEAN, probe : 0..Grace + 1]
      /\ health'.known = health.known /\ health'.ready = health.ready /\ health'.lease = health.lease
      /\ health'.probe = IF health.known THEN (IF health.probe < Grace + 1 THEN health.probe + 1 ELSE Grace + 1) ELSE 0
  <2>1. health.known => Later(health.probe, Grace + 1) =
          IF health.probe < Grace + 1 THEN health.probe + 1 ELSE Grace + 1
    BY LaterClock, ZeroInRange DEF HealthTypeOK
  <2> QED BY <2>1 DEF Tick, HealthTypeOK
<1>d. /\ agent' \in [up : BOOLEAN, copy : {"none", "fresh", "stale"}, report : BOOLEAN, renew : BOOLEAN]
      /\ agent'.up = agent.up /\ agent'.renew = agent.up
  BY DEF Tick, HealthTypeOK
<1>1. HealthTypeOK'
  <2>1. HealthBooleans'
    BY HealthTypeParts, Zenon DEF HealthBooleans, Tick, store
  <2>2. HealthValues'
    BY <1>a, <1>b, <1>c, <1>d, HealthTypeParts, ZeroInRange DEF HealthValues
  <2> QED BY <2>1, <2>2, HealthTypePartsNext
<1>2. SilenceInvariant'
  BY <1>a, <1>b, <1>c DEF HealthTypeOK, SilenceInvariant, Waiting, Pass, Bound
<1>3. LeaseInvariant'
  BY <1>a, <1>b, <1>c, <1>d DEF HealthTypeOK, LeaseInvariant, Pending
<1> QED BY <1>1, <1>2, <1>3

\* Every step keeps the invariant.
LEMMA HealthStep == HInv /\ [HealthNext]_healthVars => HInv'
<1> SUFFICES ASSUME HInv, [HealthNext]_healthVars PROVE HInv'
  OBVIOUS
<1>1. CASE HealthNext
  BY <1>1, RenewNodeLeaseKeeps, GetNodeKeeps, UpdateNodeStatusKeeps, AgentDownKeeps, AgentUpKeeps,
     TryUpdateNodeHealthKeeps, FailoverKeeps, DeliverNodeKeeps, DeliverLeaseKeeps, OtherWriteKeeps, TickKeeps
     DEF HealthNext, AgentStep
<1>2. CASE UNCHANGED healthVars
  BY <1>2 DEF healthVars, store, informer, clocks, HInv, HealthTypeOK, SilenceInvariant, LeaseInvariant,
     Waiting, Pass, Pending
<1> QED BY <1>1, <1>2

\* What the invariant says about silence.
LEMMA SilenceBound == HInv => SilenceIsDetected
BY HealthAssumption DEF HInv, HealthTypeOK, SilenceInvariant, SilenceIsDetected, Waiting, Pass, Bound

\* A node is Unknown once its agent has been silent for the grace period and what
\* the informers and two passes add to it; every variable has its type
\* (tryUpdateNodeHealth).
THEOREM SilenceIsFound == HealthSpec => [](HealthTypeOK /\ SilenceIsDetected)
<1>1. HInv => HealthTypeOK /\ SilenceIsDetected
  BY SilenceBound DEF HInv
<1> QED BY <1>1, HealthStarts, HealthStep, PTL DEF HealthSpec

\* Only the monitor sets the condition to Unknown, and not for a node whose agent
\* has been up for longer than the informers' lag.
LEMMA AlarmIsTrue ==
    ASSUME HInv, [HealthNext]_healthVars, cond = "True", cond' = "Unknown"
    PROVE  upFor <= Lag
<1>1. TryUpdateNodeHealth
  BY DEF HealthNext, AgentStep, RenewNodeLease, GetNode, UpdateNodeStatus, AgentDown, AgentUp, Failover,
     DeliverNode, DeliverLease, OtherWrite, Tick, healthVars, store, informer, clocks
<1>2. Alarm /\ nodeSynced
  BY <1>1 DEF TryUpdateNodeHealth
<1>3. condSeen = "True"
  BY <1>2 DEF HInv, SilenceInvariant
<1>4. Probe > Grace
  BY <1>2, <1>3 DEF Alarm, GracePeriod
<1>5. ~Renewed /\ ~LeaseRenewed
  BY <1>4, HealthAssumption DEF Probe
<1>6. health.known /\ health.probe > Grace
  BY <1>3, <1>4, <1>5 DEF Probe, Renewed
<1> QED BY <1>5, <1>6, HealthAssumption DEF HInv, HealthTypeOK, LeaseInvariant, Pending, LeaseRenewed

\* A node whose agent renews its lease in time stays Ready, for any grace period
\* longer than the informers' lag: though reports fail, leaders change and others
\* write the node (tryUpdateNodeHealth).
THEOREM RenewedNodeStaysReady == HealthSpec => NoFalseAlarm
<1>1. HInv /\ [HealthNext]_healthVars => [cond = "True" /\ cond' = "Unknown" => upFor <= Lag]_healthVars
  BY AlarmIsTrue
<1> QED BY <1>1, HealthStarts, HealthStep, PTL DEF HealthSpec, NoFalseAlarm

-----------------------------------------------------------------------------
(***************************************************************************)
(* The DNS records.                                                        *)
(***************************************************************************)
\* The four kinds of a worker's state.
LEMMA PassKinds ==
    ASSUME NEW p \in Passes
    PROVE  /\ p.pc \in {"count", "clusters", "list"} => p \in Reading
           /\ p.pc = "next" => p \in Going
           /\ p.pc \in {"configmap", "service"} => p \in Writing
           /\ p # Idle => p.domain \in Domains
           /\ p.pc # "idle" => p # Idle
BY DEF Passes, Idle, Reading, Going, Writing

\* Back to the union.
LEMMA PassTypes == Idle \in Passes /\ Reading \subseteq Passes /\ Going \subseteq Passes /\ Writing \subseteq Passes
BY DEF Passes

\* At the start every domain is as the scenario has it, and served.
LEMMA DomainsStart == Init => TypeOK
<1> SUFFICES ASSUME Init PROVE TypeOK
  OBVIOUS
<1> USE DomainAssumption DEF Init
<1>1. Absent \in Copies
  BY DEF Absent, Copies
<1>2. ASSUME NEW d \in Domains
      PROVE  [exists |-> TRUE, rev |-> 1, sync |-> scenario.names[d], records |-> 1, count |-> 1] \in Copies
  BY DEF Copies
<1>3. domain \in [Domains -> Copies]
  BY <1>1, <1>2
<1>4. \A c \in Clusters : Desired(c) \in [Domains -> Int] /\ Installed \in [Domains -> Int]
  BY <1>3 DEF Desired, Installed, Copies
<1>5. corefile \in Corefiles
  BY <1>4 DEF Corefiles
<1>6. worker \in [Workers -> Passes]
  BY PassTypes
<1>7. cluster \in [Clusters -> {"ready", "deleting", "gone"}] /\ client \subseteq Clusters /\ ports \subseteq Clusters
  OBVIOUS
<1> QED BY <1>3, <1>5, <1>6, <1>7 DEF TypeOK

\* A request stores another version of a domain.
LEMMA StoreKeeps ==
    ASSUME TypeOK, NEW d \in Domains, NEW v \in Copies, Store(d, v)
    PROVE  domain' \in [Domains -> Copies]
<1>1. [v EXCEPT !.rev = domain[d].rev + 1] \in Copies
  BY DEF TypeOK, Copies
<1> QED BY <1>1 DEF Store, TypeOK

\* What a request may do.
LEMMA ApiKeeps == TypeOK /\ Api => TypeOK'
<1> SUFFICES ASSUME TypeOK, Api PROVE TypeOK'
  OBVIOUS
<1>a. domain \in [Domains -> Copies] /\ scenario.of \subseteq Domains /\ scenario.lists \subseteq SUBSET Clusters
  BY DomainAssumption DEF TypeOK
<1>b. ASSUME NEW kind, Request(kind),
             domain' \in [Domains -> Copies],
             cluster' \in [Clusters -> {"ready", "deleting", "gone"}], changed' \subseteq Clusters
      PROVE  TypeOK'
  BY <1>b DEF TypeOK, Request, served
<1>c. UNCHANGED <<cluster, changed>> =>
        cluster' \in [Clusters -> {"ready", "deleting", "gone"}] /\ changed' \subseteq Clusters
  BY DEF TypeOK
<1>1. ASSUME NEW d \in Domains, NEW S \in SUBSET Clusters, CreateDomain(d, S)
      PROVE  TypeOK'
  <2>1. [Absent EXCEPT !.exists = TRUE, !.sync = S, !.records = domain[d].records + 1] \in Copies
    <3>1. Absent \in Copies
      BY DEF Copies, Absent
    <3>2. domain[d].records + 1 \in Nat
      BY <1>a DEF Copies
    <3> QED BY <3>1, <3>2 DEF Copies
  <2>2. domain' \in [Domains -> Copies]
    BY <1>1, <2>1, StoreKeeps DEF CreateDomain
  <2> QED BY <1>1, <1>b, <1>c, <2>2 DEF CreateDomain
<1>2. ASSUME NEW d \in Domains, NEW S \in SUBSET Clusters, UpdateDomain(d, S)
      PROVE  TypeOK'
  <2>1. [domain[d] EXCEPT !.sync = S] \in Copies
    BY <1>a DEF Copies
  <2>2. domain' \in [Domains -> Copies]
    BY <1>2, <2>1, StoreKeeps DEF UpdateDomain
  <2> QED BY <1>2, <1>b, <1>c, <2>2 DEF UpdateDomain
<1>3. ASSUME NEW d \in Domains, UpdateRecord(d)
      PROVE  TypeOK'
  <2>1. [domain[d] EXCEPT !.records = @ + 1] \in Copies
    BY <1>a DEF Copies
  <2>2. domain' \in [Domains -> Copies]
    BY <1>3, <2>1, StoreKeeps DEF UpdateRecord
  <2> QED BY <1>3, <1>b, <1>c, <2>2 DEF UpdateRecord
<1>4. ASSUME NEW d \in Domains, DeleteDomain(d)
      PROVE  TypeOK'
  <2>1. [domain[d] EXCEPT !.exists = FALSE, !.sync = {}] \in Copies
    <3>1. domain[d] \in Copies /\ {} \in SUBSET Clusters
      BY <1>a
    <3> QED BY <3>1, ZenonT(30) DEF Copies
  <2>2. domain' \in [Domains -> Copies]
    BY <1>4, <2>1, StoreKeeps DEF DeleteDomain
  <2> QED BY <1>4, <1>b, <1>c, <2>2 DEF DeleteDomain
<1>5. ASSUME NEW c \in Clusters, DeleteCluster(c)
      PROVE  TypeOK'
  <2>1. domain' \in [Domains -> Copies] /\ cluster' \in [Clusters -> {"ready", "deleting", "gone"}]
        /\ changed' \subseteq Clusters
    BY <1>5 DEF DeleteCluster, TypeOK
  <2> QED BY <1>5, <1>b, <2>1 DEF DeleteCluster
<1> QED BY <1>1, <1>2, <1>3, <1>4, <1>5, <1>a DEF Api

\* A pass that ends leaves its key behind, if it failed.
LEMMA EndsKeep ==
    ASSUME TypeOK, NEW w \in Workers, worker[w].pc # "idle"
    PROVE  /\ Return(w) => worker' \in [Workers -> Passes]
           /\ Error(w) => worker' \in [Workers -> Passes] /\ queue' \subseteq Domains
           /\ CallFails => failures' \in Nat
<1>1. worker \in [Workers -> Passes] /\ worker[w] \in Passes
  BY DEF TypeOK
<1>2. worker[w].domain \in Domains
  BY <1>1, PassKinds
<1> QED BY <1>1, <1>2, PassTypes DEF Return, Error, CallFails, TypeOK

\* What a pass writes is a copy, in the store, in the cache and with the pass.
LEMMA WriteKeeps ==
    ASSUME TypeOK, NEW w \in Workers, worker[w] \in Reading, NEW copy \in Copies,
           NEW next \in {"clusters", "list"}, Write(w, copy, next)
    PROVE  /\ domain' \in [Domains -> Copies] /\ cached' \in [Domains -> Copies]
           /\ worker' \in [Workers -> Passes] /\ queue' \subseteq Domains /\ failures' \in Nat
<1> DEFINE d == worker[w].domain
<1>1. d \in Domains /\ worker[w].pc # "idle"
  BY DEF Reading
<1>2. cached' \in [Domains -> Copies]
  BY <1>1 DEF Write, InPlace, TypeOK
<1>3. CASE /\ Store(d, copy)
           /\ worker' = [worker EXCEPT ![w].copy = copy, ![w].pc = next]
           /\ UNCHANGED <<queue, failures>>
  <2>1. domain' \in [Domains -> Copies]
    BY <1>1, <1>3, StoreKeeps
  <2>2. [worker[w] EXCEPT !.copy = copy, !.pc = next] \in Reading
    BY DEF Reading
  <2>3. worker' = [worker EXCEPT ![w] = [worker[w] EXCEPT !.copy = copy, !.pc = next]]
    BY <1>3 DEF TypeOK
  <2>4. worker' \in [Workers -> Passes]
    BY <2>2, <2>3, PassTypes DEF TypeOK
  <2> QED BY <1>2, <1>3, <2>1, <2>4 DEF TypeOK
<1>4. CASE Error(w) /\ UNCHANGED domain /\ (CallFails \/ UNCHANGED failures)
  BY <1>1, <1>2, <1>4, EndsKeep DEF TypeOK
<1> QED BY <1>3, <1>4 DEF Write

\* A pass has its types: it reads a copy, renders, and goes from cluster to cluster.
LEMMA WorkerKeeps ==
    ASSUME TypeOK, NEW w \in Workers, WorkerStep(w)
    PROVE  TypeOK'
<1>a. worker \in [Workers -> Passes] /\ worker[w] \in Passes /\ cached \in [Domains -> Copies]
      /\ corefile \in Corefiles
  BY DEF TypeOK
<1>b. ASSUME domain' \in [Domains -> Copies], cached' \in [Domains -> Copies],
             worker' \in [Workers -> Passes], queue' \subseteq Domains, failures' \in Nat,
             UNCHANGED <<cluster, client, changed, served, requests, scenario>>
      PROVE  TypeOK'
  BY <1>b DEF TypeOK, served
<1>c. ASSUME worker' \in [Workers -> Passes], queue' \subseteq Domains, failures' \in Nat,
             corefile' \in Corefiles, ports' \subseteq Clusters,
             UNCHANGED <<objects, cached, changed, requests, scenario>>
      PROVE  TypeOK'
  BY <1>c DEF TypeOK, objects
<1>1. ASSUME NEW d \in Domains, Reconcile(w, d)
      PROVE  TypeOK'
  <2>1. [pc |-> "count", domain |-> d, copy |-> cached[d]] \in Reading
    BY <1>a DEF Reading
  <2>2. worker' \in [Workers -> Passes] /\ queue' \subseteq Domains
    BY <1>1, <1>a, <2>1, PassTypes DEF Reconcile, TypeOK
  <2> QED BY <1>1, <1>c, <2>2 DEF Reconcile, TypeOK, served, bounds
<1>2. ASSUME UpdateCount(w)
      PROVE  TypeOK'
  <2>0. worker[w] \in Reading
    BY <1>2, <1>a, PassKinds DEF UpdateCount
  <2>1. CASE Write(w, [worker[w].copy EXCEPT !.count = worker[w].copy.records], "clusters")
    <3>1. [worker[w].copy EXCEPT !.count = worker[w].copy.records] \in Copies
      BY <2>0 DEF Reading, Copies
    <3> QED BY <1>2, <1>b, <2>0, <2>1, <3>1, WriteKeeps DEF UpdateCount
  <2>2. CASE worker' = [worker EXCEPT ![w].pc = "clusters"] /\ UNCHANGED <<domain, cached, queue, failures>>
    <3>1. [worker[w] EXCEPT !.pc = "clusters"] \in Reading
      BY <2>0 DEF Reading
    <3>2. worker' \in [Workers -> Passes]
      BY <2>2, <3>1, <1>a, PassTypes
    <3> QED BY <1>2, <1>b, <2>2, <3>2 DEF UpdateCount, TypeOK
  <2> QED BY <1>2, <2>1, <2>2 DEF UpdateCount
<1>3. ASSUME SyncDomainCluster(w)
      PROVE  TypeOK'
  <2> DEFINE copy == worker[w].copy
             removed == {c \in copy.sync : cluster[c] = "deleting"}
  <2>0. worker[w] \in Reading /\ worker[w].pc # "idle"
    BY <1>3, <1>a, PassKinds DEF SyncDomainCluster
  <2>1. CASE Write(w, [copy EXCEPT !.sync = @ \ removed], "list")
    <3>1. [copy EXCEPT !.sync = @ \ removed] \in Copies
      BY <2>0 DEF Reading, Copies
    <3> QED BY <1>3, <1>b, <2>0, <2>1, <3>1, WriteKeeps DEF SyncDomainCluster
  <2>2. CASE worker' = [worker EXCEPT ![w].pc = "list"] /\ UNCHANGED <<domain, cached, queue, failures>>
    <3>1. [worker[w] EXCEPT !.pc = "list"] \in Reading
      BY <2>0 DEF Reading
    <3>2. worker' \in [Workers -> Passes]
      BY <2>2, <3>1, <1>a, PassTypes
    <3> QED BY <1>3, <1>b, <2>2, <3>2 DEF SyncDomainCluster, TypeOK
  <2>3. CASE Error(w) /\ UNCHANGED <<domain, cached, failures>>
    BY <1>3, <1>b, <2>0, <2>3, EndsKeep DEF SyncDomainCluster, TypeOK
  <2> QED BY <1>3, <2>1, <2>2, <2>3 DEF SyncDomainCluster
<1>4. ASSUME ListDomains(w)
      PROVE  TypeOK'
  <2>0. worker[w] \in Reading
    BY <1>4, <1>a, PassKinds DEF ListDomains
  <2>1. \A c \in Clusters : BuildDomain(c) \in [Domains -> Int]
    BY <1>a DEF BuildDomain, Copies
  <2>2. [pc |-> "next", domain |-> worker[w].domain, corefile |-> [c \in Clusters |-> BuildDomain(c)],
         todo |-> {c \in Clusters : cluster[c] # "gone"}] \in Going
    BY <2>0, <2>1 DEF Reading, Going, Corefiles
  <2>3. worker' \in [Workers -> Passes]
    BY <1>4, <1>a, <2>2, PassTypes DEF ListDomains
  <2> QED BY <1>4, <1>c, <2>3 DEF ListDomains, TypeOK, served, bounds
<1>5. ASSUME NEW c \in Clusters, GetConfigMap(w, c)
      PROVE  TypeOK'
  <2> DEFINE p == worker[w]
             reads == [pc |-> "configmap", domain |-> p.domain, corefile |-> p.corefile,
                       todo |-> p.todo \ {c}, at |-> c, fresh |-> TRUE, ports |-> c \in ports]
  <2>0. p \in Going /\ p.pc # "idle"
    BY <1>5, <1>a, PassKinds DEF GetConfigMap
  <2>1. [p EXCEPT !.todo = @ \ {c}] \in Going /\ reads \in Writing
    BY <2>0 DEF Going, Writing
  <2>2. worker' \in [Workers -> Passes] /\ queue' \subseteq Domains /\ failures' \in Nat
    <3>1. CASE /\ worker' = [worker EXCEPT ![w] = IF corefile[c] = p.corefile[c] THEN [p EXCEPT !.todo = @ \ {c}]
                                                  ELSE reads]
               /\ UNCHANGED <<queue, failures>>
      <4>1. (IF corefile[c] = p.corefile[c] THEN [p EXCEPT !.todo = @ \ {c}] ELSE reads) \in Passes
        BY <2>1, PassTypes
      <4> QED BY <3>1, <4>1, <1>a DEF TypeOK
    <3>2. CASE Error(w) /\ (UNCHANGED failures \/ CallFails)
      BY <2>0, <3>2, EndsKeep DEF TypeOK
    <3> QED BY <1>5, <3>1, <3>2 DEF GetConfigMap
  <2> QED BY <1>5, <1>c, <2>2 DEF GetConfigMap, TypeOK, served
<1>6. ASSUME SyncConfigMap(w)
      PROVE  TypeOK'
  <2> DEFINE p == worker[w]
  <2>0. p \in Writing /\ p.pc # "idle" /\ p.domain \in Domains
    BY <1>6, <1>a, PassKinds DEF SyncConfigMap, Writing
  <2>1. Put(p) => corefile' \in Corefiles
    BY <2>0, <1>a DEF Put, Corefiles, Writing
  <2>2. NextCluster(p) \in Going /\ [p EXCEPT !.pc = "service"] \in Writing
    BY <2>0 DEF NextCluster, Going, Writing
  <2>3. \A v \in Workers : Outdate(p.at, v) \in Passes
    <3> SUFFICES ASSUME NEW v \in Workers PROVE Outdate(p.at, v) \in Passes
      OBVIOUS
    <3>1. CASE worker[v].pc = "configmap"
      <4>1. worker[v] \in Writing
        BY <3>1, <1>a, PassKinds
      <4>2. [worker[v] EXCEPT !.fresh = FALSE] \in Writing
        BY <4>1 DEF Writing
      <4> QED BY <4>2, <1>a, PassTypes DEF Outdate
    <3> QED BY <3>1, <1>a DEF Outdate
  <2>4. /\ worker' \in [Workers -> Passes] /\ queue' \subseteq Domains /\ failures' \in Nat
        /\ corefile' \in Corefiles
    <3>1. CASE /\ Put(p)
               /\ worker' = [v \in Workers |-> IF v # w THEN Outdate(p.at, v)
                                               ELSE IF p.ports THEN NextCluster(p) ELSE [p EXCEPT !.pc = "service"]]
               /\ UNCHANGED <<queue, failures>>
      <4>1. (IF p.ports THEN NextCluster(p) ELSE [p EXCEPT !.pc = "service"]) \in Passes
        BY <2>2, PassTypes
      <4> QED BY <3>1, <4>1, <2>1, <2>3 DEF TypeOK
    <3>2. CASE Error(w) /\ UNCHANGED corefile /\ (UNCHANGED failures \/ CallFails)
      BY <2>0, <3>2, EndsKeep DEF TypeOK
    <3>3. CASE /\ CallFails /\ Put(p)
               /\ worker' = [v \in Workers |-> IF v = w THEN Idle ELSE Outdate(p.at, v)]
               /\ queue' = queue \cup {p.domain}
      BY <2>0, <2>1, <2>3, <3>3, PassTypes, EndsKeep DEF TypeOK
    <3> QED BY <1>6, <3>1, <3>2, <3>3 DEF SyncConfigMap
  <2> QED BY <1>6, <1>c, <2>4 DEF SyncConfigMap, TypeOK
<1>7. ASSUME SyncService(w)
      PROVE  TypeOK'
  <2> DEFINE p == worker[w]
  <2>0. p \in Writing /\ p.pc # "idle"
    BY <1>7, <1>a, PassKinds DEF SyncService
  <2>1. NextCluster(p) \in Going /\ p.at \in Clusters
    BY <2>0 DEF NextCluster, Going, Writing
  <2>2. worker' \in [Workers -> Passes] /\ queue' \subseteq Domains /\ failures' \in Nat /\ ports' \subseteq Clusters
    <3>1. CASE /\ ports' = ports \cup {p.at} /\ worker' = [worker EXCEPT ![w] = NextCluster(p)]
               /\ UNCHANGED <<queue, failures>>
      BY <2>1, <3>1, <1>a, PassTypes DEF TypeOK
    <3>2. CASE Error(w) /\ UNCHANGED ports /\ (UNCHANGED failures \/ CallFails)
      BY <2>0, <3>2, EndsKeep DEF TypeOK
    <3> QED BY <1>7, <3>1, <3>2 DEF SyncService
  <2> QED BY <1>7, <1>c, <2>2 DEF SyncService, TypeOK
<1>8. ASSUME EndPass(w)
      PROVE  TypeOK'
  <2>1. worker' \in [Workers -> Passes]
    BY <1>8, EndsKeep DEF EndPass
  <2> QED BY <1>8, <1>c, <2>1 DEF EndPass, TypeOK, served, bounds
<1> QED BY <1>1, <1>2, <1>3, <1>4, <1>5, <1>6, <1>7, <1>8 DEF WorkerStep

\* One step per action.
LEMMA DomainStep == TypeOK /\ [Next]_vars => TypeOK'
<1> SUFFICES ASSUME TypeOK, [Next]_vars PROVE TypeOK'
  OBVIOUS
<1>1. CASE Api
  BY <1>1, ApiKeeps
<1>2. CASE Resync
  BY <1>2 DEF Resync, TypeOK, objects, served, bounds
<1>3. ASSUME NEW w \in Workers, WorkerStep(w)
      PROVE  TypeOK'
  BY <1>3, WorkerKeeps
<1>4. ASSUME NEW d \in Domains, DeliverDomain(d)
      PROVE  TypeOK'
  BY <1>4 DEF DeliverDomain, TypeOK, objects, served, bounds
<1>5. ASSUME NEW c \in Clusters, FindObjectsForCluster(c)
      PROVE  TypeOK'
  BY <1>5 DEF FindObjectsForCluster, TypeOK, objects, served, bounds
<1>6. ASSUME NEW c \in Clusters, ClusterGone(c)
      PROVE  TypeOK'
  BY <1>6 DEF ClusterGone, TypeOK, served, bounds
<1>7. ASSUME NEW c \in Clusters, Connect(c)
      PROVE  TypeOK'
  BY <1>7 DEF Connect, TypeOK, served, bounds
<1>8. CASE UNCHANGED vars
  BY <1>8 DEF vars, TypeOK, objects, served, bounds
<1> QED BY <1>1, <1>2, <1>3, <1>4, <1>5, <1>6, <1>7, <1>8 DEF Next

-----------------------------------------------------------------------------
(***************************************************************************)
(* The two parts together, as the run has them.                            *)
(***************************************************************************)
\* Every variable has its type, and a silent node is found out in time, in the
\* composition of the two parts (tryUpdateNodeHealth).
THEOREM PlatformIsHealthy == MCInit /\ [][MCNext]_<<part, vars, healthVars>> => []HealthInvariant
<1> DEFINE I == TypeOK /\ HInv
<1>1. MCInit => I
  BY DomainsStart, HealthStarts DEF MCInit
<1>2. I /\ [MCNext]_<<part, vars, healthVars>> => I'
  <2> SUFFICES ASSUME I, [MCNext]_<<part, vars, healthVars>> PROVE I'
    OBVIOUS
  <2>1. [Next]_vars /\ [HealthNext]_healthVars
    BY DEF MCNext
  <2> QED BY <2>1, DomainStep, HealthStep
<1>3. I => HealthInvariant
  BY SilenceBound DEF HealthInvariant, HInv
<1> QED BY <1>1, <1>2, <1>3, PTL

=============================================================================
