------------------------------ MODULE NodeHealth ------------------------------
(***************************************************************************)
(* The Ready condition of one node: its agent renews a lease and reports   *)
(* the status, and the node status monitor of the leading server sets the  *)
(* condition to Unknown when it has seen neither for a grace period.  The  *)
(* monitor measures with its own clock, in memory.                         *)
(*                                                                         *)
(* A tick of the clock is the interval of the lease, one minute; a report  *)
(* is due in some of them, every fifth by default.  Heartbeat and renew    *)
(* times matter only for whether the next reader has them already.         *)
(***************************************************************************)
EXTENDS Naturals, FiniteSetsExt

CONSTANTS
    Grace,      \* nodeMonitorGracePeriod, in ticks
    Startup,    \* nodeStartupGracePeriod, the same
    Lag         \* an informer is behind by no more than this

\* Four minutes, one minute, and less than the former.
ASSUME HealthAssumption ==
    Grace \in Nat /\ Startup \in Nat /\ Lag \in Nat /\ Startup <= Grace /\ Lag < Grace

VARIABLES
    cond,         \* the Ready condition in the store
    condSeen,     \* and in the informer's copy
    nodeSynced,   \* has that the store's resourceVersion?
    nodeLate,     \* for how long it has not
    beatStored,   \* has the store a heartbeat time that the copy has not?
    beatSeen,     \* has the copy one that the monitor has not saved?
    leaseStored,  \* the same for the lease and its renew time
    leaseSeen,
    leaseKnown,   \* has the informer the lease at all?
    leaseLate,
    health,       \* the monitor's nodeHealthData
    agent,        \* the agent: its process, its copy of the node, what it has yet to do
    monitored,    \* has the monitor had a pass since the last tick?
    age,          \* of the node object
    upFor,        \* how long the agent has been up
    silent        \* how long nothing has been written by it or another, under one leader

store == <<cond, beatStored, leaseStored>>
informer == <<condSeen, nodeSynced, nodeLate, beatSeen, leaseSeen, leaseKnown, leaseLate>>
clocks == <<age, upFor, silent>>
healthVars == <<store, informer, health, agent, monitored, clocks>>

\* A node that has been silent for longer is Unknown: its last lease or report is
\* seen late, by the next pass; one more pass may take up the lease again, which
\* was forgotten with the data that a report made anew; and the pass that finds
\* the grace period exceeded is yet to come.
Bound == Grace + Lag + 3

HealthTypeOK ==
    /\ cond \in {"none", "True", "Unknown"} /\ condSeen \in {"none", "True", "Unknown"}
    /\ nodeSynced \in BOOLEAN /\ beatStored \in BOOLEAN /\ beatSeen \in BOOLEAN
    /\ leaseStored \in BOOLEAN /\ leaseSeen \in BOOLEAN /\ leaseKnown \in BOOLEAN /\ monitored \in BOOLEAN
    /\ nodeLate \in 0..Lag /\ leaseLate \in 0..Lag
    /\ health \in [known : BOOLEAN, ready : BOOLEAN, lease : BOOLEAN, probe : 0..Grace + 1]
    /\ agent \in [up : BOOLEAN, copy : {"none", "fresh", "stale"}, report : BOOLEAN, renew : BOOLEAN]
    /\ age \in 0..Grace + 1 /\ upFor \in 0..Lag + 1 /\ silent \in 0..Bound + 1

Unseen == [known |-> FALSE, ready |-> FALSE, lease |-> FALSE, probe |-> 0]

\* The agent has just registered the node.
HealthInit ==
    /\ cond = "none" /\ condSeen = "none" /\ nodeSynced = TRUE /\ nodeLate = 0
    /\ beatStored = FALSE /\ beatSeen = FALSE
    /\ leaseStored = FALSE /\ leaseSeen = FALSE /\ leaseKnown = FALSE /\ leaseLate = 0
    /\ health = Unseen
    /\ agent = [up |-> TRUE, copy |-> "none", report |-> TRUE, renew |-> TRUE]
    /\ monitored = FALSE
    /\ age = 0 /\ upFor = 0 /\ silent = 0

Outdated == IF agent.copy = "fresh" THEN "stale" ELSE agent.copy

-----------------------------------------------------------------------------
(***************************************************************************)
(* The agent.                                                              *)
(***************************************************************************)
RenewNodeLease ==
    /\ agent.up /\ agent.renew
    /\ agent' = [agent EXCEPT !.renew = FALSE]
    /\ leaseStored' = TRUE
    /\ silent' = 0
    /\ UNCHANGED <<cond, beatStored, informer, health, monitored, age, upFor>>

\* updateNodeStatus gets the node ...
GetNode ==
    /\ agent.up /\ agent.report /\ agent.copy = "none"
    /\ agent' = [agent EXCEPT !.copy = "fresh"]
    /\ UNCHANGED <<store, informer, health, monitored, clocks>>

\* Mutant: the condition that was there is kept.
UpdateNodeStatus_KeepsCondition ==
    /\ agent.copy # "none"
    /\ agent' = [agent EXCEPT !.copy = "none", !.report = FALSE]
    /\ IF agent.copy = "fresh"
       THEN /\ cond' = IF cond = "none" THEN "True" ELSE cond
            /\ beatStored' = TRUE /\ nodeSynced' = FALSE /\ silent' = 0
       ELSE UNCHANGED <<cond, beatStored, nodeSynced, silent>>
    /\ UNCHANGED <<leaseStored, condSeen, nodeLate, beatSeen, leaseSeen, leaseKnown, leaseLate,
                   health, monitored, age, upFor>>

\* ... and writes its status, unless the node has changed meanwhile.
UpdateNodeStatus ==
    /\ agent.copy # "none"
    /\ agent' = [agent EXCEPT !.copy = "none", !.report = FALSE]
    /\ IF agent.copy = "fresh"
       THEN cond' = "True" /\ beatStored' = TRUE /\ nodeSynced' = FALSE /\ silent' = 0
       ELSE UNCHANGED <<cond, beatStored, nodeSynced, silent>>
    /\ UNCHANGED <<leaseStored, condSeen, nodeLate, beatSeen, leaseSeen, leaseKnown, leaseLate,
                   health, monitored, age, upFor>>

\* The agent, or the network to it, goes down; a restart reports at once.
AgentDown ==
    /\ agent.up
    /\ agent' = [up |-> FALSE, copy |-> "none", report |-> FALSE, renew |-> FALSE]
    /\ upFor' = 0
    /\ UNCHANGED <<store, informer, health, monitored, age, silent>>

AgentUp ==
    /\ ~agent.up
    /\ agent' = [up |-> TRUE, copy |-> "none", report |-> TRUE, renew |-> TRUE]
    /\ UNCHANGED <<store, informer, health, monitored, clocks>>

AgentStep == RenewNodeLease \/ GetNode \/ UpdateNodeStatus

-----------------------------------------------------------------------------
(***************************************************************************)
(* The monitor.                                                            *)
(***************************************************************************)
GracePeriod == IF condSeen = "none" THEN Startup ELSE Grace

\* Is nodeHealthData made anew: for a node not seen before, one that has its
\* first condition, or one with another heartbeat time?
Renewed == condSeen # "none" /\ (~health.known \/ ~health.ready \/ beatSeen)

LeaseRenewed == leaseKnown /\ (~health.lease \/ leaseSeen)

Probe ==
    IF Renewed \/ LeaseRenewed THEN 0
    ELSE IF health.known THEN health.probe ELSE age

\* Mutant: the lease is not saved.
Observed_LeaseNotSaved ==
    [known |-> TRUE, ready |-> condSeen # "none", lease |-> FALSE, probe |-> Probe]

\* nodeHealthData after what the listers show; made anew it has no lease
\* unless that has been renewed too.
Observed ==
    [known |-> TRUE, ready |-> condSeen # "none",
     lease |-> LeaseRenewed \/ (health.lease /\ ~Renewed), probe |-> Probe]

\* Mutant: the grace period of a node that never reported is taken for all.
Alarm_Startup == Probe > Startup /\ condSeen # "Unknown"

Alarm == Probe > GracePeriod /\ condSeen # "Unknown"

\* A failed write is left to the next pass; the condition that was to be
\* written is saved all the same.
TryUpdateNodeHealth ==
    /\ monitored' = TRUE
    /\ beatSeen' = FALSE /\ leaseSeen' = FALSE
    /\ IF Alarm /\ nodeSynced
       THEN /\ cond' = "Unknown" /\ nodeSynced' = FALSE
            /\ agent' = [agent EXCEPT !.copy = Outdated]
            /\ health' = [Observed EXCEPT !.ready = TRUE, !.lease = leaseKnown]
       ELSE /\ UNCHANGED <<cond, nodeSynced, agent>>
            /\ health' = [Observed EXCEPT !.ready = @ \/ Alarm]
    /\ UNCHANGED <<beatStored, leaseStored, condSeen, nodeLate, leaseKnown, leaseLate, clocks>>

\* Another server leads, with an empty nodeHealthMap.
Failover ==
    /\ health.known
    /\ health' = Unseen
    /\ silent' = 0
    /\ UNCHANGED <<store, informer, agent, monitored, age, upFor>>

-----------------------------------------------------------------------------
DeliverNode ==
    /\ ~nodeSynced
    /\ condSeen' = cond /\ nodeSynced' = TRUE /\ nodeLate' = 0
    /\ beatSeen' = (beatSeen \/ beatStored) /\ beatStored' = FALSE
    /\ UNCHANGED <<cond, leaseStored, leaseSeen, leaseKnown, leaseLate, health, agent, monitored, clocks>>

DeliverLease ==
    /\ leaseStored
    /\ leaseSeen' = TRUE /\ leaseKnown' = TRUE /\ leaseStored' = FALSE /\ leaseLate' = 0
    /\ UNCHANGED <<cond, beatStored, condSeen, nodeSynced, nodeLate, beatSeen, health, agent, monitored, clocks>>

\* Somebody else writes the node: its labels, or its annotations.
OtherWrite ==
    /\ nodeSynced' = FALSE
    /\ agent' = [agent EXCEPT !.copy = Outdated]
    /\ silent' = 0
    /\ UNCHANGED <<store, condSeen, nodeLate, beatSeen, leaseSeen, leaseKnown, leaseLate,
                   health, monitored, age, upFor>>

\* A clock stops where nothing depends on it any more.
Later(t, bound) == Min({t + 1, bound})

\* Within a minute the agent has tried what was due and the monitor has had a pass.
Tick ==
    /\ monitored /\ ~agent.report /\ ~agent.renew
    /\ nodeSynced \/ nodeLate < Lag
    /\ ~leaseStored \/ leaseLate < Lag
    /\ nodeLate' = IF nodeSynced THEN 0 ELSE nodeLate + 1
    /\ leaseLate' = IF leaseStored THEN leaseLate + 1 ELSE 0
    /\ health' = [health EXCEPT !.probe = IF health.known THEN Later(@, Grace + 1) ELSE 0]
    /\ \E due \in BOOLEAN : agent' = [agent EXCEPT !.report = agent.up /\ due, !.renew = agent.up]
    /\ monitored' = FALSE
    /\ age' = Later(age, Grace + 1) /\ silent' = Later(silent, Bound + 1)
    /\ upFor' = IF agent.up THEN Later(upFor, Lag + 1) ELSE 0
    /\ UNCHANGED <<store, condSeen, nodeSynced, beatSeen, leaseSeen, leaseKnown>>

HealthNext ==
    \/ AgentStep \/ AgentDown \/ AgentUp
    \/ TryUpdateNodeHealth \/ Failover
    \/ DeliverNode \/ DeliverLease \/ OtherWrite \/ Tick

HealthSpec == HealthInit /\ [][HealthNext]_healthVars

\* The agent's rounds go on while it is up, a report is due again and again, and
\* not every one of them meets another writer.
HealthFairSpec ==
    /\ HealthSpec
    /\ WF_healthVars(RenewNodeLease) /\ WF_healthVars(GetNode) /\ WF_healthVars(UpdateNodeStatus)
    /\ SF_healthVars(UpdateNodeStatus /\ agent.copy = "fresh")
    /\ WF_healthVars(TryUpdateNodeHealth) /\ WF_healthVars(DeliverNode) /\ WF_healthVars(DeliverLease)
    /\ SF_healthVars(Tick /\ (agent.up => agent'.report))

-----------------------------------------------------------------------------
(***************************************************************************)
(* Properties.                                                             *)
(***************************************************************************)
\* A node whose agent renews its lease in time does not lose its Ready condition,
\* whatever the informers' lag, a new leader and other writers do, and though
\* every report of the status may fail (tryUpdateNodeHealth).
NoFalseAlarm ==
    [][cond = "True" /\ cond' = "Unknown" => upFor <= Lag]_healthVars

\* A node whose agent has been silent for the grace period and the time that
\* the informers take is Unknown, unless a new leader has to start afresh.
SilenceIsDetected == silent > Bound => cond = "Unknown"

\* An agent that stays up gets its node Ready.
BecomesReady == agent.up ~> (cond = "True" \/ ~agent.up)

=============================================================================
