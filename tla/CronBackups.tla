----------------------------- MODULE CronBackups -----------------------------
(***************************************************************************)
(* One cron backup of one cluster: the controller that creates a backup    *)
(* when a slot of the schedule has come and keeps the number of backups    *)
(* down, and the API requests on the cron backup.                          *)
(*                                                                         *)
(* A slot of the schedule is a tick of the clock; the clock of the code is *)
(* finer, so that it is always a little past the tick.  The controller     *)
(* reads informer copies, changes them in place and writes conditionally.  *)
(***************************************************************************)
EXTENDS Integers, Sequences, FiniteSets

CONSTANTS
    MaxBackupNum,   \* the number of backups to keep
    MaxTime,        \* bound on the clock
    Scenarios       \* see ScenarioAssumption

ASSUME CronAssumption == MaxBackupNum \in Nat \ {0} /\ MaxTime \in Nat \ {0}

\* oneShot: RunAt instead of a schedule; does: what clients and the surroundings do,
\* and writes: how often; backups: with so many backups nothing conflicts with
\* createBackup any more; haste: whether two backups may be created in one second;
\* resync: whether the ten-hourly resync is counted on.
ASSUME ScenarioAssumption ==
    \A s \in Scenarios :
        /\ s.oneShot \in BOOLEAN /\ s.does \subseteq {"cron", "work", "delete", "obstruct"}
        /\ s.writes \in Nat /\ s.backups \in Nat /\ s.haste \in BOOLEAN /\ s.resync \in BOOLEAN

VARIABLES
    now,         \* the clock
    cron,        \* the cron backup in the store
    cronSeen,    \* the informer's copy of it
    cronSynced,  \* has it the store's resourceVersion?
    mine,        \* the copy that the reconciler holds
    phase,       \* the cluster's phase in the store
    phaseSeen,   \* the phase in the informer's copy of the cluster
    cluSynced,   \* has that copy the store's resourceVersion?
    cluHeld,     \* has the copy that createBackup holds?
    obstacle,    \* is something missing that createBackup needs, or do its calls fail?
    backups,     \* the backups ever made, in order of creation
    shown,       \* the indexes of those that the backup informer has
    ready,       \* ... and of those that are available by its copies
    pc,          \* the reconciler
    victims,     \* the backups that the retention has yet to look at
    queued,      \* is the cron backup in the workqueue?
    timer,       \* when RequeueAfter puts it there
    writes,
    given        \* the scenario of this behaviour

OneShot == given.oneShot

cronVars == <<cron, cronSeen, cronSynced, mine>>
cluVars == <<phase, phaseSeen, cluSynced, cluHeld, obstacle>>
bkVars == <<backups, shown, ready>>
queueVars == <<queued, timer>>
bounds == <<writes, given>>
vars == <<now, cronVars, cluVars, bkVars, pc, victims, queueVars, bounds>>

Never == MaxTime + 2   \* no time

RunAt == 1

CronObjects == [alive : BOOLEAN, disabled : BOOLEAN, next : 1..Never, success : 0..MaxTime,
                failed : 0..MaxTime]

\* A backup is there until the retention or a client takes it; its creation time is in
\* seconds.
BackupObjects == [fate : {"kept", "retired", "deleted"}, at : Nat,
                  status : {"creating", "available", "error"}]

TypeOK ==
    /\ now \in 0..MaxTime
    /\ cron \in CronObjects /\ cronSeen \in CronObjects /\ cronSynced \in BOOLEAN
    /\ mine \in [copy : CronObjects, fresh : BOOLEAN, shared : BOOLEAN]
    /\ phase \in {"Running", "BackingUp", "Updating", "UpdateFailed"}
    /\ phaseSeen \in {"Running", "BackingUp", "Updating", "UpdateFailed"}
    /\ cluSynced \in BOOLEAN /\ cluHeld \in BOOLEAN /\ obstacle \in BOOLEAN
    /\ backups \in Seq(BackupObjects)
    /\ shown \subseteq DOMAIN backups /\ ready \subseteq shown
    /\ pc \in {"idle", "dispatch", "create", "object", "cluster", "failed", "record", "retain", "delete", "clean"}
    /\ victims \subseteq DOMAIN backups
    /\ queued \in BOOLEAN /\ timer \in 0..Never
    /\ writes \in 0..given.writes /\ given \in Scenarios

\* CreateCronBackup: the object has just been created.
NewCron == [alive |-> TRUE, disabled |-> FALSE, next |-> Never, success |-> 0, failed |-> 0]

NoCopy == [copy |-> NewCron, fresh |-> FALSE, shared |-> FALSE]

Init ==
    /\ given \in Scenarios
    /\ now = 0
    /\ cron = NewCron
    /\ cronSeen = cron /\ cronSynced = TRUE
    /\ mine = NoCopy
    /\ phase = "Running" /\ phaseSeen = "Running" /\ cluSynced = TRUE /\ cluHeld = FALSE
    /\ obstacle = FALSE
    /\ backups = <<>> /\ shown = {} /\ ready = {}
    /\ pc = "idle" /\ victims = {}
    /\ queued = TRUE /\ timer = Never
    /\ writes = 0

-----------------------------------------------------------------------------
\* Any write of the object outdates every copy.
Store(c) == cron' = c /\ cronSynced' = FALSE

\* UpdateCronBackup with the reconciler's copy, which is the informer's own
\* object as long as no event has replaced that; a conflict leaves the store alone.
UpdateCron(c) ==
    /\ cronSeen' = IF mine.shared THEN c ELSE cronSeen
    /\ IF mine.fresh /\ c # cron THEN Store(c) ELSE UNCHANGED <<cron, cronSynced>>

Conflict == ~mine.fresh

Return == pc' = "idle" /\ mine' = NoCopy

NextSlot == IF OneShot THEN RunAt ELSE now + 1

Due(c) == c.next <= now

Done(c) == OneShot /\ c.success # 0

\* Reconcile reads the informer's copy.
Reconcile ==
    /\ pc = "idle" /\ queued
    /\ IF cronSeen.alive /\ ~cronSeen.disabled
       THEN /\ pc' = "dispatch"
            /\ mine' = [copy |-> cronSeen, fresh |-> cronSynced, shared |-> TRUE]
       ELSE Return
    /\ queued' = FALSE
    /\ UNCHANGED <<now, cron, cronSeen, cronSynced, cluVars, bkVars, victims, timer, bounds>>

\* The first reconcile sets the next slot and leaves the rest to the event of
\* its own write.
FirstSchedule ==
    /\ pc = "dispatch" /\ mine.copy.next = Never
    /\ UpdateCron([mine.copy EXCEPT !.next = NextSlot])
    /\ queued' = (queued \/ Conflict)
    /\ Return
    /\ UNCHANGED <<now, cluVars, bkVars, victims, timer, bounds>>

\* Mutant: nothing asks for a reconcile when the slot has come.
Wait_NoRequeue ==
    /\ pc = "dispatch" /\ mine.copy.next # Never
    /\ IF ~Done(mine.copy) /\ Due(mine.copy) THEN pc' = "create" /\ UNCHANGED mine ELSE Return
    /\ UNCHANGED <<now, cron, cronSeen, cronSynced, cluVars, bkVars, victims, queueVars, bounds>>

\* A slot has come, or RequeueAfter until then.
Wait ==
    /\ pc = "dispatch" /\ mine.copy.next # Never
    /\ IF ~Done(mine.copy) /\ Due(mine.copy) THEN pc' = "create" /\ UNCHANGED mine ELSE Return
    /\ timer' = IF Done(mine.copy) \/ Due(mine.copy) THEN timer ELSE mine.copy.next
    /\ UNCHANGED <<now, cron, cronSeen, cronSynced, cluVars, bkVars, victims, queued, bounds>>

\* createBackup: a cluster that is not running gives no error, and nothing is
\* created.  Otherwise, unless a check fails, the phase is set in the informer's
\* copy, where a failure of what follows leaves it, and the operation is created.
CreateOperation ==
    /\ pc = "create"
    /\ cluSynced \/ Len(backups) < given.backups
    /\ \/ phaseSeen # "Running" /\ pc' = "record" /\ UNCHANGED <<phaseSeen, cluHeld>>
       \/ phaseSeen = "Running" /\ obstacle /\ pc' = "failed" /\ UNCHANGED <<phaseSeen, cluHeld>>
       \/ /\ phaseSeen = "Running" /\ phaseSeen' = "BackingUp" /\ cluHeld' = cluSynced
          /\ pc' \in {"object"} \cup (IF obstacle THEN {"failed"} ELSE {})
    /\ UNCHANGED <<now, cronVars, phase, cluSynced, obstacle, bkVars, victims, queueVars, bounds>>

\* The seconds that the next backup may be created in: the first of the slot, which is
\* a minute, or one after the last backup's or, in haste, the same.
Seconds ==
    LET later == {backups[i].at : i \in DOMAIN backups} \ 0..(60 * now - 1) IN
    IF later = {} THEN {60 * now}
    ELSE {t + d : t \in {x \in later : \A y \in later : y <= x},
                  d \in IF given.haste THEN {0, 1} ELSE {1}}

CreateBackup ==
    /\ pc = "object"
    /\ \/ /\ \E t \in Seconds :
              backups' = Append(backups, [fate |-> "kept", at |-> t, status |-> "creating"])
          /\ pc' = "cluster"
       \/ obstacle /\ pc' = "failed" /\ UNCHANGED backups
    /\ UNCHANGED <<now, cronVars, cluVars, shown, ready, victims, queueVars, bounds>>

MayConflict == pc \notin {"object", "cluster"} \/ Len(backups) < given.backups

WriteCluster(p) == phase' = p /\ cluSynced' = FALSE /\ cluHeld' = FALSE

UpdateCluster ==
    /\ pc = "cluster"
    /\ \/ cluHeld /\ WriteCluster("BackingUp") /\ pc' = "record"
       \/ /\ ~cluHeld \/ (obstacle /\ MayConflict)
          /\ pc' = "failed" /\ UNCHANGED <<phase, cluSynced, cluHeld>>
    /\ UNCHANGED <<now, cronVars, phaseSeen, obstacle, bkVars, victims, queueVars, bounds>>

\* createBackup failed: a one-shot is requeued; a schedule notes the time and
\* leaves the rest to the event of that write.  Times are stored in seconds
\* and an object that has not changed is not written: a second failure within
\* the second has no event.
RecordFailure ==
    /\ pc = "failed"
    /\ IF OneShot THEN queued' = TRUE /\ UNCHANGED <<cron, cronSeen, cronSynced>>
       ELSE UpdateCron([mine.copy EXCEPT !.failed = now]) /\ queued' = (queued \/ Conflict)
    /\ Return
    /\ UNCHANGED <<now, cluVars, bkVars, victims, timer, bounds>>

\* The slot counts as served; a failed write is only logged.
RecordSuccess ==
    /\ pc = "record"
    /\ IF OneShot
       THEN UpdateCron([mine.copy EXCEPT !.success = mine.copy.next]) /\ Return
       ELSE /\ UpdateCron([mine.copy EXCEPT !.success = now, !.next = NextSlot])
            /\ pc' = "retain" /\ mine' = [mine EXCEPT !.copy.next = NextSlot]
    /\ UNCHANGED <<now, cluVars, bkVars, victims, queueVars, bounds>>

-----------------------------------------------------------------------------
\* Mutant: the newest ones.
Excess_Newest(list) ==
    {V \in SUBSET list :
        /\ Cardinality(list \ V) <= MaxBackupNum
        /\ V # {} => Cardinality(list \ V) = MaxBackupNum
        /\ \A i \in V, j \in list \ V : backups[i].at >= backups[j].at}

\* The oldest ones, as many as there are too many: the first ones of a list sorted by
\* the second of creation, in whatever order within a second.
Excess(list) ==
    {V \in SUBSET list :
        /\ Cardinality(list \ V) <= MaxBackupNum
        /\ V # {} => Cardinality(list \ V) = MaxBackupNum
        /\ \A i \in V, j \in list \ V : backups[i].at <= backups[j].at}

\* keep the backup num within the maxNum: by what the informer shows, now.  The
\* loop passes over a backup that is not available in this list.
ListBackups ==
    /\ pc = "retain"
    /\ \E V \in Excess(shown) : victims' = V \cap ready
    /\ pc' = "delete"
    /\ UNCHANGED <<now, cronVars, cluVars, bkVars, queueVars, bounds>>

\* The loop goes from the oldest one on.  Backups are numbered as they are created.
Oldest == CHOOSE i \in victims : \A j \in victims : i <= j

\* One that is gone already, by an earlier pass or a client's request, ends the pass
\* with an error.
DeleteBackup ==
    /\ pc = "delete" /\ victims # {}
    /\ IF backups[Oldest].fate = "kept"
       THEN /\ backups' = [backups EXCEPT ![Oldest].fate = "retired"] /\ pc' = "clean"
            /\ UNCHANGED <<victims, mine, queued>>
       ELSE Return /\ victims' = {} /\ queued' = TRUE /\ UNCHANGED backups
    /\ UNCHANGED <<now, cron, cronSeen, cronSynced, cluVars, shown, ready, timer, bounds>>

\* deleteBackup: the operation that removes the file, unless the informer has
\* already lost the backup, which ends the pass with an error.
CreateDeleteOperation ==
    /\ pc = "clean"
    /\ IF Oldest \in shown
       THEN pc' = "delete" /\ victims' = victims \ {Oldest} /\ UNCHANGED <<mine, queued>>
       ELSE Return /\ victims' = {} /\ queued' = TRUE
    /\ UNCHANGED <<now, cron, cronSeen, cronSynced, cluVars, bkVars, timer, bounds>>

EndPass ==
    /\ pc = "delete" /\ victims = {}
    /\ Return
    /\ timer' = mine.copy.next
    /\ UNCHANGED <<now, cron, cronSeen, cronSynced, cluVars, bkVars, victims, queued, bounds>>

ReconcileStep ==
    \/ Reconcile \/ FirstSchedule \/ Wait \/ CreateOperation \/ CreateBackup \/ UpdateCluster
    \/ RecordFailure \/ RecordSuccess
    \/ ListBackups \/ DeleteBackup \/ CreateDeleteOperation \/ EndPass

-----------------------------------------------------------------------------
(***************************************************************************)
(* Informers, clock, and the others.                                       *)
(***************************************************************************)
DeliverCron ==
    /\ ~cronSynced
    /\ cronSeen' = cron /\ cronSynced' = TRUE
    /\ mine' = [mine EXCEPT !.shared = FALSE]
    /\ queued' = TRUE
    /\ UNCHANGED <<now, cron, cluVars, bkVars, pc, victims, timer, bounds>>

\* The resync, every ten hours; one that meets other work changes nothing.
Resync ==
    /\ pc = "idle" /\ ~queued /\ cronSynced
    /\ queued' = cronSeen.alive
    /\ UNCHANGED <<now, cronVars, cluVars, bkVars, pc, victims, timer, bounds>>

DeliverCluster ==
    /\ ~cluSynced
    /\ phaseSeen' = phase /\ cluSynced' = TRUE
    /\ UNCHANGED <<now, cronVars, phase, cluHeld, obstacle, bkVars, pc, victims, queueVars, bounds>>

DeliverBackups ==
    /\ shown' = {i \in DOMAIN backups : backups[i].fate = "kept"}
    /\ ready' = {i \in shown' : backups[i].status = "available"}
    /\ <<shown, ready>>' # <<shown, ready>>
    /\ UNCHANGED <<now, cronVars, cluVars, backups, pc, victims, queueVars, bounds>>

Tick ==
    /\ now < MaxTime
    /\ now' = now + 1
    /\ UNCHANGED <<cronVars, cluVars, bkVars, pc, victims, queueVars, bounds>>

\* RequeueAfter runs out.
Fire ==
    /\ timer <= now
    /\ queued' = TRUE /\ timer' = Never
    /\ UNCHANGED <<now, cronVars, cluVars, bkVars, pc, victims, bounds>>

\* The operation of backup i ends; the backup controller and the business
\* reconciler take over its outcome.
BackupEnds(i) ==
    /\ backups[i].status = "creating" /\ MayConflict
    /\ \E ok \in BOOLEAN :
         /\ backups' = [backups EXCEPT ![i].status = IF ok THEN "available" ELSE "error"]
         /\ WriteCluster(IF ok THEN "Running" ELSE "UpdateFailed")
    /\ UNCHANGED <<now, cronVars, phaseSeen, obstacle, shown, ready, pc, victims, queueVars, bounds>>

\* What others do, which the scenario allows so many times.
Others(kind) == kind \in given.does /\ writes < given.writes /\ writes' = writes + 1

\* Another operation keeps the cluster busy, or a failed phase is reset.
OtherOperation ==
    /\ Others("work")
    /\ phase # "BackingUp" /\ MayConflict
    /\ WriteCluster(IF phase = "Running" THEN "Updating" ELSE "Running")
    /\ UNCHANGED <<now, cronVars, phaseSeen, obstacle, bkVars, pc, victims, queueVars, given>>

\* The backup point, the cluster's label or a node goes, or the store fails; and back.
Obstruct ==
    /\ Others("obstruct")
    /\ obstacle' = ~obstacle
    /\ UNCHANGED <<now, cronVars, phase, phaseSeen, cluSynced, cluHeld, bkVars, pc, victims,
                   queueVars, given>>

\* A client deletes backup i, which is not being created.
ClientDeletesBackup(i) ==
    /\ Others("delete")
    /\ backups[i].fate = "kept" /\ backups[i].status # "creating"
    /\ backups' = [backups EXCEPT ![i].fate = "deleted"]
    /\ UNCHANGED <<now, cronVars, cluVars, shown, ready, pc, victims, queueVars, given>>

ApiWrite(c) ==
    /\ Others("cron")
    /\ cron.alive
    /\ Store(c)
    /\ mine' = [mine EXCEPT !.fresh = FALSE]
    /\ UNCHANGED <<now, cronSeen, cluVars, bkVars, pc, victims, queueVars, given>>

DisableCronBackup == ~cron.disabled /\ ApiWrite([cron EXCEPT !.disabled = TRUE])
EnableCronBackup == cron.disabled /\ ApiWrite([cron EXCEPT !.disabled = FALSE])
UpdateCronBackup == ~Done(cron) /\ ApiWrite([cron EXCEPT !.next = NextSlot])
DeleteCronBackup == ApiWrite([cron EXCEPT !.alive = FALSE])

Api == DisableCronBackup \/ EnableCronBackup \/ UpdateCronBackup \/ DeleteCronBackup

Next ==
    \/ ReconcileStep \/ DeliverCron \/ DeliverCluster \/ DeliverBackups \/ Tick \/ Fire
    \/ Resync
    \/ \E i \in DOMAIN backups : BackupEnds(i) \/ ClientDeletesBackup(i)
    \/ OtherOperation \/ Obstruct \/ Api

Spec == Init /\ [][Next]_vars

\* The controller, the informers and the clock go on, and in some scenarios the
\* resync comes round.
Fairness ==
    /\ WF_vars(ReconcileStep) /\ WF_vars(DeliverCron) /\ WF_vars(DeliverCluster)
    /\ WF_vars(Tick) /\ WF_vars(Fire)
    /\ WF_vars(given.resync /\ Resync)

FairSpec == Spec /\ Fairness

-----------------------------------------------------------------------------
(***************************************************************************)
(* Properties.                                                             *)
(***************************************************************************)
Active == cron.alive /\ ~cron.disabled

\* A slot that has come is dealt with, through conflicts, disabling and enabling,
\* failed attempts and lost timers (Reconcile, RequeueAfter), as soon as createBackup
\* can do its work.  Dealt with is not backed up: a slot that finds the cluster busy
\* is noted as served and passed over.
DueIsServed ==
    Active /\ (cron.next = Never \/ Due(cron)) ~>
        ~Active \/ (cron.next # Never /\ ~Due(cron)) \/ Done(cron) \/ obstacle

\* The backups that are newer than i, as far as the retention is concerned.
Newer(i) ==
    {j \in DOMAIN backups : backups[j].fate # "retired" /\ backups[j].at > backups[i].at}

\* Two backups of one second, not older than i, whose order the sort does not know.
TieFrom(i) ==
    \E j, k \in DOMAIN backups :
        j # k /\ backups[j].at = backups[k].at /\ backups[j].at >= backups[i].at

Retired(i) == backups[i].fate = "retired"

\* The retention takes a backup only if MaxBackupNum newer ones have not fallen to it,
\* though the informer's list lags behind: if one of those is missing, a client
\* deleted it.  Only backups of the same second undo that (the loop after "keep the
\* backup num").
KeepsNewest ==
    [][\A i \in DOMAIN backups : ~Retired(i) /\ Retired(i)' =>
         Cardinality(Newer(i)) >= MaxBackupNum \/ TieFrom(i)]_vars

=============================================================================
