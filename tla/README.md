# KubeClipper: a TLA+ verification project

KubeClipper manages Kubernetes clusters.  Its server (`kubeclipper-server`)
keeps objects in etcd and runs controllers; an agent on every node
(`kubeclipper-agent`) runs commands; `kcctl` is the command-line client.
Everything that changes a machine goes through **operation engine v2**: a
client creates an *Operation* (a plan of steps on the nodes of a cluster), the
operation controller turns it into *OperationTasks*, agents execute them, and
an *ExecutionLock* per cluster keeps two operations from running at once.  That
engine is the core of the program, it is concurrent and crash-tolerant by
design, and it is the core of this project.  Around it are the objects that
operations are about (clusters, nodes, backups, domains, cloud providers), the
API handlers that start operations and the controllers that follow them up;
each of these is a module of its own.

## 1. Inventory

### The engine

| part | state | operations | source |
|---|---|---|---|
| objects and validation | Operation (phase, desiredState, retryGeneration, observedRetryGeneration, deadline, reason), OperationTask, ExecutionLock | phase transition rules, plan rules | `pkg/scheme/operations`, `pkg/server/registry/operationv2` |
| reducer | none (pure) | facts of the current step, next attempt and its budget, inputs of a step, order of a target's operations | `pkg/controller/operationv2/reducer.go`, `names.go` |
| store | the three kinds of objects in etcd | conditional writes (resourceVersion, UID, phase), create-if-absent, quorum lists, purge | `pkg/models/operationv2/store.go` |
| controller | nothing across a Reconcile | Reconcile: read, order, lock, then start / create attempts / cancel / time out / finish / release | `pkg/controller/operationv2/controller.go`, `setup.go` |
| API | nothing | create, cancel, retry, agents' status update, list and watch | `pkg/apis/operations/v1alpha1` |
| agent worker | the command it executes; an informer cache | select, make Running, execute, report, resume after a restart | `pkg/agent/operationv2/worker.go` |
| business reconciler | the cluster's phase | applies the outcome of terminal operations to clusters | `pkg/controller/operationv2/business.go` |
| runtime | workqueue, leader lease | two workers per controller, one leader, rate-limited requeue | `pkg/controller-runtime` |

The parts interact only through etcd: by conditional writes, by watch events
that put a key on a workqueue, and by quorum lists at the places that decide
something irreversible.

**What is hard.**  Reconcile makes up to eight store calls, and anything may
happen between two of them: another worker, a former leader that has not
noticed, an API request, an agent, the deadline, a crash.  Agents restart and
lose responses.  A cancel request, the deadline and the success of the last
task race for the verdict.  A retry reopens an operation while others queue
behind it.  The list of hazards, each at its line, is in `PROJECT.json`.

**What makes it correct.**  One operation at a time per cluster, in creation
order; no task before its step's turn; no two attempts of one node at a time
and no more of them than the budget; a verdict that is the truth; nothing left
running when an operation is over; a lock that is neither lost nor kept; and
every operation ends although agents may never answer.

### Around the engine

| part | state | operations | source |
|---|---|---|---|
| cluster lifecycle | the cluster object: phase, finalizer, deletion, pending node operations, registries | API requests that set a working phase and start an operation; outcome to phase; push of registries; kubeconfig sync; pending operations; finalizer and purge of the history | `apis/core/v1/handler.go`, `business.go`, `clustercontroller`, `CleanupByTargetUID` |
| backups | backup objects and their status | back up, delete, recover; status from the operation; removal with the cluster | `handler.go`, `backupcontroller` |
| cron backups | schedule, last and next time, retention | create a backup when due, keep the number down; update, disable, enable, delete; the last-day schedule | `cronbackupcontroller` |
| node ownership | node lists of clusters, labels of nodes | create a cluster, add, remove, disable nodes; two controllers that keep labels in step | `handler.go`, `clustercontroller`, `nodecontroller` |
| node health | Ready condition, lease, the monitor's memory | agent's report and lease, monitor's pass, failover | `agent.go`, `node_status.go` |
| restore of etcd | four directories on each master | the commands of the recovery step and their undoing | `scheme/core/v1/k8s/cluster.go`, `command_step.go` |
| imported clusters | provider, cluster and node objects; kubeadm's nodes | import, sync, add nodes, leave, clean up | `cloudprovidercontroller`, `clustermanage/kubeadm` |
| domains | domain objects, Corefiles and DNS services of the clusters | API on domains and records; count; removal of deleted clusters; Corefiles and ports | `handler.go`, `dnscontroller` |

They have in common what makes them hard: a handler checks, writes one object
and then another, with no transaction; a controller reads informer copies that
lag, sometimes changes them in place, and writes conditionally on the
resourceVersion; a conflict, a crash or a failed call may come anywhere; events
are replayed by resyncs and restarts; and users do something else meanwhile.

What makes them correct: a working phase is left again and an accepted request
is carried out; the cluster object goes last and takes its history and backups
with it; a backup is available if and only if it was made; a due slot is
dealt with and the newest backups are kept; labels and node lists come to agree and no node is in two clusters; a
silent node is noticed and a live one is not accused; a failed restore leaves
what it found; both sides of an imported cluster agree; and every cluster comes
to serve the records of the domains that name it.

### The rest of the repository

Token expiry and IAM, the region controller and the other monitors, the
remaining REST APIs, authentication and authorization, auditing, `kcctl`, the
component templates and generated clients.  `PROJECT.json` lists each; section
5 says why they are left out.

## 2. Modules

| module | role | models |
|---|---|---|
| `OperationTypes` | objects, plans, phase rules | types.go, validation.go, strategy.go |
| `Reducer` | the pure functions, as operators | reducer.go, names.go |
| `OperationStore` | the shared variables and the effect of each store call | store.go |
| `OperationController` | one action per store call of Reconcile | controller.go |
| `OperationAPI` | create, cancel, retry | handler.go |
| `TaskAgent` | the agents | worker.go |
| `OperationEngine` | the composition, time, faults, all properties | setup.go, controller-runtime |
| `TargetQueue` | abstract specification: the queue of one target | what the engine promises |
| `AgentWorker` | one agent's worker with cache, queue and failing calls | worker.go |
| `TaskContract` | abstract specification: one node's tasks as the engine sees them | what AgentWorker promises |
| `ClusterLifecycle` | the cluster object; extends `TargetQueue` by what surrounds the engine | core handler.go, business.go, clustercontroller, purge |
| `Backups` | backups of a cluster; extends `TargetQueue` | core handler.go, backupcontroller |
| `CronBackups`, `MonthlySchedule` | a cron backup; the schedule of the last day of a month | cronbackupcontroller |
| `NodeOwnership` | node lists and labels | core handler.go, clustercontroller, nodecontroller |
| `NodeHealth` | the Ready condition of a node | agent.go, node_status.go |
| `EtcdRestore` | the recovery step on the masters | k8s/cluster.go, command_step.go |
| `ImportedCluster` | a cluster of a cloud provider | cloudprovidercontroller, clustermanage/kubeadm |
| `DomainSync` | domains and Corefiles | core handler.go, dnscontroller |
| `MCEngine` | plans and bounds for the engine's runs | |
| `MCCluster`, `MCBackups`, `MCCron` | scenarios; `MCCron` adds `MonthlySchedule` | |
| `MCNodes` | `NodeOwnership` and `ImportedCluster` in one run | |
| `MCAgent` | `AgentWorker` and `EtcdRestore` | |
| `MCPlatform` | `DomainSync` and `NodeHealth` | |
| `OperationEngineProofs` | lemmas about `Reducer`; theorems about the engine: types, the lock | |
| `OrderProofs` | on top of it: the order, the queue and the tasks | |
| `AgentProofs` | theorems about `AgentWorker` and `EtcdRestore` | |
| `ClusterProofs`, `BackupProofs` | theorems about `ClusterLifecycle` and `Backups` | |
| `CronProofs` | theorems about `CronBackups`, `MonthlySchedule` and their composition | |
| `NodeProofs` | the same for `NodeOwnership` and `ImportedCluster` | |
| `PlatformProofs` | the same for `NodeHealth` and `DomainSync` | |

The modules hang together by the two abstract specifications.  The engine is
shown to implement `TargetQueue`; `ClusterLifecycle` and `Backups` extend
`TargetQueue` and so see of the engine exactly what it promises.  `TaskAgent`
takes the agent's steps as atomic on the stored tasks; `AgentWorker`, which
does not, is shown to implement `TaskContract`, the same steps.

### State and abstraction of the engine

* `ops`, `tasks`, `lock` are the objects in etcd.  An operation keeps its phase,
  desired state, both generations, deadline, reason, creation second and
  resourceVersion.  A task is identified by the five fields that its name
  hashes; its record holds phase, deadline and whether it reported the output
  later steps need.  Payloads, executors, messages and labels are left out: no
  decision modelled here reads them.
* The deadline of a run is named by its generation, because one generation
  enters Running at most once.  `clock[o]` says whether the server's time is
  before the deadline (0), past it (1) or past the two-minute
  `ServerTerminationGrace` (2).
* `ctl[c]` is a reconcile worker: where it is, the operation it read (`snap`),
  the tasks it read (`view`), the tasks left in its current loop (`todo`), the
  verdict it is about to write (`goal`) and the UID of the lock it got.  All of
  it can be stale.  A step that only reads and one that writes are separate
  actions; a store call that reads and then writes conditionally is one action,
  since the condition makes it atomic.
* `retrying[o]` is a retry handler between its checks and its write.  Cancel
  needs no such state: its checks are about the very object whose
  resourceVersion the write is conditional on.
* `exec[n]` is the command an agent is executing; it vanishes when the agent
  stops.
* `Abort`, `StopAgent` and `StartResponseLost` are the faults: a reconcile that
  ends between any two calls (crash, loss of leadership, failed call, or a call
  that was applied and whose response was lost), an agent that stops or cannot
  report, and a Running write whose response is lost.

Simplifications, each harmless for the properties checked: an agent selects
from the current tasks and not from a lagging cache (`AgentWorker` shows that
the cache makes no difference); `selectTask` may take any pending task, not only the
oldest; an agent's own early deadline error is the same as `Failed` for the
controller; names are their fields, so hash collisions do not exist.
Operations are created with retryGeneration 0 and desiredState Active, which
validation enforces.

### State and abstraction around the engine

An object in etcd is a record of the fields that some decision reads.  A write
that is conditional on the resourceVersion is modelled by whether the copy a
party holds is still current (`current`, `holds`, `nodeSynced`, `cluHeld`), or
by a revision number (`rv`, `rev`).  An informer copy is a variable of its own
that a `Deliver...` action brings up to date; where the code changes an
informer's object in place, so does the action.  A handler that makes several
calls has a program counter (`req`, `requests`); a controller pass that visits
objects one after the other has one too (`pc`, `todo`, `pass`, `worker`).

* `ClusterLifecycle`: a request (`req[o]`) is admitted from the cluster it has
  read, writes the working phase and creates its operation, in the handler's
  order (backup and certificate renewal the other way round).  `TargetQueue`
  runs it; `Conclude` ends it; `Deliver`, `Replay` and `BusinessReconcile` bring
  the outcome to the phase.  The cluster controller adds the finalizer, pushes
  changed registries (`cri`: an operation, then the status), makes
  the kubeconfig sync operation and waits for it, starts pending node
  operations, and on deletion lists, verifies, purges and lets go (`fin`).  An
  error return of `Reconcile` changes nothing but ends the pass: `calls` says
  whether the controller's calls succeed, and while they fail nothing behind
  them is reached.  Clients retry and request whenever the API lets them; the
  history variable `behind` collects what they create or reopen behind the back
  of a cleanup that is under way.
* `Backups`: the three requests on a backup, each with its writes in order;
  `NewStatus` is `updateBackupStatus`, taken on the copies `cache`, `opSeen` and
  `phaseSeen` (of the backup, the operation and the cluster).  `reported` are the
  operations whose tasks told size and MD5 of the file; without them
  (`Unreported`) the controller returns an error before it writes.  A scenario
  may begin with backups made or failed earlier (`past`, `lost`).
* `CronBackups`: time in slots.  One action per call of `Reconcile` and
  `createBackup`; `Wait` is RequeueAfter, `Fire` its timer.  While there is an
  `obstacle` (no backup point, no such node, calls that fail) the checks and
  calls of `createBackup` may return an error.  Backups carry
  the second they were created in (`Seconds`), which need not differ.  The retention decides
  by what the backup informer lists (`shown`) and calls available (`ready`):
  `Excess` are the sets that may be the ones to go, for whatever order the sort
  gives to equal times, and the loop (`DeleteBackup`) ends with an error at
  one that is gone already, by an earlier pass or by a client
  (`ClientDeletesBackup`).  `MonthlySchedule` has the calendar and what `L` becomes.
* `NodeOwnership`: lists in `cluster`, labels in `label`.  A request checks the
  labels in one step (`CreateClusterCheck`, `AddNode`, ...) and writes in a later
  one; `ClusterStep` and `ReconcileNode` are the two controllers; `Heartbeat`
  makes their copies of a node outdated.
* `NodeHealth`: heartbeat and renew times are reduced to whether the next reader
  already has them; the monitor's memory is `health`; a tick is a minute, the
  interval of the agent's lease.  The report has an interval of its own, five
  minutes by default (`agent/config/config.go:83`): with a tick it may be due or not.
* `AgentWorker`: the store, the watch stream, the cache, one workqueue key and
  the worker's copy of one task; every call may fail, or be applied and lose its
  response; names come back after a purge, UIDs do not.
* `EtcdRestore`: the manifests and the data directory and their temporary
  twins, one action for each part of each shell command.
* `ImportedCluster`: the pass of the cloud provider controller call by call,
  beside users who add nodes, nodes that leave, machines that join with kubeadm
  alone (`came`), and the two controllers that label nodes.
* `DomainSync`: records are a version number, so that "older" can be said; each
  worker renders from what it listed and goes through the clusters one by one: it
  needs the cluster's client, reads service and configmap, writes the configmap
  conditionally (another worker may have written it since) and then the ports of the
  service, if it lacked them.  `Installed` is the Corefile of a new cluster.

**Scenarios.**  `ClusterLifecycle`, `Backups`, `CronBackups`, `EtcdRestore`,
`ImportedCluster` and `DomainSync` take a set of scenarios: what clients ask for, which faults
may happen, and the bounds.  `Init` chooses one (`given`, `scenario`), it never changes, and
one run covers all of them.  **Parts.**  `MCCron`, `MCNodes`, `MCAgent` and
`MCPlatform` hold two components that share no variable.  `part` says which one
moves in a behaviour, and fairness is asked of that one only; the other stays in
its initial state, so that the number of states is the sum and not the product.

### Parameters

`SingleLeader` TRUE means that all workers serve one workqueue, which never
hands out one key twice at a time; FALSE also lets a former leader's worker go
on with the same operation.  `SameSecond` says whether two operations may carry
the same creation second.  `ClockSync` TRUE means that node clocks follow the
server's to within the grace period and that a command dies with its deadline;
FALSE lets commands go on for ever.

## 3. Runs

One target in the engine, since targets share nothing but agents; two
operations where order or exclusion is the question, one where it is not; two
nodes where siblings matter.  Times are for two workers.

| run | instance | checks | states, time |
|---|---|---|---|
| `chain` | 1 operation, 2 steps (the first on 2 nodes, one of which feeds the second), 1 retry, 1 fault | `StepBarrier`, `AttemptsInSequence`, `AttemptBudget`, `InvalidFactsOnlyForMissingOutput`, `SuccessIffComplete`, `TerminalIsQuiescent` | 608 k, 65 s |
| `two_workers` | 2 operations, 2 interchangeable workers, 1 fault | `TargetExclusion`, `RunInCreationOrder`, `LockReleasedWhenQuiet` | 615 k, 50 s |
| `former_leader` | 1 operation, 2 steps, one automatic retry, 2 workers on the same key, free clocks | `TasksConsistent` | 246 k, 30 s |
| `retry_queue` | 2 operations, 1 retry | `LockInvariant`, `ImplementsTargetQueue` | 1.2 M, 90 s |
| `liveness` | 2 operations, 1 fault, fair | `EveryOperationSettles`, `LockIsReleased` | 242 k, 3 min |
| `same_second` | 2 operations of one second, fair | `EveryOperationSettles` is violated | |
| `cluster` | 3 operations; scenarios `Deletion` (1 fault, 1 retry), `ForcedDeletion` (1 retry, an outage), `Maintenance` (overlapping requests), `Growth` and `Addition` (nodes added while registries change, or calls fail), `Creation`, `Retreat` (deleted before it is ready) | `ClusterInvariant`, `PurgesOnlyChecked`, `DeletionCompletes`, `WorkingPhaseSettles`, `PendingIsStarted` | 136 k, 2 min |
| `backups` | 2 backups, 3 operations; scenarios `Retrial` (2 retries), `Removal` (by request or with the cluster), `Recovery`, `Second` (a recovery beside a backup that failed) | `BackupInvariant`, `TransientSettles`, `GoneWithCluster` | 162 k, 2.5 min |
| `cron` | scenarios `Requests`, `Deletions` (by clients, two backups in one second), `Conflicts`, `Obstacles`, `Once`, 2 slots, 1 backup kept; a calendar of two years, one of them a leap year, from every first day | `CronInvariant`, `DueIsServed`, `KeepsNewest` | 1.12 M, 4 min |
| `nodes` | 1 node between 2 clusters, 3 requests, 1 collision; 3 machines, scenarios `Leavers`, `Adders`, `Outsiders`, `FirstImport` | `TypesOK`, `LabelsSettle`, `LabelsNotStolen`, `KeepsConsistent`, `DrainsOnlyLeavers` | 186 k, 70 s |
| `agent` | 3 tasks under 2 names, 2 failures; 2 masters, scenarios `Once`, `Again` (4 attempts), `Anything` | `AgentInvariant`, `PendingIsExecuted`, `ImplementsContract`, `RestoreInvariant`, `VerdictIsTrue` | 374 k, 90 s |
| `platform` | 2 domains, 2 clusters, 2 workers, 2 requests, 1 failure; scenarios `Life`, `Overtaking` (two domains of one cluster), `Installing` (a cluster without a client); grace period 2, startup 1, lag 1 ticks | `DomainsSettle`, `HealthInvariant`, `NoFalseAlarm`, `Recovers` | 246 k, 3 min |

`ClusterInvariant`, `BackupInvariant`, `CronInvariant`, `AgentInvariant`,
`RestoreInvariant` and `HealthInvariant` are each the type invariant of their components together with
one safety property (`OnlyLateOrphans`, `AvailableMeansMade`,
`NoTwoMonthsLeftOut`, `EndedIsNotRerun`, `BeforeIsKept`, `SilenceIsDetected`).  `TasksConsistent`
is what of the engine's invariants survives two leaders, as long as no client
retries the operation (`former_leader` has `MaxGen` 0).

**Bounds of the engine.**  `MaxFaults` (faults per behaviour) and `MaxGen`
(retries per operation); everything else is finite by itself.  One manual retry
already gives a generation that is not the base generation of a node, and a base
generation that is not 0 (a step first reached by the retry).  One automatic
retry distinguishes `<` from `<=` in the budget.  One fault can hit any call of
any reconcile, any agent or any response; the recovery from it is ordinary
behaviour.  The workers are symmetric; the liveness runs use no symmetry.

**Other bounds.**  Three requests are enough for a node to be taken, freed and
taken again; two for a domain to be changed and given another cluster, or for two
domains to change at once, which is when passes overtake one another.  Two
clusters give an order in which Corefiles are written and a cluster that a node
can move to.  Three operations are a deletion, what it races and one more.  Two
backups are one to recover from and another.  Two failures can hit a call and its
repetition.  Two slots make a
slot that comes while the one before is being dealt with.  Four attempts at a
restore make the older copy that a first recovery left behind meet a second
recovery and its retry.  The ticks of `NodeHealth` keep the order of the code's
times (the startup period is one lease interval, the grace period longer) and
are small to keep the number of clock values down.  The model has a fixed number
of operations; where the code would create another one (the push of registries
after a conflict), `OutOfPushes` names the bound.

**Deadlock** checking is on in the engine, `cluster`, `backups` and `nodes`: there
something can always be reconciled, resynced or reported again.  It is off in
`cron` (the clock ends at `MaxTime`, the calendar after two years), `agent` (all
tasks are executed and the bound on new ones is reached) and `platform` (users
are done and every queue is empty).

**Fairness.**

* Engine (`Fairness` in `OperationEngine`): a reconcile in progress goes on
  (weak); every operation is handed to a worker again and again (strong: worker
  slots are contended, and the workqueue, RequeueAfter of at most the bounded
  wait, rate-limited retries and the list at start-up bring every unfinished key
  back); time passes; and a command ends once its deadline is over (its context
  is cancelled).  Nothing is assumed of clients, and nothing of agents before
  the deadline: a node that never answers is a fair behaviour.
* Controllers around it: a pass in progress goes on, informers deliver, failed
  keys come back by the rate-limited workqueue, and the ten-hour resync
  (`controller-runtime/manager/manager.go:278`) comes round.  `CronBackups`
  counts on the resync only in `Conflicts` and `Obstacles`; in the other scenarios
  its own timers must do.
* `ClusterLifecycle` and `Backups` rely on `EveryOperationSettles`: what runs is
  concluded.  An outage need not end: the properties say what happens unless the
  controller's calls keep failing.
* `DomainSync`: every key of a workqueue has its turn (strong: the queue is first in,
  first out, and two workers share it).  Nothing makes a cluster's installation end.
* The cluster controller returns no error to its workqueue where a push, a sync or a
  pending operation fails (`clustercontroller/controller.go:222-233`): what brings
  the cluster back is the next event or the resync.
* `NodeOwnership`: agents report again and again, and among the resyncs some
  come while no report is on its way (strong), since reports are a minute apart
  and a pass takes seconds.
* `NodeHealth`: while an agent is up its rounds go on, time passes and a report
  falls due again and again (strong, as an informer that lags holds the clock up),
  and not every report collides with another writer (strong).
* `ImportedCluster`: an AddNodes operation that runs ends in success, nodes that
  users want are registered, and the provider's pass comes round (its four-hour
  interval).
* Users owe nothing anywhere.  All bounded faults cease, so that liveness is
  about what comes after them.

### Where code and documents disagree

`same_second` is a run of its own.  Two operations created within one second are
ordered by the resourceVersion they have *now*.  When the first becomes Running
its resourceVersion grows past the second's, so it waits for the second, which
waits for the lock; deadlines are looked at later than that and never apply.
`controller_test.go:65` says the revision "must still keep the actual create
order stable", and the design (`docs/superpowers/specs/2026-07-26-operation-engine-v2-design.md`,
*design* below) says at line 955 that such a wait never hangs.  All passing
runs take `SameSecond = FALSE`.

The others are recorded in the models as an exception in a property, as a
parameter, or as a property that is not claimed.  TLC finds the behaviour when
the exception is taken out, the parameter changed or the property stated.

| where | what the code does | what is said | in the model |
|---|---|---|---|
| `operationv2/controller.go:447` | a worker of a former leader creates a task of an operation that is over while the next one runs | design 376: without the lock, and only then, a single correct leader would be a safety premise | `TargetExclusion` needs `SingleLeader`, as a premise of the theorems too |
| `operationv2/controller.go:236` | after a stop in the middle of createAttempts the missing tasks come only after the others have ended, and never if one of those has failed its last attempt | design 499, 654: the new leader fills the gap in every reconcile | not claimed |
| `core/v1/handler.go:395` | the working phase is written before the operation is created; a stop in between leaves the phase for ever | design 452: no atomicity between the two is assumed | `Abandoned` |
| `clustercontroller/controller.go:226` | a failed kubeconfig sync keeps Reconcile from pending operations for ever | line 706: "if no, the operation will be created" | `Abandoned` |
| `models/operationv2/store.go:914` | the purge verifies and then deletes by name; an operation that a retry reopens in between is deleted while it runs | line 100: it "refuses to touch anything while an Operation or Task is still active" | `behind` in `PurgesOnlyChecked`; the stronger property is violated in `ForcedDeletion` |
| `core/v1/handler.go:1311` | a handler that read the cluster earlier creates an operation after the purge has listed the history, or when the cluster is gone | design 773: the history goes before the cluster | `behind` in `OnlyLateOrphans` |
| `core/v1/handler.go:372` | a cluster that is deleted before the controller has given it its finalizer goes at once, and its operations stay | the same | the same |
| `clustercontroller/controller.go:563` | after a conflict on the status the registries are pushed by another operation, or, since the informer's copy has been changed, not noted at all until it is replaced | | `WriteRegistries` allows both; `OutOfPushes` |
| `operationv2/business.go:36` | the outcome of an earlier operation, delivered late, overwrites the phase of a later one | plan `2026-07-26-operation-engine-v2.md:346`: loss of the leader does not change the phase | only that the phase settles is claimed |
| `backupcontroller/controller.go:209` | whether a failed operation was a recovery is decided by the phase of the cluster: while a failed recovery from one backup keeps it in RestoreFailed, another backup, whose creation failed, is written as available | line 207: "when the operation status is failed, set the backup status to error" | `Misjudged`; `Second` is this case |
| `backupcontroller/controller.go:187` | an operation that succeeded without telling size and MD5 makes every pass return an error, and the backup stays "creating", in which it cannot be deleted | the log there: "reconcile again" | `FileUnknown` |
| `backupcontroller/controller.go:209` | after a failed recovery from it, a backup whose own creation failed becomes available too | `backup_types.go:60`: an error backup "must not be used" | `RecoveryOver` |
| `operationv2/controller.go:447` | a worker of a former leader that stopped before a create goes on after its operation was canceled and retried, and creates a task of the generation before beside the one of the retry | design 376, as above | `former_leader` has no retry; the theorems about tasks need `SingleLeader` |
| `backupcontroller/controller.go:167` | a success is taken over only from "creating": a controller that never saw the operation Running leaves the backup without a status | line 166: "when the backup is creating and operation is successful, set the backup status to available" | not claimed |
| `backupcontroller/controller.go:167` | a recovery asked for before the controller saw the backup's operation end relabels the backup, and it stays "creating" | the same line | `Mislabelled` |
| `core/v1/handler.go:1468` | a recovery does not look at the status of its backup | `backup_types.go:60` | not claimed |
| `cronbackupcontroller/controller.go:253` | a busy cluster makes createBackup return nil: the slot is noted as served, and a one-shot backup is done without a backup | the log there: "create backup in next reconcile" | `DueIsServed` says that the slot is dealt with, not that there is a backup |
| `cronbackupcontroller/controller.go:242` | a missing backup point or node fails every pass: the slot is not dealt with, and none after it, until somebody puts that right | | `obstacle` in `DueIsServed` |
| `cronbackupcontroller/controller.go:398` | the phase is set in the informer's copy before the calls; one that fails leaves it there, and the next slots find the cluster busy until the informer replaces the copy | | `CreateOperation` leaves it there |
| `cronbackupcontroller/controller.go:181` | creation times have seconds and the sort is not stable: of two backups of one second either may be taken for the older one | line 180: "sort the backups by creation time" | `TieFrom` in `KeepsNewest` |
| `cronbackupcontroller/controller.go:179` | a backup that a client has deleted and the informer still shows counts: fewer than the number to keep are left | line 172: "keep the backup num within the maxNum" | `Newer` in `KeepsNewest` counts what clients deleted |
| `cronbackupcontroller/controller.go:179` | the retention passes over backups that are not available, and failed ones pile up | line 172: "keep the backup num within the maxNum" | only `KeepsNewest` is claimed |
| `cronbackupcontroller/controller.go:543` | `L` becomes the last day of the present month; the next run is the next date with that number, so short months are left out | `controller_test.go:50`, 106-126 expect the last day of every month | `NoTwoMonthsLeftOut` instead of every month |
| `core/v1/handler.go:1086` | labels are checked that are set after a cluster has been created: two creations get one node | "check if the node is already in use" | `LabelsSettle` allows several clusters that list a node |
| `core/v1/handler.go:263` | a node labelled by another cluster can be added | line 264: "already in use" | the same |
| `core/v1/handler.go:872` | a node is disabled while it is being taken | "only can disable/enable idle node" | not claimed |
| `controller/node_status.go:150` | a node that renews its lease and never got a report through becomes Unknown after the startup grace period, which is as long as the lease interval | line 211: it is assumed healthy | `NoFalseAlarm` is about nodes that have been Ready |
| `k8s/cluster.go:876`, 902 | a restore executed again, after a crash or as the retry of one that met its deadline or could not look up its host, begins by removing the only copy of what was moved aside | design 121, 127, 587: such steps must observe and go on from the actual state | exceptions of `BeforeIsKept` |
| `k8s/cluster.go:1043` | when the move is what failed, the reset removes what was not moved | the log there: "reset to before recovery" | exception of `BeforeIsKept` |
| `k8s/cluster.go:1043` | after a deadline the reset runs in the context that is over, and does nothing | the same | exception of `FailedIsReset` |
| `clustermanage/kubeadm/provider.go:304` | the first import finds no labels and refuses every node as not registered | line 133: "keep cluster consistent in kc and kubeadm" | exception of `KeepsConsistent` |
| `clustermanage/kubeadm/provider.go:235` | a sync writes the members it read and drops a node that was added meanwhile | line 312 | exception of `KeepsConsistent` |
| `clustermanage/kubeadm/provider.go:341` | a node that is being added, or that left and came back after the members were read, is taken for a legacy node and its agent removed | line 318: "in kc but not in kubeadm" | exceptions of `DrainsOnlyLeavers` |
| `clustermanage/kubeadm/provider.go:330` | a machine that joined with kubeadm alone makes every sync fail, after `kcctl join` too, since nothing gives it the label by which it would be found | line 316: "we need deploy kc-agent to it" | `came` in `KeepsConsistent` |
| `dnscontroller/controller.go:66` | nothing is done for a domain that is gone: its records stay | line 67: "need to do the cleanup" | exception of `CorefilesSettle` |
| `dnscontroller/controller.go:117` | a domain that names a cluster that is gone fails for ever | line 121: "cluster is deleted or deleting" | exception of `CorefilesSettle` |
| `dnscontroller/controller.go:77` | the count is changed in the copy before the write; a write that fails is not repeated | `dns.go:49`: "update by informer" | exception of `CountSettles` |
| `dnscontroller/controller.go:94` | of two workers with different domains the one that listed first may write last, and older records come back until the next pass, which may be that of the ten-hour resync | | only that the Corefiles settle is claimed; `Overtaking` is this case |
| `dnscontroller/controller.go:151` | a cluster without a client (being installed, or failed to) ends every pass: the clusters behind it in the list get no records | | `Unconnected` in `CorefilesSettle` |
| `dnscontroller/controller.go:171` | the ports of the service are looked at only behind a Corefile that has changed: an update that fails is not repeated | line 239: "fills in the dns ports" | exception of `PortsSettle` |

### Mutants

Every property of every passing run has a mutant: a changed form of one
definition (`..._OffByOne`, `..._NoGrace`, `..._Overwrites` and so on, kept next
to the definition) under which TLC finds the property violated.

## 4. Theorems

Proved by TLAPS for every value of the constants.

| theorem | premise | conclusion |
|---|---|---|
| `TypeCorrect` | | `Spec => []TypeOK` |
| `LockInvariantHolds` | `SingleLeader` | `Spec => []LockInvariant` |
| `RunningOperationHoldsLock` | `SingleLeader` | `Spec => []RunningHoldsLock` |
| `TargetsAreExclusive` | `SingleLeader`, `ClockSync` | `Spec => []TargetExclusion` |
| `TerminalOperationsAreQuiet` | `SingleLeader`, `ClockSync` | `Spec => []TerminalIsQuiescent` |
| `LockIsReleasedWhenQuiet` | `SingleLeader` | `Spec => LockReleasedWhenQuiet` |
| `OperationsRunInOrder` | `SingleLeader` | `Spec => []RunInCreationOrder` |
| `EngineImplementsTargetQueue` | `SingleLeader`, `ClockSync`, not `SameSecond` | `Spec => ImplementsTargetQueue` |
| `TaskInvariantHolds` | `SingleLeader` | `Spec => []` of the engine's four inductive invariants |
| `StepsFollowOneAnother` | `SingleLeader` | `Spec => []StepBarrier` |
| `AttemptsFollowOneAnother` | `SingleLeader` | `Spec => []AttemptsInSequence` |
| `AttemptsStayInBudget` | `SingleLeader` | `Spec => []AttemptBudget` |
| `VerdictIsTheTruth` | `SingleLeader` | `Spec => []SuccessIffComplete` |
| `FactsStayValid` | `SingleLeader` | `Spec => []InvalidFactsOnlyForMissingOutput` |
| `TasksStayConsistent` | `SingleLeader` | `Spec => []TasksConsistent` |
| `EndedTasksAreNotRerun` (of `AgentWorker`) | | `Spec => []AgentInvariant` |
| `WorkerImplementsContract` (of `AgentWorker`) | | `Spec => ImplementsContract` |
| `PurgeDeletesWhatItChecked` (of `ClusterLifecycle`) | | `Spec => PurgesOnlyChecked` |
| `OnlyLateOperationsOutliveCluster` (of `ClusterLifecycle`) | | `Spec => []ClusterInvariant` |
| `AvailableBackupsWereMade` (of `Backups`) | | `Spec => []BackupInvariant` |
| `SuccessIsFinal` (of `Backups`) | | `Spec => [][OutcomesStay]_vars` |
| `LabelsAreNotStolen` (of `NodeOwnership`) | | `Spec => LabelsNotStolen` |
| `RecoveryLosesNothing` (of `EtcdRestore`) | | `RestoreSpec => []RestoreInvariant` |
| `RecoveryVerdictIsTrue` (of `EtcdRestore`) | | `RestoreSpec => []VerdictIsTrue` |
| `SyncDrainsOnlyLeavers` (of `ImportedCluster`) | | `ImportSpec => DrainsOnlyLeavers` |
| `NodesAreTyped` (of `MCNodes`) | | `TypesOK` always |
| `RetentionKeepsNewest` (of `CronBackups`) | | `Spec => KeepsNewest` |
| `LastDayScheduleRuns` (of `MonthlySchedule`) | | `CalendarSpec => []NoTwoMonthsLeftOut` |
| `CronIsSafe` (of `MCCron`) | | `CronInvariant` always |
| `SilenceIsFound` (of `NodeHealth`) | | `HealthSpec => [](HealthTypeOK /\ SilenceIsDetected)` |
| `RenewedNodeStaysReady` (of `NodeHealth`) | | `HealthSpec => NoFalseAlarm` |
| `PlatformIsHealthy` (of `MCPlatform`) | | `HealthInvariant` always |

Every inductive invariant below was also checked by TLC in the runs' instances
before it was proved.

### The engine

Any operations, targets, nodes and workers, any valid plan, any number of
retries and of faults.

**The lock.**  The argument is the inductive invariant `LockInvariant`.
`RunningHoldsLock` alone is not inductive: it could be broken by a worker that
releases the lock of an operation that has meanwhile been reopened, so the
invariant also says

* no two workers have the same operation (`OneWorkerPerOperation`; the one
  place where `SingleLeader` is used), so the phase a worker read is still the
  phase of its operation (`WorkerKnows`), up to its own write;
* only a terminal operation carries a retry request, and a retry handler's
  pending write can hit only an operation that is still terminal
  (`RetryRevisions`), so the API never moves the phase under a worker;
* unfinished tasks belong to Running operations (`ActiveOnlyWhileRunning`):
  tasks are created only by a worker that knows its operation Running, and the
  terminal status is written only with none left: between the second list and
  the write no one can create one;
* with clocks in step, a command belongs to a Running task of its node, and none
  is left once the grace period is over (`CommandsInStep`).

Exclusion follows: unfinished tasks and commands belong to Running operations,
those hold the lock of their target, and a lock has one holder.  The invariant
is itself checked by `retry_queue`.

**The order.**  That a Running operation has only terminal ones before it is
not inductive either: a worker decides it from a list and writes later, and a
retry reopens an older operation.  `OrderInvariant` adds what the worker may
still believe (`WorkerInOrder`: the creation time it read never changes, its copy
is exact as long as its resourceVersion is current, and from isEarliestRunnable
to the write of Running the older operations stay over) and what holds the
younger ones back while an older one is about to be reopened (`HeldBack`,
`Waits`): at the second look, with the lock in hand, there was none younger, so
what is younger by now is new, and isEarliestRunnable makes it wait for an older
operation with a retry request.

**The queue.**  With this order, exclusion and one command per agent
(`OneCommand`), each step of the engine is mapped to a step of `TargetQueue` or
to a stutter: creating, starting, finishing and reopening are `Submit`, `Begin`,
`End` (`Withdraw` if it never ran) and `Reopen`, the first task of an operation makes it busy, the last end of a task or a
command makes it quiet, and everything else leaves the queue alone.  `SameSecond`
must be FALSE because the code's order is then not the order of creation; the
other two premises are those of exclusion.

**The tasks.**  `TaskInvariant` is about what a worker has read and decided
while agents go on.  A list of tasks that a worker read still names exactly the
tasks there are, and shows truly all that were over then (`ViewCurrent`), since
only the worker of an operation creates its tasks, and agents only end what was
active.  So what it decides from the list is right when it is done: the
tasks it is about to create may be created (`MayCreate`: earlier steps done,
earlier attempts lost, budget left, in its own generation), a verdict other than
success is written only where some node has lost all its attempts (`Stuck`), and
success only where every node has succeeded (`AllDone`).  `Stuck` is what makes
the verdict stable: a cancel request or the deadline that comes with the last
success finds nothing that is stuck.  `Budgeted` counts attempts with
`Cardinality`, so the invariant says that the tasks are finitely many.  The
premise is needed: with a former leader beside the new one TLC finds
`TasksConsistent` violated after a cancel and a retry (section 3), and without a
retry it is `former_leader` that checks it.

### The worker

Any names, any number of tasks and of failures, a cache and a
watch stream that are behind by any amount.  The invariant `WorkerInvariant`
has two parts.  `StoreInvariant`: stored tasks have different UIDs, none newer
than the last one made, and a task that an execution has ended is terminal.
`CopyInvariant`: what the worker is about to start was Pending when it was read,
and of what it executes it has a copy that is Running, and no execution has
given that task an outcome yet.  Nothing is said of the cache, which is the point: the
worker acts on the live read and on conditional writes only.  The refinement
maps each step of the worker to a step of `TaskContract` or to a stutter, action
by action.

### The cluster

Any scenarios: any number of requests of any kind, faults, retries and outages,
at any time.  The purge lists, verifies one operation after the other, deletes
one after the other, and none of that is atomic; handlers create operations and
clients retry them meanwhile, and nothing in the code keeps them from it.  So the
theorems say what a cleanup can answer for.  `behind` holds what was created or
reopened since it listed the history, and what an object without a finalizer left.
`ClusterIInv` has

* `Verified`: what the cleanup has verified and not yet deleted (`Checked`) is over,
  or a retry has reopened it since;
* `Covered`: the lists of a cleanup cover the history, up to `behind`, at each of its
  steps, so that nothing else is left when the finalizer goes.

A step of anyone else either leaves both lists and history alone, or adds to
`behind` what it adds to the history (`Beside`); the cleanup's own steps are
taken one by one.  `VerifyTerminal_Unchecked` and `VerifyTerminal_LeavesOut` are
the mistakes that break the one and the other.

### The backups

Any scenarios, with any backups from before.  The status of a backup is written from the informer's copies of
the backup, of the operation and of the cluster.  The
invariant `BackupIInv` says that what the operation informer shows as over is
over (`SeenIsOver`), that labels name operations on that backup, in the store and in
the cache (`Labelled`), that "available" has a reason, in the store and in the
cache (`Deserved`), and that RestoreFailed, in the store or in the cluster informer,
means a recovery that has failed (`RecoveryFailed`).  The reasons are a success, a
recovery from this backup that is over, and the code's mistake at
`controller.go:209`, which `Misjudged` describes by what must have happened: both the
backup's own operation and some recovery have failed.  That an outcome read long ago is still the outcome rests on
`OutcomesStay`, which is a theorem of its own.

### The restore

Any number of masters, any number of attempts, any set of faults.  `RestoreIInv`
says, for each part of the step, where manifests and data are.  `Restored` is the
way forward and holds with all faults: whatever went wrong before, the part that
restores the snapshot runs in an empty directory and the data that was there is
beside it.  `Secured` is the way back and holds under `Undoable`: no crash, no
failed move or read, and no deadline or failed host lookup that is followed by
another execution.  The case of the host lookup came out of this proof: the
model's exception had missed it, TLC confirmed it, and `BeforeIsKept` now names it.

### The labels

Any nodes, clusters, requests and collisions.  `LabelsAreNotStolen` (of
`NodeOwnership`) rests on `NodesInStep`: a copy that has the store's
resourceVersion has the store's labels, and the labels of cluster and role come
and go together, in the store and in the copy.  The first part survives although
both controllers change the informer's object before a write that may fail:
the copy is outdated then and no later write from it is accepted.  `NodesAreTyped`
adds the types of the cluster lists, the requests and the controllers' passes.

### The imported cluster

Any machines and any scenarios of members, users who add nodes, nodes that leave,
machines that join outside kubeclipper
and failures.  A sync reads kubeadm's members, compares, and removes agents
later, one after the other, while nodes join and leave.  `ImportInvariant` says
what its old list is still good for: it misses only nodes that users are adding
or that came by themselves (`MissesOnlyAdded`), so what is taken for a legacy node has
left or is one of those (`FreesOnlyLeavers`), and the cleanup, which drains every
node, runs only for a provider that is being deleted (`CleansUpDeleted`).  The
exceptions are the disagreement at `provider.go:341`.

### The cron backup

Any number of backups to keep, any scenarios, any number of slots and requests.
The retention decides by a list that may be old in both directions: it can show
backups that an earlier pass or a client has removed and lack the ones made since.
That `Excess` finds enough newer backups in such a list says nothing about the
backups that have not fallen to the retention, until one knows that those which did had enough newer
ones themselves.  `Retention` says so of every backup that it has taken
(`RetiredWereOld`) and of the ones about to go (`VictimsAreOld`).  Both are
kept because the newest `MaxBackupNum` of the list are either spared or, being
taken, have enough newer ones that are; and because the backup that goes has as
many newer ones itself, which are newer than all those before it too.  Where two
backups have the same second, newer is not an order that the sort knows, and the
argument ends there (`TieFrom`).  What clients delete counts as spared.

The calendar is any sequence of months of 28 to 31 days in which one of two
successive months has 31, which is all that the argument needs of ours.
`CalendarInvariant` is about the month of the next run, which is not behind, and
the months before it: no two in a row were left out.  A run fixes the next date
with the number that `L` had in its month.  If the following month is too short
for that, the one after it has 31 days and is long enough.

### The health of a node

Any grace period, startup period and lag of the informers, provided that the
startup period is not longer than the grace period and the lag is shorter.
`SilenceInvariant` bounds how long the last write can be ago, by where it is: the
lease on its way to the monitor, the report on its way, a renewal that the
monitor has yet to take up, and what its clock has counted since.
`LeaseInvariant` is the other side: how far the monitor's clock can be while the
agent renews.  The proof corrected a bound: the exact one is `Grace + Lag + 3`, one
tick for each of lease, probe and pass, whereas the earlier
`Grace + 2 * Lag + 2`, which agrees with it for the run's lag of 1, was too small
for a lag of 0 and too large for longer ones.

### The records

For `DomainSync` only the types are proved (a part of `PlatformIsHealthy`), with
the kinds of passes that a worker can be in.  What the records come to is liveness.  That
a cluster never serves older records again does not hold with two domains, and the
theorem about it is not claimed.

### Assumptions, and what is only model-checked

The assumptions about constants are those of `OperationTypes` (the plan is
valid), `WorkerAssumption`, `RestoreAssumption`, `OwnershipAssumption`,
`ImportAssumption`, `CronAssumption`, `CalendarAssumption`, `HealthAssumption`,
`DomainAssumption`, the `ScenarioAssumption`s and the types of the parameters; TLC
evaluates them in the runs.  `HealthAssumption` is about the code's constants: a
startup period of one minute and a grace period of four, and informers that lag
by less than that; for slower informers a false alarm is possible.  The premises in the table are part of the
theorems.

Every invariant and action property of the passing runs is stated by a theorem.
Only model-checked:

* liveness and everything under fairness, which is out of the prover's reach:
  `EveryOperationSettles`, `LockIsReleased`, `DeletionCompletes`,
  `WorkingPhaseSettles`, `PendingIsStarted`, `TransientSettles`, `GoneWithCluster`,
  `DueIsServed`, `LabelsSettle`, `KeepsConsistent`, `PendingIsExecuted`,
  `DomainsSettle` and `Recovers`;
* everything about a former leader: the theorems about the engine, the types
  apart, have the premise `SingleLeader`.

## 5. Not modelled

* **Templates, manifests and generated code** (`calico_template.go`,
  `metallb/template.go`, deepcopy, clients and informers, swagger): text and
  generated code without decisions.  They are a large share of the repository's
  lines.
* **Steps that run commands on machines** (`kubeadm_step.go`, `kubeadm.go`, CNI,
  CSI, container runtimes): what a command does to a machine is not defined
  here; for the engine it is its outcome.  The restore of etcd is the exception,
  because the step moves data aside and undoes itself.  The renewal of
  certificates (`kubeadm_step.go:815`) follows the same pattern and is the next
  candidate.
* **kcctl** (`pkg/cli`): a sequential client; deployment over ssh.
* **Server glue** (`pkg/server`, registries, `pkg/simple`), REST plumbing,
  listing, paging and sorting, `pkg/query`: no state of their own.
* **Authentication, RBAC, IAM, token expiry, auditing, proxying, terminals**: one
  object and one party at a time.
* **Leader election and informers themselves**: client-go's; modelled by what
  they promise (a former leader that goes on, copies that lag, events that are
  replayed).
* **The manager's cache of clients** for the clusters: a cluster has a client or has
  none.  Which call of `Reconcile` fails in an outage is not told apart, since every
  error ends the pass or leaves a pending operation for the next one.
* Smaller points: the purge's `deleteStaleLocks` and pagination; the etcd health
  check that one healthy endpoint satisfies (`k8s/cluster.go:985`), since a
  master has one endpoint in `EtcdRestore`; two backups for one slot when
  createBackup's last write conflicts (`cronbackupcontroller/controller.go:412`),
  which happens in `cron` and which no document excludes; the node write and the
  cluster write of `AddOrRemoveNodes` (`handler.go:281-295`), one step in
  `NodeOwnership`, since the annotation that the first sets is read by the provider's
  sync only.

## 6. Plan

1. (done) The engine's core, its runs and the lock theorems.
2. (done) What surrounds the engine: cluster, backups, cron backups, nodes,
   imported clusters, domains; the worker in detail and the restore of etcd.
3. (done) Proofs of the engine's safety properties and of its refinement, of the
   cluster's deletion, the backups, the restore of etcd and the labels of nodes.
4. (done) Proofs around the engine: the imported cluster, the cron backup and its
   calendar, the health of a node; theorems about the cluster, the backups and the
   retention that hold whatever clients do meanwhile.
5. What could follow: the renewal of certificates beside the restore of etcd, and
   the engine's tasks under a former leader, as far as `TasksConsistent` goes.
