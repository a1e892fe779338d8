# A TLA+ model of the NIFCLOUD NAS CSI driver

The driver provisions NAS instances of the NIFCLOUD cloud for Kubernetes
PersistentVolumeClaims. This directory holds TLA+ specifications of its parts,
TLC models that check them on small instances, and TLAPS proofs of the
properties that can be proved for every size. Source paths below are relative
to the repository (`pkg/driver/...`).

## 1. Inventory

| component | state | operations | interacts with |
|---|---|---|---|
| controller, volumes (`controller.go`, `shared_utils.go`) | none of its own between calls except the helpers below; local variables of each handler | `CreateVolume`, `DeleteVolume`, informer callbacks `pvAdded`, `pvDeleted`, `doNfsJob` | cloud API, PVs, PVCs, jobs; called by the external provisioner, which repeats failed and timed-out calls |
| controller helpers (`utils.go`) | `InstanceNameHolder` (names being created), `IPAllocator` (pending addresses), two `OperateResourceQueue`s (creating, deleting), all in memory | `SetCreating`/`UnsetCreating`, `GetUnreservedIP`/`ReleaseIP`, `Queue`/`UnsetQueue`/`Show` | shared by all handlers and the informer |
| snapshots (`snapshot.go`) | none | `CreateSnapshot`, `DeleteSnapshot`, `ListSnapshots`, `restoreSnapshot` | restic jobs; called by the snapshotter sidecar and by `CreateVolume` |
| restic jobs (`restic.go`) | jobs and the secret `restic-secrets` in Kubernetes; the restic repository | `doResticJob` and one job builder per restic command | Kubernetes API |
| security group syncer (`securitygroup_syncer.go`) | `hasTask`, `restoreClusterID`, last nodes and last group input | `SyncNasSecurityGroups`, every 30 s by one goroutine | CSINodes, StorageClasses, PVs, cloud API |
| node service (`node.go`) | directories and mounts of the node | `NodePublishVolume`, `NodeUnpublishVolume`, `NodeGetVolumeStats`, registration of the private IP at start | kubelet, mounter |
| configurator (`configurator.go`) | its fields (nodes, zone, network, block), all but the block rewritten by each update | `Init` once per start, `Update` every 300 s: compares CSINodes, storage classes and the snapshot secret with the cloud, chooses a CIDR block, annotates CSINodes, replaces classes and secret | Kubernetes and cloud API, object store; users change the same objects |
| driver, server, identity, `main.go` | wiring | start, logging, capabilities | all of the above |
| cloud client (`pkg/cloud`) | none | thin wrapper of the SDK | cloud API |

What is hard, by component:

* **Volumes.** Every handler is a sequence of calls to stores that other
  handlers, the informer and the cloud change in between. The mutex of a queue
  is locked in one goroutine and unlocked in another: by the informer callback
  for the PV, or by the error path of *any* handler for that PV. Calls time out
  and are repeated while the first one is running; the controller restarts and
  loses its queues; jobs are found by name. The properties: no two handlers on
  one instance, no address given twice, no instance ordered twice, queue and
  mutex consistent, placements serialized, capacity respected, root squash off
  before a volume is handed out, bound volumes have their directory and keep
  their instance, no instance left over, every call returns.
* **Syncer.** One goroutine, but the nodes, the classes and the group change
  while a run is under way, any call may fail, and a run orders at most one
  change. The properties: one change at a time, nothing forgotten when the
  syncer says it is done, instances of a restored cluster moved first,
  convergence.
* **Snapshots.** Handlers share job names and a secret and are not serialized.
  The properties: a handle names a snapshot in the repository until its deletion
  is asked for and none after it is reported; a restored volume is complete;
  secrets and jobs are cleaned up.
* **Configurator.** One goroutine, but a long chain of calls of which each may
  fail, and nodes and users change the objects in between. Nothing is updated in
  place: classes and the secret are deleted and created. The properties: a
  recommended block is free and belongs to the network of its class, a fault
  costs at most one class and never the repository, the cluster ends configured.
* **Node.** No lock at all, and mounts that go on after the kubelet gave up. The
  properties: what the kubelet knows of a path is what is mounted there, as long
  as it waits for its calls; retries succeed.

`PROJECT.json` lists the hazards with their lines and the properties aimed at
each of them.

## 2. Modules

| module | models | lines of state |
|---|---|---|
| `NasCapacity` | `getAllocatedStorage`, `getRequestCapacity`, units | pure operators |
| `VolumeController` | both volume handlers, the helpers, the informer, `doNfsJob` | `call`, `creatingQ`, `deletingQ`, `creatingNames`, `pendingIPs`, `nas`, `job`, `pv`, `released`, `added`, `deleted` |
| `VolumeControllerInv`, `...Proofs`, `...Queues`, `...Shared` | inductive invariants and proofs: names, addresses and root squash; the queues; shared volumes and the life of instances | |
| `ResourceQueue` | what `OperateResourceQueue` promises; abstract | `waiting`, `operating` |
| `SecurityGroupSyncer`, `...Proofs` | `SyncNasSecurityGroups` | run-local variables, the syncer's memory, nodes, classes, the group |
| `SnapshotJobs` | the snapshot handlers and `doResticJob` | `call`, `secrets`, `job`, repository, VolumeSnapshots |
| `SnapshotJobsInv`, `...Proofs` | inductive invariants and proofs | |
| `NodeServer`, `...Proofs` | publish and unpublish | `call`, `dir`, `mounted`, what the kubelet knows |
| `CidrDivs`, `...Proofs` | `divideNet`, `CidrDivs` and its `drop...` methods | pure operators |
| `Configurator`, `...Proofs` | `Init`, `Update`, `configure` and the reads and writes they make, `registerNodePrivateIP` | `pc`, `conf`, `csinode`, `ip`, `class`, `snapClass`, `secret`, `buckets`, `wanted` |
| `MC...` | constants and symmetry for TLC | |

Conventions. A handler is a record `call[c]` with a program counter; a step is
one call to an outside store together with the local computation up to the next
one, because only there another actor can come in. Deferred calls belong to the
step in which the handler returns (`ReleaseHeld`, `CreateError`, `DeleteError`),
except in `doResticJob`, where they are calls to Kubernetes and steps of their
own. External parts (cloud, provisioner, snapshotter, kubelet, job controller,
restic) are modelled as far as the driver depends on them and are marked
`external` in the map. Mutants, i.e. wrong versions of a definition that
a property must detect, stand just before the definition they change.

### VolumeController

`CreateVolume` → `QueueCreate` → `LockCreate` (shared volumes) → `Scan`, `ListNas`,
`PvName`, `Fit`, `Place` (`convertSharedRequest`, slot by slot) → `SetCreating` →
`GetInstance` → `ListIPs`, `GetUnreservedIP` (private LAN) → `CreateInstance` →
`WaitAvailable` → `Refetch` → `ModifyInstance` → `WaitAvailable` → `Refetch` →
`CreateJob`, `RecreateJob`, `PollJob` (mkdir or chmod) → `RestoreSnapshot` →
`CreateOK`. `DeleteVolume` → `DelGet` → `QueueDelete` → `LockDelete` → rm job →
`DelCheck` → `DeleteInstance`. Calls made with the request's context fail once
the provisioner has given up (`CtxWorks`, `CtxFails`); calls made with
`context.TODO()` do not. `StopWaiting` is the timeout of the provisioner,
`Restart` loses all in-memory state and makes the informer report every PV
again. Sizes are in GiB in the models (`GiB = 1`); the arithmetic is that of the
code.

Abstracted: the validation of parameters, `compareNasInstanceWithInput` (the
instances of the model always match), the contents of the CSI messages,
`OperateResourceQueue`'s map as an atomic variable (the unsynchronized map
access is listed as a hazard; the fatal error Go makes of it is a `Restart`).

### ResourceQueue, and what implements it

`OperateResourceQueue` is a map and a mutex that two handlers, their duplicates
and the informer change in an order of their own. `ResourceQueue` says what this
amounts to for a user of the queue: resources wait, one operates at a time, it
was waiting before, and the next one starts only after it has ended; a restart
empties the queue. `VolumeController` instantiates it twice, with

* `waiting`: the volumes whose entry is pending (`Waiting`),
* `operating`: the volume whose entry is operating, or none (`Operating`),

and `QueuesImplemented` states that the creating and the deleting queue both
implement it. It fails if two entries operate, if an entry that waits is lost or
if a queue is handed on from one resource to the next without having ended.

### SecurityGroupSyncer

`Begin` (which checks are due, list the nodes) → `InternalCheck` →
`GetNasSecurityGroup` / `CreateNasSecurityGroup` → `BeginRestore`,
`RepairInstance` → `Edit`. `last` is what the syncer remembers of the nodes and
the group input. The clock is abstracted: any run may be due for any check; that
cloud checks keep being due is part of the fairness. The cloud of the model
accepts an order while another one is being carried out, so that
`OneEditAtATime` is a statement about the syncer and not about the cloud.
Restarts, node changes, zone changes and edits by an operator count against
`MaxChanges`.

### SnapshotJobs

Each handler is at a stage (the restic command) and at a step of `doResticJob`:
`CreateSecret` → `CreateJob` (→ `RecreateJob`) → `PollJob` → `ReadLogs` →
`DeleteJob` → `DeleteSecret`, the last with the handler's own code up to the next
command (`CheckDone`, `BackupDone`, `ListDone`, `RestoreListDone`, `DeleteDone`,
`RestoreDone`, `Fails`). Deletion of a job only marks it; it vanishes later, and until then its
name is taken. A pod starts only while the secret is there. Backups and
restorations run for a while; `ListSnapshots` runs the list job under the name
the other handlers use for theirs (`Listed` are the VolumeSnapshots whose status
the snapshotter asks for); `forget --prune` fails while another command has
the repository. All calls are made with the request's context, so a handler
whose caller gave up has no further effect, its deferred calls included.

### NodeServer

`NodePublishVolume` → `IsDirMounted` → `MkdirAll` → `Mount` → on an error
`UnmountPath` → `Unmount`; `NodeUnpublishVolume` → `UnmountPath` → `Unmount`. A
second mount of the same volume at a path is refused by the kernel. The mounter
ignores the context: a call the kubelet gave up goes on.

### Configurator

`ListTemplates` → `InstallClass` → `InstallSnapshotClass` (`Init`), then an update:
`GetNodeConfigs` → `GetStorageClasses` → `GetSnapshotClasses`; if anything is
missing `ListInstances` or `ListClusters` → `GetPrivateLan` → `ListRdbInstances`,
`DropAddress` → `GetDhcpStatus`, `DropPool` → `DropAddress` → `DetermineCidr` →
`SetNodeConfig` for each node → `ListClasses` → `DeleteClass`, `CreateClass` for
each class → `CheckSecret` → `DeleteSecret` → `CreateSecret` → `CreateBucket`. `pc`
names the next call. A call answers, fails without effect (`CallFails`), or has
its effect and loses its answer (`Goes`); a read of the secret that fails is taken
for a missing secret, as in the code (`misread`). All of these but the first end
the update, which the next one repeats from the start. `Restart` begins with
`Init` again. Nodes join, leave, change their address and register it; users
create and delete classes (`Environment`).

An address of the LAN is its offset from the first one, a division the interval
of its addresses, and the byte-wise `startIP`, `endIP`, `incIP` and `compareIP` are
the arithmetic they carry out. Classes with the same `instanceType` and `shared`
are of one kind (`KindOf`). The loops over listed objects go in any order.
`Reporting` are the nodes whose Kubernetes status shows a private address
(`isPrivate`). Abstracted: `description` and cluster name, the node list and the
CSINode list read at once, snapshot classes with other secrets, the file
uploaded to the bucket, which is part of `CreateBucket`.

## 3. Runs

Passing runs, each with a mutant for every property:

| run | instance | shows |
|---|---|---|
| `shared_errors` | 2 shared volumes of 300 GiB, 2 slots of 500 GiB, 2 goroutines, failing calls | `TypeOK`, `SharedCreatesSerialized`, `SharedCapacityRespected`, `QueuesConsistent`, `QueuesImplemented` |
| `shared_liveness` | 2 shared volumes of 200 GiB on one instance, no faults, fair | `CallsReturn` |
| `one_shared_volume` | 1 shared volume, 3 goroutines, timeouts, restarts | `NamesExclusive`, `ReadyWithoutRootSquash`, `BoundHasSourcePath`, `NoInstanceLeaked` |
| `dedicated_volumes` | 2 dedicated volumes, 2 addresses, every fault | `PendingIPsExclusive`, `NoDuplicateCreate` |
| `syncer_errors` | 3 nodes, 2 zones, 2 instances, 4 changes, errors, restarts | `TypeOK`, `OneEditAtATime`, `DoneMeansGranted`, `RestorationCompletes` |
| `syncer_converges` | 2 nodes, 2 changes, every disturbance, fair | `Converges` |
| `snapshots_taken` | 2 VolumeSnapshots of 2 volumes; a failing call, a slow job, a cancelled call or a restart | `TypeOK`, `LiveHandlesInRepo`, `DeletedIsGone`, `NothingLeftBehind` |
| `snapshots_restored` | the first VolumeSnapshot of a cluster, 1 restored volume, its status listed meanwhile, 1 failing or slow command | `RestoredIsComplete`, `NothingLeftBehind` |
| `node_retries` | 2 paths, 2 goroutines, 3 faults of any kind, the calls for one path may be given up, fair | `TypeOK`, `PatientCallsSafe`, `RetriesSucceed` |
| `configurator` | 2 nodes, 2 installed classes and 1 of a user, LANs of /23, /26 and /27, both clouds, 1 fault of any kind, 1 change by a node or user, fair | `TypeOK`, `RecommendedIsFree`, `LostClassesPaid`, `RepositoryKept`, `EventuallyConfigured` |

Runs that exhibit a disagreement between the code and what the repository says
of it (`findings` in `PROJECT.json` quote the lines):

| run | violated | what happens |
|---|---|---|
| `delete_during_create` | `BoundInstanceKept` | creating and deleting have separate queues |
| `cidr_of_other_cluster` | `CidrOfOwnNetwork` | before a node is registered any Hatoba cluster is taken for the own one; the block of its LAN stays in the classes |

Further configurations that are not part of the regular runs. Each shows by
a counterexample where a property stops to hold, i.e. why a passing run or a
theorem needs the restriction it has:

| configuration (module) | violated | what happens |
|---|---|---|
| `CapacityAfterTimeout` (`MCVolumeController`) | `SharedCapacityRespected` | a repeated `CreateVolume`, refused as a duplicate, unlocks the queue of the call still running: two volumes of 300 GiB end on 500 GiB ("exceeds its capacity", `README.md:210`) |
| `SnapshotShared` (`MCSnapshotJobs`) | `LiveHandlesInRepo` | two VolumeSnapshots of one volume share the name of the backup job and get one restic snapshot; deleting one takes the data of the other (`README.md:338`) |
| `BucketNotCreated` (`MCConfigurator`) | `RepositoryHasBucket` | the secret is created before its bucket; after a failing `CreateBucket` it looks complete and no update tries again |
| `CapacityAfterRestart` (`MCVolumeController`) | `SharedCapacityRespected` | a restart between a reply and its PV lets the next volume be placed on a full instance |
| `CapacityOfBigClass` (`MCVolumeController`) | `SharedCapacityRespected` | a class of 1000 GiB per instance gets 900 GiB |
| `JobNameShared` (`MCVolumeController`) | `BoundHasSourcePath` | mkdir and rm jobs of an instance have one name |
| `GetErrorOnDelete` (`MCVolumeController`) | `InstanceGoesWithLastPV` | any error of the first call counts as "already deleted" |
| `OrphanAfterRestart` (`MCVolumeController`) | `NoInstanceLeaked` | a restart loses the deleting queue |
| `StaleAddressList` (`MCVolumeController`) | `PickedIPUnused` | instances are listed before the allocator is locked |
| `MkdirRetried` (`MCVolumeController`) | `ClaimsBound` | a mkdir done after its poll makes all retries fail |
| `AddressReturns` (`MCSecurityGroupSyncer`) | `DoneMeansGranted` | an address being revoked counts as authorized |
| `RestoreShared` (`MCSnapshotJobs`) | `RestoredIsComplete` | restorations of one snapshot share a job name |
| `PublishTwice` (`MCNodeServer`) | `AllCallsSafe` | a call given up mounts after the unpublish call has returned, or its cleanup unmounts the mount of its repetition |

A remark on `InstanceGoesWithLastPV`: it also fails without errors, with three
shared volumes, through the race of `delete_during_create`.

**Bounds and why they suffice.** The races are between two handlers, so two
volumes and two goroutines show them; the third goroutine of `one_shared_volume`
is a repeated call that meets two earlier ones. Two slots are enough for "this
instance is full, take the next". Random name suffixes are two, so that an
instance and its successor may differ or collide. Faults of the controller and
the syncer are unbounded in number (only the changes of the syncer's world are
bounded); `SnapshotJobs`, `NodeServer` and `Configurator` bound them by `MaxFaults`. Two shared
volumes with timeouts are beyond a full search: the passing runs use timeouts
with one shared volume or with dedicated volumes. The two runs of
`SnapshotJobs` share the fault kinds out between them for the same reason. `Ids` bounds the number of
backups; two allow one repeated backup, in `snapshots_restored` the only backup
is the one that is restored. The configurator is one goroutine, so one fault and
one change between any two calls show what an update does with them; the three
LANs have blocks in use at every border, no free block, and nothing to divide.
What more faults do is in the theorems.

**Deadlock.** The syncer's runs check for deadlock. The other systems really
stop once all claims, snapshots and pods are gone, so their runs do not; that
nothing waits forever is the subject of `CallsReturn` and `RetriesSucceed`.

**Fairness.** Goroutines run (weak fairness of their steps); a Go mutex does not
starve a waiter, so `LockCreate` and `LockDelete` are strongly fair; the informer
delivers; the cloud and the job controller finish what they have begun. The
syncer's loop is `wait.Forever`, and runs that are due for both checks recur
(the windows come once an hour), hence strong fairness of `Begin(TRUE, TRUE)`;
calls to the cloud do not fail for ever. The configurator's goroutine goes on,
`Update` being called by `wait.Forever` (`WF_vars(Step)`); its faults are bounded. The kubelet repeats calls that failed.
`ClaimsBound` in addition assumes that the provisioner keeps calling.

## 4. Proofs

`VolumeControllerProofs` proves, for all sets of volumes, slots, goroutines and
addresses and under every combination of faults: `TypeCorrect`,
`NamesAreExclusive`, `NoInstanceIsCreatedTwice`, `AddressesAreExclusive`,
`QueuesAreConsistent`, `ReadyInstancesLetRootWrite`. The assumptions are
`ConstantsAssumption` (types of the constants) and, for the second half of
`VolumeControllerShared`, `NamesAssumption` (a shared instance, named
`cluster-<uid>-shd...` in `shared_utils.go`, never has the name of a dedicated one,
which is that of its volume). The inductive invariant `IInv`
(`VolumeControllerInv`) consists of

* `CallsWellFormed`: at which points of its code a handler holds a name and an
  address. This is what makes the error path of a handler harmless for others:
  it gives back what *it* holds;
* `HeldNamesExclusive`: what is held is registered and held once;
* `NoDuplicateCreate`: an instance found missing stays missing, because
  instances are created only by the holder of their name;
* `RootSquashOff`: the invariant behind `ReadyWithoutRootSquash`, from the
  moment the modification is ordered;
* `QueuesConsistent`, `PendingIPsExclusive`, `JobsWellFormed`, `TypeOK`.

`SecurityGroupSyncerProofs` proves `SyncerTypeCorrect`, `EditsAreSerialized` (what a
run has fetched can only have advanced when it is used: `GroupAsFetched`),
`DoneIsDone` (if addresses do not return and nobody else edits the group),
`RestorationsComplete` (a run that goes on from the restoration to the edits has
moved every instance, because those no longer in `volumeIDs` are in the right
group: `RepairInv`), and `RestorationComesFirst` (if no call fails, there is no
other way to the edits).

`NodeServerProofs` proves `NodeTypeCorrect`, and `PatientPathsAreSafe`: for any
number of paths, goroutines, failing calls and restarts, what the kubelet knows
of a path is what is mounted there, provided it does not stop waiting for a call
for that path; calls for other paths may be given up. `PublishTwice.cfg` shows
the proviso to be necessary. The inductive invariant adds that such a path has
at most one call, during which the kubelet knows nothing of it
(`OneCallPerPath`), and that a success about to be reported is real.

`VolumeControllerQueues` proves the refinement: `QueuesImplementTheQueue`, i.e.
`Spec => QueuesImplemented` for all volumes, goroutines and faults. `QueuesConsistent`
gives the mapping (at most one entry operates, and then the mutex is locked). In
addition a step of `LockCreate` has to find the entry of its handler *pending*,
which is not clear when entries are removed by name: `WaitersKeepTheirEntry`
proves `WaitersInLine`, that each waiter has a pending entry no other one shares,
because `UnsetQueue` touches operating entries only and a duplicate is refused.

`VolumeControllerShared` proves what the queue is for, and what becomes of the
instances. Each theorem carries the conditions without which a configuration of
section 3 violates the property; they are hypotheses of the theorem, none of
them an assumption of the model.

* `SharedVolumesArePlacedInTurn`: placements are serialized when the provisioner
  waits for its calls (`~Timeouts`) and the controller stays up (`~Restarts`),
  however many calls fail. `SharedCreatesSerialized` is not inductive: the mutex
  is unlocked by whoever calls `UnsetQueue` for the volume whose entry operates,
  so the proof is about who can. `SerialInv` says that a volume has one handler
  at a time, that no handler creates a volume whose PV the informer has seen,
  and that the entry of a volume being placed operates; with `QueuesConsistent`
  (one entry operates) the property follows.
* `SharedInstancesAreNotOverbooked`: under the same conditions, and if an
  instance can be as large as its class promises (`ClassFits`; `CapacityOfBigClass`
  shows a class that does not fit), the volumes on an instance never request
  more than its size. `CapacityInv` follows a number through the search: the PVs
  of the slot are among those the handler counts, the sum used in `Fit` bounds
  what is on the instance, and the room found is still there when the PV is
  created, because nobody else is being placed in between. The sum is a
  recursive function over subsets, and the induction theorems cannot be cited
  with a predicate; instead the sum is shown to be the cardinality of a set of
  units (`TotalCapIs`), by uniqueness of the function with these equations
  (`SumsUnique`: a smallest set on which two of them differ cannot exist).
  `CapacityAfterTimeout` and `CapacityAfterRestart` show that the other two
  conditions are needed.
* `BoundVolumeHasItsPath`: with at most one shared volume (`OneSharedVolume`), and
  failing calls, timeouts and restarts at any point, a bound volume has its
  directory. The calls that were given up go on and share job names with later
  ones, so the invariants speak of all of them: whatever a handler, a PV or a
  job refers to is an instance of its own volume, and nothing of a volume is
  removed before its claim (`FitInv`); a finished job, a handler past its job and
  a PV each stand for a directory that is there (`PathInv`). `JobNameShared` shows
  what happens with two volumes on an instance.
* `NoInstanceIsLeaked`: with at most one shared volume, any number of dedicated
  ones, timeouts and restarts, but no failing cloud call, nothing is left in use
  when all claims are gone. `LeakInv` says that the provisioner awaits one call
  of a volume at a time, that only that one can order an instance, that an
  instance in use is the one in the PV or in the hands of that call, and that a
  deletion that is about to be reported has brought it down. `OrphanAfterRestart`
  and `GetErrorOnDelete` show that both conditions are needed.

`SnapshotJobsProofs` proves, for any VolumeSnapshots, volumes, restorations,
goroutines and faults (`SnapshotJobsInv` has the invariants, each checked with TLC
before it was proved):

* `SnapshotTypeCorrect`, from `IInv`: what the record of a handler says about its
  object, and that an object has one handler. A handle does not change once it
  is there, which is why the snapshot a handler was called with stays the right
  one over all its calls;
* `DeletedSnapshotsAreGone`: a job that forgets a snapshot was created for a
  VolumeSnapshot being deleted, so that its id is not in use by another one,
  and a handler that has seen the job done has seen the snapshot gone
  (`DeleteInv`), even when the job was that of an earlier, given-up call;
* `LiveHandlesAreInTheRepository`, if no two VolumeSnapshots are of one volume
  (`OneRequestPerVolume`; `SnapshotShared` shows the need): every id that may still
  become a handle, from the log of a backup job over the handler that read it to
  the one that looks it up, is a snapshot of the right volume (`MayGet`,
  `BackupInv`);
* `NothingIsLeftBehind`: each secret and each job that is not being deleted
  belongs to a handler whose deferred calls will delete it, although handlers
  share both (`TidyInv`);
* `RestoredVolumesAreComplete`, if in addition no two volumes are restored from
  one snapshot (`OneTargetPerSnapshot`; `RestoreShared` shows the need): nothing
  writes to a volume any more once a handler has seen its job done
  (`RestoreInv`).

`CidrDivsProofs` proves what the operators do for every sequence of divisions:
`dropWithIP` and `dropWithIPRange` leave a subsequence of which no division holds
the address, or meets the range. For the range this needs the divisions to be
disjoint and ordered by address (`Ordered`), since the code cuts *everything
between* the first and the last hit, and the hits are found by their ends:
`newCidrDivsOrdered` and the fact that cutting keeps the order. The provers do
not know powers of two; `PowersAssumption`, which TLC evaluates, says they are
positive for the host bits a LAN can have.

`ConfiguratorProofs` proves `ConfiguratorTypeCorrect`, `RecommendedBlocksAreFree`,
`LostClassesArePaid` and `RepositoryIsKept` for all nodes, classes, LANs, numbers of
faults and changes. Its inductive invariant adds to `TypeOK`

* `LoopsOK`: a loop has left only what it runs through, and one class is being
  replaced at a time;
* `DivsOK`: after each drop, the divisions left are ordered, among those of the LAN, and
  free of everything dropped so far (`FreeOf`, with what the loop has not seen
  taken out);
* `BlocksOK`: the block held, the blocks about to be written and those in classes
  are well chosen. All three are needed as a block moves from one to the next
  over several calls and survives in classes that are replaced later;
* `LossesOK`: the classes lost, *not counting the one being replaced*, are at most
  as many as the faults, and `wanted` is finite;
* `SecretOK`: with a good secret, replacing it has been planned only after one
  fault and is begun only after two.

Only model-checked: all liveness (`EventuallyConfigured`, `CallsReturn`, `ClaimsBound`,
`Converges`, `RetriesSucceed`), which is out of the prover's reach. Every safety
property of a passing run has a theorem; where the theorem has a hypothesis that
the run's instance does not show by itself, the list above names it. The
properties of section 3 that some configuration violates have none, of course.

## 5. Not modelled

* `compareNasInstanceWithInput`, the validation of parameters, passwords,
  message formats: pure functions of strings.
* The lookup of secrets, `checkBucket`'s URL parser, volume statistics: they
  change nothing.
* `driver.go` but for `Run`, `server.go`, `identity.go`, `main.go`: wiring,
  capabilities and logging. `pkg/cloud`: one SDK call per function, I/O only; the
  cloud is modelled as an external part.
* The data race on the map of `OperateResourceQueue`: whether Go's runtime
  notices it and what it does then is not a matter of this code.
* Left-over backups after a repeated `CreateSnapshot`: the model has them, but
  the repository makes no promise about them.

## 6. Plan

1. Proofs: `BoundHasSourcePath` for several shared volumes, if no job is still
   running when the next one of its instance is created; `RestorationComesFirst`
   with failing calls, as far as it holds.
2. Abstract specifications: the life cycle of a claim as the provisioner sees
   it, implemented by `VolumeController` where the findings permit; a set of
   authorized nodes, implemented by `SecurityGroupSyncer`.
3. `NasCapacity` checked against a reference definition, and lemmas about it.
4. `OperateResourceQueue` with the check and the insertion of `Queue` as two
   steps, implementing the atomic queue of `VolumeController` where it does.
