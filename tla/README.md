# Verification of the Huawei CSI driver

TLA+ specifications of the Huawei storage CSI plugins (this repository), the
TLC models that check them and theorems that TLAPS proves. Paths below are
relative to the repository, names of specifications to this directory.

## 1. The system

| Part | Code | State | What makes it hard |
|---|---|---|---|
| Volume-modify controller | `pkg/modify` | VolumeModifyClaims and -Contents with phase, finalizer, annotations; StorageClasses | caches that lag, restarts between calls, lost answers, deletion during any step |
| Storage-backend controller and sidecar | `pkg/storage-backend/controller`, `pkg/sidecar/controller` | StorageBackendClaims and -Contents, finalizers on configmaps and secrets | finalizers across objects, partly failed updates, dropped events |
| Backend cache and pool selection | `csi/backend` | registered backends with their plugins, HyperMetro links, free capacity | load-modify-store without a lock |
| CSI controller service and volume flows | `csi/driver`, `csi/backend/plugin`, `storage/*/volume` with `utils/flow` | LUNs, file systems, pairs, policies on the array | failure in the middle, revert, repetition |
| Attach and detach | `storage/*/attacher`, `connector/host` | hosts, groups, mappings, clients of shares; the secret with the nodes' data | objects shared by volumes and nodes, calls that outlive their caller |
| CSI node service and connectors | `csi/driver`, `csi/manage`, `connector` | sessions, devices, multipath maps, mounts, lock files | host LUN ids and device names that are used again, time-outs against late holders |
| REST clients | `storage/oceanstorage/base`, `storage/*/client` | session token, mutex, semaphores | re-login next to other requests |

How they meet: a StorageBackendClaim becomes a content, the sidecar registers it
at the driver, which keeps a plugin for it in the backend cache. CreateVolume
selects a pool from that cache and runs a flow of tasks against the array through
a REST client. The attacher publishes the volume to a host of the array, the node
plugin finds its device and mounts it. A VolumeModifyClaim makes one content per
volume, for which the controller calls the provider's `ModifyVolume`; then it
replaces the StorageClass.

`PROJECT.json` has every component with its status, the lines every definition
stands for, and the hazards of the code at the lines where they bite.

## 2. The modules

### Volume modification

| Module | Models |
|---|---|
| `StorageClassReplace` | `replaceStorageClass` of `claim_worker.go`: backup, delete, re-create, delete backup, for several claims on one class |
| `ModifyContent` | `content_worker.go`: one worker per VolumeModifyContent, with the claim side as environment |
| `VolumeModify` | `claim_worker.go` composed with instances of the other two |
| `StorageClassReplaceProofs`, `ModifyContentProofs`, `ModifyContentPhases`, `VolumeModifyProofs` | theorems and proofs |

*API server.* Objects are records with a version `rv`. A write is accepted only
from a copy of the current version; an object with a deletion mark disappears
with its finalizer. Every API call of a worker is a step of its own.
*Informers.* Versions that the server has stored and the informer has not
delivered are in `undelivered` (`claimUndelivered`) and reach the cache
(`lister`, `claimLister`) in order. Workers read the caches only.
*Workers.* `pc` is the next function (or call) of the worker, `copy` the object
it holds. The list of functions in `initContentFunctions` / `initSyncFunctions`
is `NextStep` / `SyncStep`: the first function that has something to do for the
object at hand. The work queue never gives one key to two workers, so there is
one process per content and one for the claim.
*Array.* `metro` says that a volume is in HyperMetro, `label` that its
VolumeAttachment carries the rescan label, `san` that the class is for LUNs.
*Failures.* `CallFails` lets any call fail with or without its effect. `Restart`
ends the process at any step; its successor lists everything anew. A nil
dereference ends the process too and is recorded in `panicked`.

### Provisioning

`Calls` is the common base. An array is a function from the keys `<<site, kind,
name>>` of the objects that exist to records. A piece of driver code is the *set
of its outcomes* on an array: an answer, an error or the death of the process,
each with the array it leaves; a request may fail before or after the array has
carried it out. `Then` puts two pieces in sequence, `OnErr` and `Ignore` are the
code's error handling.

| Module | Models |
|---|---|
| `OceanstorArray`, `FusionArray`, `ASeriesArray` | the REST requests of the clients, as the code in `storage/*/client` makes and reads them |
| `OceanstorVolume`, `OceanstorSan`, `OceanstorNas`, `OceanstorDtree` | `storage/oceanstorage/oceanstor/volume`: tasks of create, clone, restore, expand, delete, snapshots, HyperMetro, QoS |
| `FusionSan`, `FusionNas`, `FusionDtree` | `storage/fusionstorage/volume` |
| `ASeriesNas`, `ASeriesDtree`, `OceanDisk`, `DmeASeries` | `storage/oceanstorage/aseries`, `storage/oceanstorage/oceandisk`, `storage/dme/aseries`, with DME's tasks that go on after the driver has given up on them |
| `Provision` | the CSI controller calls, `utils/flow` (run a task, revert the finished ones in reverse order) and what the orchestrator knows: the volume `pv`, the snapshot `vs`. Three sidecars (provisioner, resizer, snapshotter) make calls, repeat those that ended with an error or a restart, and may forget a volume |

### Publication

A call is a list of requests still to make (`todo`); every request is a step, so
calls of different volumes and nodes interleave between any two of them.

| Module | Models |
|---|---|
| `HostMapping` | hosts, initiators, groups and mappings of OceanStor LUNs (`oceanstor/attacher` for the V6 and the older generations, HyperMetro) |
| `NamespaceMapping` | the same for OceanDisk namespaces |
| `FusionMapping` | FusionStorage hosts (iSCSI) and volume attachments (SCSI) |
| `NasAccess` | the node's addresses as clients of a share |
| `Publish` | ControllerPublishVolume and -UnpublishVolume over these, the two sites and their online flags, calls the attacher no longer waits for, and the nodes that write their data into one secret |

### The node

| Module | Models |
|---|---|
| `NodeDevices` | SCSI and NVMe devices, dm-multipath, UltraPath and native multipath: discovery, identification, residual paths, resize, removal (`connector/connector_utils.go` and the tools it runs) |
| `Connectors` | connect and disconnect of iSCSI, FC, RoCE, FC-NVMe, SCSI, NFS, with lock files and semaphores (`connector/utils/lock`); mounts, formatting, resizing of file systems (`connector/utils`, `connector/nfs`) |
| `NodeService` | NodeStage, Publish, Expand, Unpublish, Unstage over these, the orchestrator that repeats them, calls that go on after their time-out, reboots |

### Sessions

`RestSession` models one client of each kind (OceanStor, base, FusionStorage,
DME): building a request under the re-login mutex, the request and device
semaphores, the answer or its loss, `NeedReLogin`, logout and login, the safe
call that checks the logical port. Sessions expire and the logical port moves.
Theorems and proofs: `RestSessionPrograms` (the invariant, and what the sequences
of steps keep when steps are dropped or put in front), `RestSessionSteps` and
`RestSessionProofs`.

### Backends

| Module | Models |
|---|---|
| `StorageBackend` | claims, contents, secrets and configmaps; the claim controller, the sidecar and the driver's provider service, with informers, in-place changes of cached objects, version conflicts, failed calls and restarts of each |
| `PoolSelection` | the filters and weights of pool selection (`csi/backend/backend.go`) as operators; selections of requests next to registration, removal and status updates of the backends in the cache (`csi/backend/handler`). A backend is registered by the start-up job and by any caller that does not find it in the cache, possibly at the same time |
| `PoolSelectionProofs` | theorems and proofs |

Modules `MC*` are the instances for TLC. Operators whose comment begins with
"Faulty" are mistakes the code does not make; the mutation check puts
each in place of the definition below it to show that a property notices.

## 3. The runs

All passing runs allow the system to stop (a volume that is bound stays so), so
deadlock is not checked; that nothing gets stuck is stated by the liveness
properties and by the `NeverWedged` invariants, which search from every state of
rest for a continuation of the repeated call that succeeds.

| Run | Instance | States | Shows |
|---|---|---|---|
| `class_replace` | two claims, two keys, unlimited failures and restarts | 1,045 | `BackupIsFromBefore`: a backup is never made of the changed class. `SourceRemovedOnlyWithBackup`: the source class is removed only with a backup in place |
| `content` | one volume, LUN or file system, one fault, contents created again up to version 4, fair | 262,060 | `ModifyProtected`: no modification without the finalizer. `RemovedAfterRollback`: a content in Rollback goes only when undone. `PhaseNeverRegresses`: the phase of a file system's content never goes back. `DeletedGoesAway`, `CreatedIsCompleted`: deleted contents go away, others are completed. `TypeOK` |
| `modify` | two volumes, current caches, one fault or restart | 640,322 | `CreateProtected`: contents are created only under the claim's finalizer. `ReplacedWhenCountedAreModified`: the class is replaced only when the volumes of the contents the worker counted are modified. `ReplacementImplemented`, `ContentsImplemented`: refinement of `StorageClassReplace` and `ModifyContent` |
| `modify_live` | one volume, caches that lag as they like, no fault, fair | 395,410 | `ReplacedWhenCountedAreModified` with stale caches. `DeletedContentsGoFirst`: a claim goes after the contents it deleted. `RollbackUndoesAll`: a rolled-back claim leaves its volumes local, but for contents its cache never showed. `ClaimCompletes`. `DeletedClaimGoesAway`: nothing but such a content keeps a deleted claim |
| `provision` | 24 requests over ten families, every task failing, losing its answer or dying | 500,867 | `BoundIsComplete`: a bound volume is complete and a ready snapshot is one of the volume. `GoneIsClean`: a deleted one left nothing on its array. `NeverWedged`: the repeated call can succeed. `SitesAgree`: both sites have one size. `SourceIntact`: copies leave their source alone |
| `publish` | 16 scenarios with two attachments | 569,625 | `PublishedIsMapped`: a published volume stays mapped with the right settings. `UnpublishedIsUnmapped`: an unpublished one is not exposed. `NeverWedged` |
| `node` | 26 configurations with one or two volumes, mounted or block | 1,940,600 | `StagedIsItsLun`: a pod sees its own LUN. `UnstagedIsClean`: unstaging leaves no mount and no device. `DataKept`: nothing formats or removes data. `ExpandedIsUsable`: an answered expansion is there. `NeverWedged`. Their named exceptions are in section 5 |
| `session` | 22 clients, one or two goroutines, up to two faults, fair | 272,174 | `RequestOfOneLogin`, `ResentOnlyWhenUnanswered`, `CallsEnd` |
| `backend` | eight scenarios with one or two claims | 603,528 | `StatusIsApplied`: the status is that of the right plugin and secret. `BoundClaimTakesContent`: a claim takes its content along |
| `backend_live` | four scenarios, fair | 28,074 | `ClaimIsServed`: claims end up bound and served. `DeletionCompletes`: deleted ones go with their content |
| `select` | two backends at rest with every kind of request, coming up, going offline, removed, and registered by two goroutines at once, fair | 208,290 | `SelectedServes`: a selected pool serves the request. `QuietSelectionIsBest`: it is the best, if nothing runs next to it. `PairsAreLinked`: partners get linked |
| `class_lost` | one claim | violation | see section 5 |

### Bounds

- `content`: at version 4 a content can be created again under its name while a
  worker still holds the first one. The safety properties hold for every bound
  (section 4). To be rolled back and created again a content takes more versions;
  the two liveness properties were also checked with `MaxVersion = 10` and
  `MaxFaults = 0` (446,204 states). One volume is enough, because workers share nothing but the
  claim's view; two are needed for the loops of the claim worker. One fault covers
  each failed call and each restart at every step.
- `modify` and `modify_live` share the work: two volumes with a fault and current
  caches (`Lag = FALSE`), one volume with caches that lag and no fault. Both at once
  is too large for two volumes. The theorems about `VolumeModify` are for any lag,
  faults and volumes; what holds on one side only is in section 5. `counted` of
  `MCVolumeModify` is a history variable: the contents that `waitClaimCompleted`
  found in its cache when it let the replacement go on.
- `provision`: sizes 1 and 2, two clients (DME: users) of a share, of which DME may
  know only one, two names for QoS policies
  (`PolicyNames`) and for temporary snapshots, one DME task left behind. Failures
  and repetitions are not bounded. One volume is enough since flows find objects
  under the volume's name only; the three sidecars work on it concurrently.
- `publish`: two volumes of one node or two nodes of one volume, which share a
  host, groups and a mapping; one late call per attachment; `MaxConflicts` is the
  code's number of retries.
- `node`: two paths, six device names, at most two stacked bind mounts, one late
  call per volume, two volumes (mounted and block) where a host LUN id is used
  again. Overlapping calls of one volume are followed to the end. `Followed` stops
  where a call has taken the device or the session of another volume (`cut`), which
  every property names as an exception.
- `session`: `Parallel` and `StoragePermits` are 1, so that the limits the code
  sets at up to 30 and 100 are reached; one or two faults, at most `MaxLogins`
  logins, at most two calls of a goroutine.
- `backend`: a scenario has budgets of creations, edits, deletions, failed calls,
  restarts and losses of login; two names, two secrets; `MaxClears` bounds how
  often a deleted content is registered anew.
- `select`: budgets of removals and losses of login; up to three requests; one caller
  that registers a backend next to the start-up job, without requests.

### Fairness

Weak fairness of the workers of the controllers (a failed or waiting sync is put
back with `AddRateLimited` or `AddAfter`, and the informers resync), of the
delivery by informers, of the node's handling of a labelled attachment, of a
goroutine that can go on (a request ends at the latest with the time-out of the
HTTP client), and of a driver that starts. Faults and users are not fair.

### Assumptions

What the driver calls is modelled from how the driver uses it.

- *Arrays.* A LUN or file system that is in a policy, has a share, a pair, a
  snapshot, a clone or a copy is not deleted (FusionStorage: policy, snapshot,
  share, quota). A volume in a running pair is not extended, a running pair not
  deleted. OceanStor refuses a second policy of an object, OceanDisk does not.
  Deleting a dtree deletes its quota. The creation of a pair does not compare
  sizes. An initiator of another host is refused. Names do not collide when they
  are cut. A volume that is attached exists. The array gives the smallest free
  host LUN id.
- *Node.* Scans leave existing SCSI devices alone, NVMe rescans drop namespaces
  that changed. Links by id and dm maps have the WWN of the discovery; multipathd
  reads the identity when it takes a path in; UltraPath fails paths whose LUN
  differs. The kernel refuses one file system twice on one mount point and stacks
  bind mounts. mkfs refuses a disk in use. A map is as large as its smallest path.
  Names of devices are not reused while mounted.
- *Sessions.* A session is known to the array that issued it. A device's semaphore
  is registered together with its id. Go's fatal error on concurrent map writes is
  left out.
- *Kubernetes.* Status and spec of an object have one version. A failed call of
  the backend controllers has no effect. The webhook admits a backend claim only
  while its configmap and secret exist. In `backend` the sidecar's informer is
  prompt and the controller's lags only where the scenario says so.

### Steps

A task of a flow is one step next to other sidecars in `Provision`, a request is
one in `Publish`, a command or a look at the host in the node modules, a request or
a lock in `RestSession`, an API call or RPC in `StorageBackend`, a load or store
of the cache in `PoolSelection`. Merged into one step: the look-ups of FC ports, the
two online flags, the login of one portal, GET and write of `clearContentStatus`,
fetch, registration and re-login of `UpdateStorageBackend`, the filters of one
side of a selection, and reads of one loop over a cache.

## 4. What is proved

For every number of volumes, claims, goroutines, backends and requests, all
parameters, any number of faults and any lag of the caches:

| Theorem | Module | Statement |
|---|---|---|
| `ReplaceTypeCorrect` | `StorageClassReplaceProofs` | `StorageClassReplace` keeps its types |
| `BackupsAreFromBefore` | `StorageClassReplaceProofs` | a backup never holds the merged parameters of its claim |
| `SourceRemovalIsSafe` | `StorageClassReplaceProofs` | no step removes the source class without a backup |
| `ContentTypeCorrect` | `ModifyContentProofs` | `ModifyContent` keeps its types |
| `ModificationIsProtected` | `ModifyContentProofs` | a worker modifies, stages or records only while its content exists with the finalizer |
| `PhasesNeverRegress` | `ModifyContentPhases` | the phase of a file system's content never goes back |
| `RollbackPrecedesRemoval` | `ModifyContentPhases` | a content in phase Rollback disappears only with its volume out of HyperMetro |
| `CreationIsProtected` | `VolumeModifyProofs` | the claim worker creates contents and records parameters only while the claim exists with the finalizer |
| `ControllerImplementsContents` | `VolumeModifyProofs` | the composed controller implements `ModifyContent` |
| `ControllerImplementsReplacement` | `VolumeModifyProofs` | the composed controller implements `StorageClassReplace` |
| `RequestsAreOfOneLogin` | `RestSessionProofs` | a request carries device id and token of one login |
| `ResendsAreUnanswered` | `RestSessionProofs` | the array carries a call out twice only when the first answer was lost |
| `SelectionServes` | `PoolSelectionProofs` | the pools a request is given serve it, and are of two paired backends |
| `QuietSelectionsAreBest` | `PoolSelectionProofs` | a selection that nothing runs next to takes the best serving pool, and is refused only when there is none or in the two named cases |

*Assumptions.* `ReplaceAssumption` (parameter maps have their types and the
marks for "unset" and "no class" differ from them) and `ContentAssumption`
(bounds are natural numbers), which TLC evaluates in the runs. The theorems about
`VolumeModify` need none. `RestSession` has `SessionBounds` (at least one permit and
one login) and `ClientsAssumption` (a client is one of the four kinds and its
goroutines make the calls the module knows). `PoolSelection` has
`ScenariosAssumption`: a backend is configured with a storage a plugin is registered
for and with one of the driver's protocols, the backends that are up are configured
ones, callers register configured backends, a backend has finitely many pools and at
least one, and capacities and sizes are integers. The first is needed: `oceanstor-9000`
passes `filterByAllocType` whatever it can do, and no plugin is registered for it.

*StorageClassReplace.* A removal of the source class is safe because the worker
that makes it has its backup, which is not visible in the state of that step
alone. `IInv` therefore adds to the types and to `BackupIsFromBefore` what a
worker in the middle of the sequence knows (`WorkerInv`): the class it read was
found under the source's name or its own backup's and lacks the claim's change,
and from `deleteSource` to `deleteBackup` its backup exists. The last holds
whatever other claims do, because no other worker touches that name. It is also
what stops `createNew` from overwriting a backup with the merged parameters.

*ModifyContent.* `ModifyProtected` is not inductive: the worker goes on from a
cached object, so what is true of the server must follow from what the cache
shows. `IInv` says of the server's object, the undelivered versions and the
cached one (`Cached`) that every version with a finalizer and no deletion mark
vouches for the server's object still having the finalizer, and that after a
version with a deletion mark every protected version has it too. `Holding` says
what each step of the worker may rely on. The finalizer is removed only by the
worker itself, in its delete steps, and by then no version that vouches for the
content is left. The proof has one lemma for storing a new version, one for
delivering one and one per kind of step; TLC checked `IInv` before it was proved.

*Phases.* Neither action property follows from `IInv`: a sync may write a phase it
decided on long ago. `PInv` adds for each volume what the phases in flight say
(`Paced`): a worker that modifies started from Creating or Staging and the server's
content is not in Rollback, and once it is, every version still to be read that has
the finalizer has the deletion mark too, so no sync starts to modify again. `Fated`
is about the end: whoever is to roll a content back, from whatever version, finds it
still there to be rolled back, or gone with the volume out of HyperMetro and not
worked on since. That second case is a content created again under its old name, to
which the retry of `updateStatusWithRetry` writes the old one's phase Rollback: the
properties hold of it too, but it stays in Rollback, and `CreatedIsCompleted` names
this exception. TLC checked `PInv` with `MaxVersion` up to 12.

*VolumeModify.* The argument for the claim is the same one (`Cached`, `Holding`
of `VolumeModifyProofs`), with more steps between the first read and the last
write: `createContents` reads the claim anew for every volume, so the invariant
ties the worker's copy, the cache and the server together at each of them. The
two refinements need no invariant: each action of the claim worker is a user's
action of `ModifyContent` on one content, or a step of `StorageClassReplace` for
its one claim, or leaves the state of the component alone. With them the theorems
about the components hold of the whole controller.

*RestSession.* What a goroutine does next is a sequence of steps: a step drops some
and puts others in front (ReLogin, Login, a resend). `IInv` says of each sequence
which step may stand before which (`Stack`): nothing of ReLogin's section comes after
the unlock or after a call, a login's evaluation comes after a login of its own, one
request of the call is ahead and the decision to resend is last. Each clause survives
dropping a prefix and putting in front what the code puts there; that is most of the
proof. With it the section is exclusive (`Exclusive`), so the client's device id and
token are of one login except between the two assignments of that section (`Paired`),
where no request can be built; and the number of times a request was carried out is
bounded by what is still ahead of it (`Counted`).

*PoolSelection.* The cache holds copies, and every goroutine goes on with the copies
it loaded, so the invariant is about copies: each is of a build of the backend under
whose name it is going to be stored, and linked to a build of that backend's
configured partner (`CopyFits`), in the cache, in the hands of a registration
(`RegFits`, with the list it links from and the pairs it has yet to link) and of a
change of status (`OffFits`). Builds are only added and keep their backend (`Grown`),
so whatever was loaded stays fitting however stale it is. A selection (`SelFits`)
carries what its filters left: pools whose backend serves the request by its
configuration, which no other goroutine changes. The links may be stale and capacity
may be taken by others meanwhile, which is why `SelectionServes` speaks of neither.
`QuietSelectionsAreBest` is about the other extreme: if all backends are up and nothing
removes, refreshes or takes them offline, the cache stays at rest (`AtRest`), whatever
registrations find in it, and `QuietInv` says how far the one selection has got
(`QuietFits`): the filters leave exactly the pools of `Seen`, in both directions, and
the weighing takes the largest of them. The lemmas on the filters state both directions
for every set of backends. TLC checked the invariants on the states of `select`.

*Only model-checked.* Liveness, which this prover does not reach; everything that
is built on recursive operators and the outcome sets of `Calls` (provisioning,
publication, the node); the storage backends (`StatusIsApplied`,
`BoundClaimTakesContent`) and `PairsAreLinked`, which is a liveness property;
`ReplacedWhenCountedAreModified`, `DeletedContentsGoFirst` and `RollbackUndoesAll`.

## 5. What does not hold

`class_lost` must find a violation: started again after the source class was
deleted, the worker takes the backup, re-creates it under the backup's name and
deletes it, and no class is left. The quoted comment is in `findings`.

### Further disagreements with documentation and comments

Each is a property of the module, violated when it is put into the configuration
with the given constants.

| Property | Constants | The code | against |
|---|---|---|---|
| `DoneIsReplaced` | `MCStorageClassReplace.cfg` | `AlreadyExists` is taken as success, so a second claim's parameters are lost | `volume-modification/spec.md:65`: re-created with the merged parameters |
| `RollbackPolicyHonoured` | `MCModifyContent.cfg`, `MaxFaults = 2` | a content deleted in Creating loses its finalizer without a rollback although the volume may be modified | `spec.md:93`: a Creating content is rolled back |
| `RefusedRetryIsUndone` | `MCModifyContent.cfg` | a refused retry returns no content and the next line dereferences it | `content_worker.go:277`: the change is rolled back |
| `CompletedIsStaged` | `MCModifyContent.cfg` | the rescan label is read from a stale cache | `content_worker_test.go:295`: Staging while a scan is unfinished |
| `ClaimOutlivesContents` | `MCVolumeModifyLive.cfg` | `waitClaimDelete` lists a cache that does not show the contents yet and lets the claim go (`claim_worker.go:656`) | `spec.md:37`, `:45`: the claim goes after its contents |
| `ReplacedOnlyWhenCompleted` | `MCVolumeModifyLive.cfg` | a content that is not cached or is gone counts as completed (`claim_worker.go:282`) | `spec.md:8`, `:33`: replaced when all contents are Completed |
| `ReplacedOnlyWhenModified` | `MCVolumeModify.cfg` | a claim deleted during `createContents` replaces the class without the volumes that got no content | `spec.md:8`: after all modifications |
| `LockIsExclusive` | `MCNode.cfg`, `Nodes <- LockNodes` | a waiter that times out deletes the holder's lock file (`lock_utils.go:143`) | `csi-node-unstage-volume/spec.md:38`: operations of one WWN exclude each other |
| `RestagedFromItsSource` | `MCNode.cfg`, `Nodes <- BlockNodes` | staging a block volume again accepts any existing bind mount (`mount.go:116`), after reuse of a host LUN id one of another LUN | `csi-node-stage-volume/spec.md:110`: success if mounted from the right source |
| `SafeAtHome` | `MCSession.cfg`, `Clients <- SafeClients` | between the check and the request the logical port moves | `oceanstor/client/client.go:287`: checked before invoking |
| `ReplacesItsOwnSession` | `MCSession.cfg`, `Clients <- ReloginClients` | the old token is read when the re-login starts, so a fresh session is logged out | `fusionstorage/client/client.go:412`: prevents repeated re-login |
| `UsedSecretIsProtected` | `MCBackend.cfg`, `Scenarios <- MCProtectScenarios` | the sync after the one that added them removes the finalizers of configmap and secret, used or not | `pkg/utils/utils.go:48` |
| `EditReachesContent` | `MCBackendLive.cfg`, `Scenarios <- MCEditScenarios` | the claim's status takes the new settings before the content is written; after a conflict nothing is left to do | `sidecar_controller.go:434` |

### Volume modification, with other constants

- With `Lag = TRUE` `deleteContent` (`claim_worker.go:527`) lists a cache without some
  contents, moves the phase on and never deletes them; the claim waits for them for
  ever. `DeletedClaimGoesAway` names this state (`HeldByMissed`) and excludes every
  other. With one restart it fails because the class is lost and `deleteContent`
  (`claim_worker.go:532`) needs it.
- `ReplacedWhenCountedAreModified` fails with `Lag = TRUE` and one fault: the failed
  write of a status that is already Completed triggers the undo
  (`content_worker.go:280`), and the content stays Completed. A claim that is being
  deleted is its exception: the class can be replaced while contents are rolled back.
- `RollbackUndoesAll` fails with one fault: a content deleted in Creating goes without
  a rollback (`RollbackPolicyHonoured`).
- A content that was counted as Completed may be in Staging again when the class is
  replaced (its volume is modified all the same).
- `panicked` becomes true in `ModifyContent` when the claim is gone from the
  cache before its contents (`content_worker.go:90`).
- The answer to the last attempt at writing Completed is lost: the rollback
  (`content_worker.go:280`) then undoes the volume of a content that is Completed.
- The phase of a LUN's content can go back from Completed to Staging by a sync
  that began with a stale copy; it is completed again.
- A rolled-back claim goes away in phase Rollback; the documentation lets it pass
  through Deleting.

### Provisioning: the exceptions the properties name

- `Trapped`: creations that, broken off, no repetition completes: an OceanStor dtree
  (`dtree.go:216`) and a KV store are created without a look-up; a larger clone stays
  too small (`san.go:538`); an unsynchronised clone pair and an unsplit clone are
  waited for; a second HyperMetro pair of a file system is refused.
- `CloneAsFound`: the clone of a file system found under its name is returned
  without share or policy. A LUN broken off between its creation and the copy is
  answered as a complete clone, empty (what a volume holds is left out of
  `BoundIsComplete`).
- Users of a DataTurbo share that DME does not know are skipped, and the creation
  fails only if none is known (`creator.go:168`): the volume is bound with those it
  knows, and `BoundIsComplete` asks for no others.
- `Swallowed`: the error of deleting an A-series file system is assigned to a
  shadowed variable (`controller.go:94`).
- A deletion broken off after the HyperMetro pair went leaves the remote half
  (`san.go:212`); `GoneIsClean` is of the backend's own array.
- Before V6, deleting a volume whose LUN copy was broken off deletes the user's
  snapshot (`san.go:890`).
- A task of DME that goes on after its time-out can undo an answered call.
- An expansion next to a modification to HyperMetro leaves halves of two sizes.

### Publication

- The online flags are read again after the choice of the clients: a nil client
  panics, the panic is recovered and the call is answered with an empty response
  (`va.st = "assumed"`).
- Unpublishing while a site is offline unmaps the other one only.
- For NVMe and FC-NVMe the targets of the remote site are dropped from the answer
  (`mergeMappingInfo`).
- A call the attacher gave up on can undo a later one (`raced`).
- A paused HyperMetro pair is only logged as a warning (`oceanstor_san.go:279`), while
  `csi-controller-publish-volume/spec.md:94` has the publication refused.

### The node

The exceptions the properties name, each reached in the run:

- `assumed`: a staging that panicked (`iscsi_helper.go:550`) was answered with success;
  the pod is given a plain directory of the node (`PublishedIsNoDirectory` of
  `NodeService` is violated).
- `kept`: a block volume that is staged again accepts the bind mount that is there
  (`mount.go:133`), after reuse of a host LUN id one of another LUN.
- `cut`: a call of one volume took the device or session of another one, by a link that
  still has the old WWN or by logging a session out (`iscsi_helper.go:877`). A name that
  is used again can then even be formatted or mounted as the other volume.
- `raced`: two calls of one volume overlap after a time-out. A late unstage removes a
  device that was just mounted; a mount between `Unmount` and `RemoveAll`
  (`nfs_helper.go:323`) loses the volume's files; a disk found blank is formatted late.
  `DataKept` says that nothing but this and `cut` loses data.
- `Manual`: states left to an administrator, such as a mount whose device shows another
  LUN; `Ambiguous`: several devices of one WWN, which a block volume's unstaging refuses
  (`connector_utils.go:251`).

An unstage that finds no WWN succeeds and leaves the mount and the device
(`san_manager.go:101`).

### Sessions, backends and selection

- Acquire and release of the device semaphore look it up by a serial number that
  a re-login changes (`client_restful.go:166`): with two goroutines permits go back
  to another semaphore. `CallsEnd` is of clients with one semaphore.
- Objects of a lister are changed in place (`claim_sync.go:542`): one failed call of
  the controller leaves the phase or the finalizer in its memory only.
- A claim deleted before it has its finalizer leaves its content.
- A removed backend comes back when a status update or a link was under way
  (`backend_cache_wrapper.go:95`). An entry that has a link is never linked again
  (`:104`): if a backend was built twice, by two registrations at once or after a
  removal, its partner can stay linked to the build that was replaced. `PairsAreLinked`
  names this exception (`Rebuilt`) and holds in every other case.
- Two concurrent thick requests can take the same free capacity.
- `addProtocolTopology` gives every backend a topology, so one without zones is
  overlooked by any request for a zone (`Overlooked`), against
  `csi-controller-create-volume/spec.md:334`, `:440` and the comment at
  `backend.go:744`. A HyperMetro request is refused when a serving pool is paired with
  a backend that does not serve it, where `spec.md:417` gives the local pool alone.
  `QuietSelectionIsBest` names the two and excludes others.

### Further properties that hold

They are defined next to the others and hold on the instances of the runs; one line
of the configuration checks them: `TypeOK` of every module, `NoPanic` (`modify`),
`RegisteredIsKnown` (`publish`: nodes that write one secret at the same time),
`PermitsReturned`, `OneFaultHidden` and `ResentAtHome` (`session`),
`NotOvercommitted` (`select`).

## 6. Not modelled

- `pkg/modify/va_controller.go` beyond its effect on a labelled attachment (its queue).
- Removal of stale devices when the node plugin starts, which uses the modelled
  removal of unstaging.
- `utils/concurrent` group: the sharing of a login's result.
- Start-up and options, leader election (client-go's), the oceanctl command line,
  logging and certificates; generated clients and protocol buffers.
- The webhook except for the conditions under which it admits a claim.
- What formatting and parsing do with sizes, names and addresses; a name that is cut
  does not collide here.

Next: `BoundClaimTakesContent` as a theorem; the queue of the VAController.
