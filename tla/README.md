# A TLA+ verification of persistent-pod-state

persistent-pod-state gives the pods of a StatefulSet (and KubeVirt VMIs) the
address and the node they had before they were deleted. A reconciler records
where each pod runs (a `PersistentPodState` object) and reserves its address (a
Calico `IPReservation`); an admission webhook pins a re-created pod to what the
record says; a certificate controller keeps the webhook reachable. This
directory holds TLA+ models of these parts, TLC configurations that check them
on small instances, and TLAPS proofs for instances of any size.

Run a check with `tlc -config sts_safety.cfg MCPersistentPodState`, the proofs
with `tlapm PersistentPodState_proofs.tla`, and likewise for the other `_proofs` modules.

## 1. Inventory

| part | code | state | operations | what makes it correct |
|---|---|---|---|---|
| StatefulSet reconciler | `internal/controller/apps/persistentpodstate_controller.go`, `..._statefulset.go` | none of its own: the record (`PersistentPodState.status.podStates`) and the `IPReservation`s in the API server, read through caches | `Reconcile`, `createOrUpdateIPReservation`, create or update of the record | no address twice in a record; reserve before record; a record does not lose pods; pods that run are eventually recorded |
| StatefulSet event handler | `..._statefulset_handler.go` | workqueue | enqueue on create and update, if annotated | only annotated StatefulSets get a record |
| pod webhook | `internal/webhook/pod/mutating` | none; reads the cached record | `handlePod` on create | a recorded pod starts where it was |
| VMI reconciler, handler, webhook | `VmiAutoGeneratePersistentPodState`, `..._event_handler.go`, `handleVMI` | as above, record named after the VMI | as above for one "pod", no length guard; a failed reservation ends the reconcile | as above; a StatefulSet of the same name does not keep the VMI out of the record |
| certificate controller | `internal/webhook/util/controller`, `util/writer/{certwriter,secret,fs}.go` | secret with CA and serving certificate | `sync`: ensure, write to directory, patch configuration; re-run for ever | replicas agree on one CA; API server trusts what the server presents |
| atomic writer | `util/writer/atomic/atomic_writer.go`, `WriteCertsToDir` | certificate directory: timestamped directories, `..data`, `..data_tmp`, links | the eleven steps of `Write` | readers see whole payloads only; renewals arrive |
| webhook configuration | `util/configuration` | caBundle and a template annotation | `Ensure` | bundle matches the secret |
| generator | `util/generator` | CA for the next certificate | `Generate`, `SetCA` | serving certificate verifies against the CA |
| health checker | `util/health` | HTTP client trusting the CA, fsnotify watch | `Checker`, `watchCACert` | readiness follows renewals |
| start-up | `internal/webhook/server.go`, `cmd/main.go` | channels, registered handlers | `Initialize`, `WaitReady`, set-up of controllers | controllers start after the webhook works; start-up ends or the process exits |

Interactions: the reconciler and the webhook share one process and one set of
informer caches. The reconciler writes the record, the webhook reads it from the
cache; Calico reads the reservations; the StatefulSet controller re-creates
pods. The certificate controller writes the directory that the TLS server and the
health checker read.

What is hard to test: caches of pods, reservations and records lag independently;
pods are not watched at all; three kinds of keys lead to one record; a Create stores no status, so recording takes two
reconciles; a failed reservation is skipped and reported as success; the length
guard is decided on a cached record and not re-checked by the conflict retry; a
failed call may have been applied; the process may die between any two writes,
also in the middle of a directory update; the readiness check, its watcher and
the certificate sync run side by side, and a renewal can slip between them. `PROJECT.json` lists each of these
hazards with its line and the property that would catch it.

## 2. Modules

| module | role |
|---|---|
| `ClusterState` | what surrounds the manager (external): API objects, pods and addresses, informer caches |
| `StatefulSetReconciler` | event handlers, workqueue and reconcile, one step per API call |
| `PodMutatingWebhook` | admission of pods |
| `PersistentPodState` | composition of the three, crash and restart, fairness, properties |
| `MCPersistentPodState` | small instances |
| `PersistentPodState_proofs` | theorems |
| `AtomicDirectory` | what a reader of the certificate directory may see (abstract) |
| `AtomicWriter` | `WriteCertsToDir` and `Write`, one step per changing system call |
| `MCAtomicWriter`, `AtomicWriter_proofs` | small instances, theorems |
| `CertController` | `sync` of all replicas: certificate store, directory, webhook configurations |
| `MCCertController`, `CertController_proofs` | small instances, theorems |
| `VmiReconciler` | one VMI: event handler, reconcile, admission; a StatefulSet of the same name on the same record |
| `MCVmiReconciler`, `VmiReconciler_proofs` | small instances, theorems |
| `WebhookReadiness` | start-up of the process, readiness check, CA watcher |
| `MCWebhookReadiness`, `WebhookReadiness_proofs` | small instances, theorems |

Definitions whose names say what they mutate (`SkipRecorded`, `WorthWriting...`,
`RenameLeavesTmp`, `writeOwn`, ...) are deliberately wrong variants that no specification
uses; `PROJECT.json` pairs each with the property that detects it.

### StatefulSet side: state and actions

One StatefulSet with a fixed name and selector. `pods` are its pods with a phase
and, while pending, the pin the webhook gave them; `resv` and `pps` are the stored
reservations and record; `cpods`, `cresv`, `cpps` the caches; `resvStale` and
`ppsStale` say whether a cached object is older than the stored one, which is what
its resourceVersion tells the API server; `queue` holds the two kinds of keys;
`worker` the locals of the one reconcile that runs (`MaxConcurrentReconciles` is
1): the rest of the pod list, the states built so far, the tries of
`RetryOnConflict`. Its fields `late` and `blind` are history: the length guard was
decided on a stale record, or a stale reservation was taken for the right one.

A reconcile is `Reconcile(key)`, then `createOrUpdateIPReservation(p)` for each
pod with IP and node in any order, then one of `NothingToRecord`, `CreateRecord`,
or `CompareRecord` followed by one `UpdateRecord` per try. Every write can be
refused (AlreadyExists, Conflict, NotFound) as the stored object demands, and can
fail with or without having been applied (`Fault`). `Crash` drops queue and
worker; `Restart` starts with full caches and a create event per object.

Pods in `Foreign` match the selector but are not owned by the StatefulSet and not
named like its pods: the reconciler records them, the webhook does not pin them.

### Certificate directory: state and actions

`dirs` are the timestamped directories, `data` and `tmp` the links `..data` and
`..data_tmp`, `links` the user-visible names that are links, `plain` the ones that
are plain files, `w` the Write in progress with its next numbered step. Each
action is one step of `Write`; step 6 and 7 are one action per file. Any step can
fail as the code handles it, and `Crash` can come before any of them. The clean-up
after a failed step 8 or 9 is two steps of its own (`RemoveTmp`, `RemoveNew`), whose
errors the code ignores: a failed rename whose `os.Remove` fails as well leaves
`..data_tmp` behind, as a crash between the two steps does. `HandMade` are names
under which a plain file exists before the first Write, `Unreadable` names on which
`Readlink` may fail although they exist: `prepareToWrite` then removes the link, and
`createUserVisibleFiles` passes the name over.

### Certificates: state and actions

A certificate is the CA that signed it and the name it is for; `caAge` says
whether a CA is good for another year (`Generate` signs with it), for six months
(`validCert` accepts it) or not. The serving certificate is made to outlive its CA
(ten years from its issue, the CA ten years from its own), so its own age never
decides. `secret` is the shared store, `dir` each replica's directory, `conf` the
two webhook configurations, `dnsName` each replica's name from its environment,
`w` its sync in progress; `moved` records which objects were written since a
replica read them, which is what resourceVersions tell. `issued` is history: the
certificates that were in a store. `stuck` are the replicas whose directory holds a
leftover `..data_tmp`: a Write there returns nil if nothing has changed and fails
otherwise (`AtomicWriter`, run `atomic_crashed`). A Write that is cut short by failed
calls or by a restart may leave it (`CutShort`), and it goes when the replica starts
with an empty directory.

A sync with the secret store is `read`, then nothing, `write` or `overwrite` (or a
second `read` after AlreadyExists), `WriteCertsToDir`, `Ensure` for each of the two
configurations, and `UpdateConfiguration` for those that differ. With the fs store
`EnsureCertInDir` replaces the first part. Around it CAs age, replicas restart
(with an empty or an old directory, perhaps another name), users delete the secret
or apply the manifest again, and calls fail, applied or not; `MaxEvents` bounds
these in any mix.

### VMI: state and actions

One VMI, its record and its reservation. `vmi` has a phase, a place and whether the
webhook pinned it; `booting` is a VMI that `IsRunning()` but shows no IP yet. The
caches and the staleness flags are as above. A reconcile is `Reconcile(key)` for
one of the keys `generate#VirtualMachineInstance#name`, `generate#StatefulSet#name`
and `name`; the last one goes to the VMI if the cache has it, and to the
StatefulSet otherwise (`Prefers`). Then `Reserve`, and `CreateRecord`, or
`CompareRecord` and `UpdateRecord`; `Panic` takes their place when the VMI has no
owner (`owned`, chosen at the start). With `Namesake` there is a StatefulSet of the
VMI's name with one pod; its reconcile joins in after its own reservations, with
the status `Other`, since from there on both run the same code. `handleVMI` pins a
new VMI; `AdmissionMissed` is the call that does not reach the webhook, or whose
Get fails. `events` counts the unwanted events, in any mix.

### Start-up and readiness: state and actions

`main` is the main goroutine: it waits for the first complete sync
(`InitializeDone`, `InitializeTimeout`), starts WaitReady beside itself and the
servers (`mgrStart`). The certificates are reduced to what a reader of
`ca-cert.pem` sees of `AtomicWriter`: the switch (`WriteCerts`), the removal of the
old file (`RemoveOld`), which is the only thing fsnotify reports because the watch
is on the inode, and the end of sync (`EnsureAndInit`). `checks` are the calls of
`Checker` in progress, one of WaitReady and one per probe: the Once (`OnceDo`,
`Load`, `SetClient`, `AddWatch`), then the mutex and the request (`Lock`,
`Request`). A panic ends the process when WaitReady called, and only the request
when a probe did; the Once is done either way. `watcher` is `watchCACert`. `missed`
is history: a replacement of the file that the watcher will not hear of. `stuck` says
that a leftover `..data_tmp` makes every Write fail that has something to write; an
exit in the middle of a Write, or a failed Write, may leave it, and only a start with an
empty directory removes it.

## 3. Runs

| run | result | shows |
|---|---|---|
| `sts_safety` | pass | `TypeOK`, `RecordIPsDistinct`, `GuardHolds`, `ReserveFirst`, `StickyIP` under failurePolicy Fail, with a foreign pod, two nodes, a re-creation, another workload, a fault, a crash and a deleted record |
| `sts_converges` | pass | `Converges` under fairness and failurePolicy Ignore, with two owned pods, a re-creation and a fault, which may be a missed admission or a cached Get that fails |
| `sts_ignored` | violation | `StickyIP` fails under failurePolicy Ignore, which the manifests ship although the marker says `failurePolicy=fail` |
| `sts_unannotated` | violation | `AutoGenerateOnlyAnnotated`: the record's own key re-creates the record of a StatefulSet without the annotation |
| `atomic_update` | pass | `TypeOK`, `DataComplete`, `GarbageBounded`, `OneFailureNeverBlocks`, `AtomicUpdate` (refinement of `AtomicDirectory`), `NilMeansVisible`, and under fairness `PublishedUnlessBlocked`, with two faults and a crash |
| `atomic_crashed` | violation | `Published` fails when the process dies between steps 8 and 9: `..data_tmp` blocks every later update |
| `atomic_unlinked` | violation | `NilMeansVisible` fails when a plain file could not be removed |
| `cert_sync` | pass | `TypeOK`, `OnlyStoredCerts`, `TemplateWhole`, `KeepCA`, `AgreedStays`, and under fairness `Agree`, with two replicas, both stores, two names and any two events |
| `vmi` | pass | `TypeOK`, `VmiReserveFirst`, `VmiSticky`, and under fairness `VmiRecovers` and `VmiConverges`, with a namesake, with and without owner, and any two events |
| `vmi_ownerless` | violation | `VmiGetsRecord`: a VMI without owner makes the reconcile panic, and the manager restarts for ever |
| `ready` | pass | `TypeOK`, `ReloadPending`, `ControllersLast`, and under fairness `TrustFollows`, `ChecksEnd`, `ControllersStart`, with one probe beside WaitReady and any three events |
| `ready_missed` | violation | `ClientFollowsFile`: a renewal between the first read of `ca-cert.pem` and the watch on it is never noticed |

**Bounds.** Two pods and two addresses are the least with which addresses can be
traded and one pod be skipped while the other is recorded; two nodes where places
matter, one where only addresses do. `Recreates`, `Faults`, `Crashes`, `Deletes`
count the unwanted events (`Budget`); one crash or fault at any point, combined
with re-creations, reaches every hand-over between two writes. `RetrySteps` = 2
(4 in client-go) allows a retry and its exhaustion. The certificate model has two
files, two contents, payloads between which files are changed, kept, dropped and
added, and as many directory names as Writes the renewals, faults and the crash can
leave; two faults are a failed rename and the failure of its clean-up, the least that
leaves `..data_tmp` without a crash. The proofs
remove all these bounds. The certificate controller has two replicas, the least
that race, and two events of any kind: enough for a lost answer and a restart, a
deletion between a read and a Create, a name changed and changed back, or a CA
that ages until it is refused. CA names are reused, and `NewCA` chooses one that
nobody has or trusts; the secret, two per replica (directory and sync), and two
configurations use at most 2·2 + 3 at a time, so eight names are enough, and
`CertAssumption` asks for that many in general. Two events let a VMI be restarted after a failed call,
a migration, a crash or another workload's arrival; two addresses let it lose its
own. Three events around the readiness check are two renewals and a failure
between them, or a renewal after two failed starts. Symmetry is used only where no liveness is checked.
`sts_unannotated` allows deadlock, since a manager without keys may stop.

**Fairness.** `Converges` assumes that watches deliver, that the worker takes a
queued key and finishes what it started, that the Deployment restarts the process,
and that StatefulSet events never cease: informers resync every ten hours by
default and a resync is an update event for each object. It assumes nothing of
pods, users or faults. `Published` and
`PublishedUnlessBlocked` assume that the workqueue runs `sync` again:
`processNextWorkItem` re-adds the key after success (`defaultResyncPeriod`) and
after an error (rate limited). `Agree` assumes the same of each replica, and
nothing of the events; it is about behaviours in which the replicas' names are
eventually the same, because replicas with different names overwrite each other's
certificate for ever. It promises a valid certificate to every replica that is not
`stuck`. With the secret store that is the certificate of the secret, and the webhook
configurations trust it; with the fs store each replica has a CA of its own and the
configurations trust one replica at a time, which is all the code can give. The VMI model assumes the same of watches, resyncs, worker and
Deployment as `Converges`, and strong fairness for each key, since the workqueue is
first in, first out; nothing is assumed of the namesake's events. `ready` assumes
that goroutines run, that `sync.Mutex` starves nobody (strong fairness for who
waits for it), that sync is run again, and that the webhook server answers
`/healthz`, whose handler only writes 200. Probes need not come.

**Exceptions.** Some properties hold only outside cases the code does not handle, and
name these in their text.

* `missed`, in `ReloadPending`, `TrustFollows` and `ControllersStart`: the watcher
  missed a replacement of the CA for good, by a renewal between the first read of the
  file and the watch, a failed step 11, a failed re-watch or reload, or a first watch
  that failed in a probe. Such a process stays unready (its liveness probe is a ping)
  until the next renewal or restart, and if it has not been ready before, its
  controllers are never set up. `ClientFollowsFile` has no such exception, and
  `ready_missed` shows that it fails.
* `stuck`, in `Agree`, `AgreedStays`, `TrustFollows` and `ControllersStart`: the
  directory outlived a Write that left `..data_tmp`. The replica then serves what it
  has until it is given an empty directory; without a certificate of its own,
  `Initialize` times out at every start. `atomic_crashed` shows how it comes about.
* `late` in `GuardHolds`, `blind` in `ReserveFirst` and `VmiReserveFirst`: the decision
  was taken on a stale cached copy, and nothing re-checks it. What such a decision does
  to the record is repaired by later reconciles (`Converges`, `VmiRecovers`,
  `VmiConverges`).

## 4. Theorems

TLAPS proves the following for every finite set of pods, every set of addresses
and nodes, any number of faults, crashes, deletions (`ConstantsAssumption`), for
every set of files, contents, payloads and directory names (`WriterAssumption`),
for a VMI with or without owner, annotation and namesake (`VmiAssumption`), for
every finite set of replicas, any names, paths, manifests and handlers, and enough
names for CAs (`CertAssumption`), and for any set of probes and any number of
renewals, failures and crashes around the readiness check (`ReadinessAssumption`).

| theorem | statement | inductive invariant |
|---|---|---|
| `TypeCorrect` | `Spec => []TypeOK` | itself |
| `RecordSafe` | `Spec => []RecordIPsDistinct` | `DistinctInv`: running pods, the cached list, the worker's list with the states built so far (`HeldDistinct`), and the record each give no address twice. The record alone is not inductive: it is replaced by what the worker holds, which is part of one cached list, which is a copy of one moment of the cluster |
| `GuardSafe` | `Spec => GuardHolds` | `GuardInv`: a record not marked stale is the stored one (`FreshPps`), and a worker about to update with `late = FALSE` either holds at least as many states as the stored record or will meet a conflict |
| `ReservedSafe` | `Spec => ReserveFirst` | `ReserveInv`: a reservation not marked stale is the stored one, and each state the worker has accepted is reserved or in `blind` |
| `StickySafe` | `FailurePolicy = "Fail" /\ ~CacheGetFails /\ Spec => StickyIP` | `ForeignUnpinned` with `TypeOK`; `Settled` is preserved by each step that does not delete the record |
| `TypeCorrect` (writer) | `Spec => []TypeOK` | with `TsOK`: the Write's own directory exists while it uses it |
| `DataSafe` | `Spec => []DataComplete` | `WriterInv`: what each step of Write has achieved by its number: own directory distinct from the current one, written files, made links, `..data_tmp` |
| `Refinement` | `Orderly /\ Spec => AtomicUpdate` | `WriterInv`; a reader's view is the content of the current directory (`ViewIsCurrent`), and only the rename changes it (`CurrentStep`) |
| `NilSafe` | `Orderly /\ Spec => NilMeansVisible` | `WriterInv` |
| `TypeCorrect` (VMI) | `Spec => []TypeOK` | itself |
| `ReservedBeforeRecorded` | `Spec => VmiReserveFirst` | `ReserveInv` (VMI): a reservation not marked stale is the stored one; past `Reserve`, the worker's address is reserved or was judged `blind`; only an existing record has a status |
| `StickyVmi` | `Spec => VmiSticky` | `ReserveInv` with `TypeOK`; `Settled`, split into what the cluster (`Pinned`) and the manager (`Agreed`) hold, is preserved by each other step. That the record exists is needed: otherwise a `CreateRecord` would empty it |
| `GarbageSafe` | `Orderly /\ Spec => []GarbageBounded` | `LeftInv` with `WriterInv`: a Write has no claim on a directory before step 4 or 5 (`Unclaimed`), so that the end of a Write leaves its own directory before the switch and the old one after it, and pays for it with a failure (`NextGarbage`); the set stays finite |
| `NotBlockedByOne` | `Spec => []OneFailureNeverBlocks` | `BlockInv`: a Write that is removing `..data_tmp` has already seen its rename fail, so that a removal that fails is the second failure |
| `TypeCorrect` (certificates) | `Spec => []TypeOK` | with `HasCert` (a sync past `EnsureCert` has a certificate); `FreshCA`, by counting what can be in use, gives `NewCA` its value |
| `StoredSafe` | `Spec => []OnlyStoredCerts` | `StoredInv`: also the secret's certificate, and the one each sync holds, were stored. A sync that loses the Create drops what it generated |
| `KeepCASafe` | `Spec => KeepCA` | `ReadInv`: a replica about to overwrite, whose secret has not moved since it read it, holds the certificate that is stored, and that one is still not valid for it |
| `TemplateSafe` | `Spec => []TemplateWhole` | `TemplateWhole` itself, with `EnsuredForm`: a configuration with a template has exactly its webhooks that have a handler |
| `AgreedStable` | `Spec => AgreedStays` | `HasCert`, `ReadInv`, `TemplateWhole` and `EnsuredForm`; in a `Settled` state every step of sync finds the certificate valid and the configurations as `Ensured` would make them, and writes no directory, a `stuck` one because it cannot |
| `TypeCorrect` (readiness) | `Spec => []TypeOK` | `Inv`: CAs are numbered within bounds, nobody checks before the first sync (`PhaseInv`), the file is there once a sync has written (`FileInv`), one caller is inside the Once and nobody past it before it is done (`OnceInv`). `TypeOK` holds the mutual exclusion of the checks |
| `ReloadSafe` | `Spec => []ReloadPending` | `Inv`; that the file about to be removed is not the present one is what makes a renewal between re-watch and reload visible |
| `ControllersSafe` | `Spec => []ControllersLast` | `Inv` and `Loaded`: whoever has read the file has read a CA, so that no reload takes it away again |

`Orderly` is a directory without hand-made files and unreadable links (`HandMade = {}`,
`Unreadable = {}`); outside it the first two do not hold (`atomic_unlinked`), and
`GarbageBounded` is not claimed.

Every safety property of a passing run is stated by a theorem. Only model-checked:
`Converges`, `PublishedUnlessBlocked`, `Agree`, `VmiRecovers`, `VmiConverges`,
`TrustFollows`, `ChecksEnd` and `ControllersStart`: liveness under fairness is beyond
the prover. Of some, the safety half is proved: that what was reached stays
(`StickyIP`, `VmiSticky`, `AgreedStays`), that nothing else can stand in the way
(`OneFailureNeverBlocks` for `PublishedUnlessBlocked`), or that what is needed is on its way
(`ReloadPending` for `TrustFollows`).

## 5. What the models leave out

* A cache jumps to the stored state when it syncs; intermediate versions are
  skipped, which a lagging sync of the intermediate one would show as a state of
  its own. Cached lists and Gets of the reconciler do not fail.
* The StatefulSet is never deleted, renamed or rescaled.
* Admission is one step: the pod is stored with the pin computed from the cache at
  that moment. One process serves; a second replica's cache is not modelled.
* `Restart` fills the caches before webhook and reconciler work, which a cached
  Get waits for. The short time in which the webhook server accepts calls and the
  cache is not even started is `CacheGetFails`: the Get fails, the handler logs it
  and admits the pod. It is allowed in `sts_converges` and excluded in `StickyIP`.
* A failed call is applied at once or never, not after the reconcile went on.
* In `AtomicWriter`, a `RemoveAll` that fails half-way leaves a directory, whose
  remaining files are not told apart from all of them (nobody reads it), the Windows
  branch is left out, names have no subdirectories (the six names are
  fixed), and a file whose Write failed is not distinguished from a missing one in
  a directory nobody reads.
* In `AtomicWriter` a crash leaves the certificate directory as it was. This is so when
  `WEBHOOK_CERT_DIR` is on a volume that outlives the container; `CertController` and
  `WebhookReadiness` have both, a directory that survives and one that does not.
* In `CertController`, two certificates of one CA for one name are not told apart;
  a webhook is its path, its address the name of the replica that wrote it; the
  configurations are not deleted (a Get that fails is a fault); with the fs store
  the configurations follow the replica that wrote last.
* In `VmiReconciler`, the namesake's own pods and reservations are those of
  `StatefulSetReconciler`, and it has one pod, so that its length guard never holds
  its status back; a VMI's name and owner do not change. A panic always ends the
  process (controller-runtime v0.18 recovers only if asked to).
* In `WebhookReadiness`, a renewal always changes the CA (one that keeps the CA
  cannot make a check fail); the request of a check takes one step; the
  certificates are those of the replica itself. The unlocked registration of types in
  the manager's scheme by `SetupWithManager` is only an exit of the process: the maps
  are not modelled, and no property speaks of them.
* Registration of handlers and feature switches: done once, before anything runs;
  `Handlers`, `Namesake` and `Annotated` stand for the outcome.
* Log output, metrics, flags, leader election, generated clients and deep copies.

## 6. Plan

1. Core (done): `ClusterState`, `StatefulSetReconciler`, `PodMutatingWebhook`,
   `PersistentPodState`; `AtomicWriter` refining `AtomicDirectory`.
2. `CertController` (done): modelled, checked, and its safety properties proved.
3. `VmiReconciler` (done): modelled, checked, and its safety properties proved.
4. `WebhookReadiness` (done): modelled, checked, and its safety properties proved.
5. Left: liveness, which the prover cannot reach; more that the code can be asked,
   such as IP reservations that are never deleted.
