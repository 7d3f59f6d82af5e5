# A TLA+ verification of AesCloud's operator

AesCloud is a Kubernetes operator (Go, kubebuilder, controller-runtime 0.15) with
four controllers in one manager process. A `CorePod` asks for a `CoreExt` (an
account and its permissions) and an `OrgPod`; an `OrgPod` asks for a `DbPod`; a
`DbPod` asks for a replicated MySQL StatefulSet behind ProxySQL, whose Pods clone
each other with shell scripts the operator puts into the StatefulSet. This
directory holds TLA+ models of the four controllers and of the scripts, their TLC
runs and their TLAPS proofs.

| file | what it is |
|---|---|
| `Lifecycle.tla` | what every controller promises of the object it reconciles: the abstract specification |
| `DbPod.tla` | the DbPod controller call by call, its informers and queue, and the cluster around it |
| `PodTree.tla` | the CorePod, CoreExt and OrgPod controllers side by side, over one cache and one garbage collector |
| `MysqlBootstrap.tla` | the scripts of the MySQL Pods line by line, and containers killed at any of them |
| `MCDbPod.tla`, `MCPodTree.tla`, `MCMysqlBootstrap.tla`, `*.cfg` | instances for TLC |
| `DbPodProofs.tla` | inductive invariants and safety theorems of `DbPod` |
| `DbPodLifecycleProofs.tla` | `DbPod` refines `Lifecycle` |
| `DbPodWakeupProofs.tla` | no wake-up is missing in `DbPod` |
| `PodTreeProofs.tla` | inductive invariants and safety theorems of `PodTree`; its controllers refine `Lifecycle` |
| `PodTreeWakeupProofs.tla` | no wake-up is missing between the queues of `PodTree` |
| `MysqlBootstrapProofs.tla` | the inductive invariant of `MysqlBootstrap`: copies are exact |
| `MysqlBootstrapKillProofs.tla` | kills outside the windows are harmless |
| `PROJECT.json` | components, runs, mutants, source lines of each definition, findings, hazards, theorems |

To check: `tlc -config DbPodFaults.cfg MCDbPod.tla` (and likewise for the other
configurations: `DbPod*.cfg` with `MCDbPod`, `PodTree*.cfg` with `MCPodTree`,
`Bootstrap*.cfg` with `MCMysqlBootstrap`), `tlapm DbPodProofs.tla` (and likewise).

## 1. Inventory

Paths are relative to `src/internal/controller/` unless they start with `src/`.

### DbPod controller (`DbPod`)

* **Code** `dbpod_controller.go` (Reconcile 53-206, SetupWithManager 209-222),
  `dbpod_finalizer.go`, `dbpod_ext.go` (three Services), `dbpod_env.go` (three
  ConfigMaps, the Secret), `dbpod_depl.go` (two StatefulSets).
* **State** none of its own. Everything is in the cluster (the DbPod with its
  finalizer and status, nine children, the claims the StatefulSets make) and in
  the informer cache.
* **Operations** one pass: read the DbPod; add the finalizer, or run the deletion
  branch; write `Status.Name`; write `Initiating` unless Ready; get or create the
  nine children in order, the two ConfigMaps with a password only if the Secret
  can be read; write `Ready` once MySQL has an available replica.
* **Interacts** through the API server with users, the garbage collector, the
  StatefulSet controller and the OrgPod controller that creates DbPods; through
  notifications with its own queue.
* **Hard** reads are cached and old while writes are live; every call may fail, may
  succeed without a reply, and four kinds of errors are ignored; the first pass
  skips the init ConfigMap because the Secret comes later; another pass needs a
  notification to start it; deletion waits for objects to be *present*; names are
  reused by successors while old children and old data are still there.
* **Correct** if no child is created for an absent or unguarded owner, Ready is
  neither early nor overwritten, password copies agree, no wake-up is missing, a
  live DbPod converges and comes to rest, and a deletion ends.

### CorePod and OrgPod controllers (`PodTree`)

* **Code** `corepod_controller.go`, `corepod_finalizer.go`, `corepod_extrex.go`,
  `corepod_be.go`; `orgpod_controller.go`, `orgpod_finalizer.go`, `pod_dbrec.go`.
* **State** finalizer and status of each; a CorePod owns a CoreExt and an OrgPod, an
  OrgPod owns a DbPod.
* **Operations** as above with the children listed; the finalizer of a CorePod looks
  up its CoreExt, that of an OrgPod a Deployment, a Service and the DbPod. Neither
  ever sets Ready, so every pass writes `Initiating`.
* **Hard** finalizers at four levels of one tree, deletion in the background or the
  foreground at each, look-ups of objects nobody makes (`orgpod_finalizer.go:24,34`),
  children found by name and not by owner.
* **Correct** if each keeps to `Lifecycle`, no wake-up is missing between the queues,
  a successor gets children of its own, the controllers come to rest, and a
  deletion with everything in place ends.

### CoreExt controller (`PodTree`)

* **Code** `coreext_controller.go`, `coreext_finalizer.go`, `coreext_perm.go`.
* **State** a ServiceAccount, Role and RoleBinding owned by the CoreExt; a
  ClusterRole and ClusterRoleBinding without owner, named after the CoreExt only.
* **Operations** get-or-create of the five; a deletion that looks up all five. It
  keeps no status.
* **Hard** cluster-scoped names shared by all namespaces; objects that neither the
  finalizer nor the garbage collector removes; a deletion that fails as long as one
  of the five is missing.
* **Correct** if rights are granted for a guarded CoreExt only, and the binding names
  its own account unless another namespace came first.

### MySQL replication bootstrap (`MysqlBootstrap`)

* **Code** the scripts in `dbpod_depl.go:60-104` and `199-232`, the probes 157-185.
* **State** the files on each Pod's volume (data, `xtrabackup_slave_info`,
  `xtrabackup_binlog_info`, `change_master_to.sql.in`), the server and its
  replication threads, the line each script has reached.
* **Operations** clone from the predecessor and prepare; initialise or start the
  server; find the position, write it as a CHANGE MASTER, run it, start
  replication, put the file away, serve clones to the successor.
* **Hard** a container may be killed between two commands, or in the middle of one,
  and the script runs again on the same volume.
* **Correct** if no transaction is skipped or applied twice, and every Pod ends up
  replicating and serving clones.

### Manager, queues, informers (in `DbPod` and `PodTree`)

* **Code** `src/cmd/main.go`, the four `SetupWithManager` functions, and
  controller-runtime.
* **State** per controller a queue of names without duplicates and one worker;
  the shared cache.
* **Operations** deliver a notification and queue the owner's name; take a name; put
  it back after an error; resync (default period, ten hours); crash, restart.
* **Hard** delay and merging of notifications, restart in the middle of a pass, a
  second manager when leader election is off (`src/cmd/main.go:57`, the default).
* **Correct** if what is in the cluster and not in order always leads to a pass.

### The rest

ProxySQL's routing rules (`dbpod_env.go:253-283`), the API types, generated deep
copies, manifests under `src/config/`, and a test file that only starts envtest.

## 2. Plan

| order | module | what | state |
|---|---|---|---|
| 1 | `DbPod`, `DbPodProofs` | this controller in full; safety theorems | done |
| 2 | `Lifecycle`, `DbPodLifecycleProofs` | the abstract specification; `DbPod` and the controllers of `PodTree` implement it; proved | done |
| 3 | `PodTree` | CorePod, OrgPod and CoreExt controllers over one cache and garbage collector, the DbPod reduced to its `Lifecycle`, the cluster-scoped objects shared with another namespace | done |
| 4 | `MysqlBootstrap`, `MysqlBootstrapProofs` | the scripts with kills; `TypeOK` and `ExactCopies` proved | done |
| 5 | `PodTreeProofs` | `TypeOK`, `GuardedRights`, `ReleasedByHand` and `ImplementsLifecycle` for any part of the tree | done |
| 6 | `MysqlBootstrapKillProofs` | `KillsHarmless` | done |
| 7 | `DbPodWakeupProofs`, `PodTreeWakeupProofs` | `QuietConverged`, `QuietGrown` | done |

Given up: a second manager in `DbPod` (the product of two passes is out of TLC's
reach with a child order worth following) and the routing rules (see 10).

## 3. The model of the DbPod controller

### State

| variable | stands for |
|---|---|
| `cr` | the stored DbPod: uid (0: none), our finalizer, the garbage collector's foreground finalizer, deletion timestamp, whether `Status.Name` is set, `Status.Progress` (`Status.Ready` follows it) |
| `api` | for each child, the uid of its owner, or 0 |
| `claims`, `avail` | PersistentVolumeClaims made so far; `status.availableReplicas > 0` |
| `copies`, `rotated` | the password in the init ConfigMap, the proxy ConfigMap and the database (none, that of the latest Secret, an older one); was a Secret in use removed |
| `cached`, `cachedFresh`, `cache`, `cachedAvail`, `news` | the informers: copies, and objects with an undelivered notification |
| `queued`, `pc`, `obj`, `mem`, `memFresh`, `fetched` | the queue and the running pass: where it is, its copy of the DbPod, the password it has read |
| `born`, `left` | bounds: DbPods created, disturbances still allowed |

A write of the DbPod succeeds when its copy has the latest `resourceVersion`. Only
equality with the latest matters, so the model keeps `cachedFresh` and `memFresh`
instead of numbers.

### Actions and code

| action | code |
|---|---|
| `StartPass` | `dbpod_controller.go` 53-70: take the name, cached Get (its error is not looked at; a missing DbPod has an empty name), choose the branch |
| `AddFinalizer` | 71-76 |
| `NameStatus`, `InitiateStatus`, `ReadyStatus` | 99-102, 104-108, 174-178; `StatusUpdate` has the ignored error, whose four outcomes are: stored, conflict, failed, stored with the reply lost |
| `ReconcileService` ... `ReconcileProxyStatefulset` | the nine get-or-create functions, in the order of 110-203 |
| `FetchSecret`, `CreateFetched` | `GetSecret` (a live read) and the Create after it, two steps of `reconcileInitCmap` and `reconcileProxyCmap` |
| `Return` | 205 |
| `DeleteExternalResources`, `Release` | `dbpod_finalizer.go`, one step for each object looked up (the data claims, one step); 88-96 |
| `ApiError`, `Retry` | `return ctrl.Result{}, err`, and the queue that brings the name back |
| `DeliverDbPod`, `Deliver`, `Resync`, `Restart` | informers and manager, by `SetupWithManager` and `main.go` |
| `UserCreate`, `UserDelete`, `UserEdit`, `UserDeleteChild` | clients |
| `Collect`, `FinishForeground` | garbage collector |
| `Provision`, `PodUp`, `PodDown` | StatefulSet controller, kubelet and the MySQL image |

### Choices and assumptions

* The cached Get of a child and its Create are one step: the worker is the only
  creator, and Create depends on the API server alone. The Secret's live read and
  the Create that uses it are two steps.
* A cache entry is read at most once in a pass, so delivering an intermediate
  version late is the same as delivering it when written; a notification delivers
  the current state. Deliveries of different objects come in any order.
* Children outside `Kinds` are taken to be in place all the time.
* A pass never updates an existing child, so a child is its presence and its owner
  (and, for ConfigMaps, the password). That `Spec` changes never reach existing
  children is a consequence: an edit is a new version with nothing else new.
* The Updates in `deleteExternalResources` send an object back as it was read; the
  API server stores no new version, so they have no effect and no notification.
* One worker and one manager (`--leader-elect` as in
  `src/config/manager/manager.yaml`), which may read and write every kind it
  handles (`make run` with an administrator's configuration; the shipped
  `role.yaml` grants only the four custom kinds). Nobody but the controller takes
  the finalizer off or changes the status. A restarted manager's first list is
  taken to be current: its cache is exactly what is stored, and may fall behind
  from the next write on. A list that is older (one served from an API server's
  watch cache) is left out, here and in `PodTree`.
* `deleteExternalResources` asks for three data claims by name
  (`dbpod_finalizer.go:54-79`) and the StatefulSet has three replicas
  (`dbpod_depl.go:44`): two numbers in two files, `Lookups` and `Replicas`. The claims
  are made in order and never vanish, so the look-ups for them are one step: asking for
  one after the other fails or succeeds as asking for all at the time of the last
  one does. What the properties tell apart is whether the two numbers agree, not that
  they are three; the proofs assume nothing of how they compare.
* A Pod mounts both ConfigMaps before it starts; an empty data volume is
  initialised with the mounted script, a used one is not (the image's behaviour).
* Back-off is not timed: a retry may be immediate.

## 4. Lifecycle, the abstract specification

`Lifecycle` sees of an object its uid, whether it has the controller's finalizer, is
being deleted, is reported Ready, and to whom its parts belong. Its actions are
`Appear`, `Guard`, `Condemn`, `Release`, `Go`, `Make`, `Lose`, `Report`. What it
forbids is what matters: a part made without a finalizer in place, or for another
than the present owner; a finalizer removed before deletion was asked for; Ready
taken back; a new object that already owns something.

`DbPod` implements it with `owner <- cr.uid, guarded <- cr.fin, deleting <- cr.del,
ready <- (cr.progress = "Ready")` and `made <- api`: everything
between the API server and a pass (cache, notifications, queue, the copy a pass
works on) is hidden. `PodTree` implements it once for each of its controllers, with
`ready <- FALSE`, for CorePods and OrgPods never report it.

## 5. The model of the tree

| variable | stands for |
|---|---|
| `store` | the objects in the API server, one of each kind: uid, owner's uid, our finalizer, foreground finalizer, deletion timestamp, status; for the ClusterRoleBinding the namespace its subject names |
| `seen`, `fresh`, `owed` | the informers: copies, which of them are the latest, and of which objects a version with an owner is still to be reported |
| `queued`, `work` | for each controller, is its object in the queue; its pass: where it is, the objects still to be handled, the uid, status and freshness of its copy |
| `left` | bound: disturbances still allowed |

| action | code |
|---|---|
| `StartPass` | Get and the three-way branch: `corepod_controller.go` 51-93, likewise `orgpod_`, `coreext_controller.go` |
| `AddFinalizer`, `Release` | the two Updates of the finalizer, with conflict and lost reply |
| `NameStatus`, `InitiateStatus` | the two status writes whose errors are ignored (CorePod, OrgPod) |
| `Ensure` | `reconcileCoreExt`, `reconcileCoreOrg`, `reconcileDbPod`, `reconcileSA` ... `reconcileCRB`: `MakeOrder` is the order of the calls |
| `DeleteExternalResources` | the look-ups of each finalizer: `CheckOrder` |
| `ApiError`, `Deliver`, `Restart` | as in `DbPod`; `Watched` is `SetupWithManager`, with the Service and the Deployment an OrgPod watches and never owns |
| `MadeElsewhere` | the same controller, for a CoreExt of the same name in another namespace |
| `DbPodGuard`, `DbPodRelease` | the DbPod controller, as its `Lifecycle` |
| `UserCreate` ... `UserMakes`, `Collect`, `FinishForeground` | clients and garbage collector |

Choices. One namespace and one CorePod name: the code names every child after its
root, so there is one object of each kind. A notification reports every
owner that the versions it merges had; since owners' uids are not names but the
names are all the same, one bit (`owed`) is enough. Only equality of uids counts,
and a uid that nothing mentions any more is used again (`NewUid`), which keeps the
state space finite without a bound on creations. `Foreground` bounds which objects
*users* delete in the foreground; the garbage collector may do so anywhere below an
owner being deleted in the foreground. Users make CorePods only: what they make
under a child's name the code adopts without becoming its owner; that case is in the
hazards and is not run, though the proofs cover it (any `Roots` among the three
kinds). As in `DbPod` the Get from the cache and the Create
after it are one step, and the Updates of the finalizers have no effect.

## 6. The model of the bootstrap

| variable | stands for |
|---|---|
| `dir`, `sound`, `data` | the volume: no files, some, or the directory `mysql` that all scripts test for; whether it is a consistent copy; the transactions it holds |
| `slave`, `binlog`, `change` | the three coordinate files: a position, no file, or an empty file |
| `master` | how far the server, once it has a master, has applied the primary's log |
| `clone`, `side`, `parsed` | the line at which the clone script and the sidecar script are, and the position in the sidecar's shell variable |
| `mysqld`, `running` | the server and its replication threads |
| `hurt`, `left` | Pods that were hit in one of the windows below; kills still allowed |

| action | code |
|---|---|
| `CheckData`, `Connect`, `Receive`, `RefuseFiles`, `Prepare` | `dbpod_depl.go` 94-104, the clone |
| `Initialise`, `Initialised`, `StartServer` | the mysql container, 120-150, and its image |
| `Parse`, `CopySlaveInfo`, `RemoveSlaveInfo`, `WriteChange` | 199-216, where the coordinates come from |
| `ChangeMaster`, `StartSlave`, `Rename` | 217-228; after 231 the sidecar serves clones |
| `Kill` | probes, memory, nodes: the clone, the server, the sidecar, or the Pod |
| `Commit`, `Replicate`, `StartPod` | clients, MySQL, the StatefulSet controller |

A position is the number of transactions before it. MySQL, xtrabackup, `xbstream`
and `ncat` are external and modelled as the scripts use them: xtrabackup takes the
data as of the end of the transfer, with the primary's position or with the one a
replica has applied; a replica without a master writes no coordinates, since it
keeps no log of its own; `xbstream` does not overwrite files; the two ends of a pipe
hide each other's failure (no `pipefail`), so a transfer that was cut off leaves
part of the files and the script dies only at `--prepare`, or goes on at the next
start when the directory `mysql` is already there; a server that has a master starts
replicating by itself; MySQL's own recovery is exact.

A kill that starting again does not make good is possible in five windows, listed in
`InWindow` and `CutOff`: during a transfer or its preparation (the next start finds
`mysql` and skips the clone), between removing and writing the coordinates, between
START SLAVE and the renaming of the file (CHANGE MASTER is then refused for ever),
during the first initialisation, and of the server while replication is set
up but not running. `hurt` remembers the Pods that were hit in one. `ExactCopies`
needs no such condition; `KillsHarmless` and `Bootstraps` speak of Pods that were
not hit themselves nor had a predecessor that was.

## 7. Runs

For `DbPod`: `Core` is the Secret, the init ConfigMap that needs it and the StatefulSet
that needs both, the only children with a dependency between them in the code;
`AllKinds` is used once for the complete order. One replica and one claim looked up,
except in `Meddling`, which has two of each: the second claim waits for the first Pod, as
the other two do in the code. `MaxUid` bounds the DbPods of the name: two are
what it takes for a successor to meet the old children, copies and data. Each
disturbance is allowed once or twice, at any point, so every combination of a
failure with any step of the pass and of the users occurs.

For `PodTree`: `Databases` has the three levels below each other and one object nobody
makes; `Permissions` has one object the CoreExt owns and one it does not. Of the
five permission objects the code treats the three owned ones alike and the two
others alike. Two CorePods of one name in `Rights`.

For `MysqlBootstrap`: three Pods are what it takes for a clone from the primary, a
clone from a replica, and a successor of a hurt replica; with two transactions a
position can be too early, right, or too late. One kill of each kind, anywhere,
in any order.

| run | instance | checks | shows |
|---|---|---|---|
| `Faults` | Core; one delete, edit, error, ignored error | `GuardedCreation`, `ReadyStable`, `ReadyServed`, `QuietConverged` | nothing is created, reported or forgotten wrongly around a failed call |
| `Meddling` | Core, two replicas; delete, child deleted, Pod down | `TypeOK`, `CredentialsAgree`, `QuietConverged` | passwords stay together, lost children come back |
| `Reuse` | Core; two DbPods, two deletes, a crash | `GuardedCreation`, `ReadyStable`, `QuietConverged`, `ImplementsLifecycle` | old copies do no harm to a successor |
| `Children` | all children; one ignored error, resync | `CredentialsAgree`, `QuietConverged`, `Converges`, `ReadyEventually` | the order of creation; skipped ConfigMaps and ignored errors, that of writing Ready included, are made good. Only the resync does the latter: without it TLC refutes both liveness properties |
| `Settles` | Core; edit, error, crash, Pod down, child deleted | `Converges`, `ReadyEventually`, `Settles` | recovery without resync, then rest |
| `Succeeds` | Core; two DbPods, one delete | `Converges`, `IntactDeletes` | a successor converges; an intact deletion ends, which it would not if the finalizer asked for one claim more than are made |
| `EarlyDelete` | Core; one delete | `DeletionCompletes` violated | finding 1 |
| `Claims` | Core; one delete | `VolumesDeleted` violated | finding 2 |
| `Tree` | CorePod, OrgPod, DbPod; delete, crash, ignored error, objects made and removed by hand | `QuietGrown`, `ImplementsLifecycle`, `ReleasedByHand` | no wake-up is missing between the queues; finding 5 |
| `Rights` | CorePod, CoreExt; two CorePods, delete, edit, error, a rival namespace | `TypeOK`, `QuietGrown`, `ImplementsLifecycle`, `GuardedRights`, `Grows`, `Rests`, `IntactReleased` | rights only for a guarded CoreExt; growth, rest and release |
| `Bootstrap` | three Pods, two transactions, one kill of each kind | `TypeOK`, `ExactCopies`, `KillsHarmless`, `Bootstraps` | exact copies whatever is killed; outside the windows the Pods come up |
| `BootstrapLost` | three Pods, one sidecar killed | `ClonesReplicate` violated | finding 4 |

No run checks deadlock: a controller with nothing to do, and a log at its bound, have
stopped, which is right.

Each property of a passing run is also checked against a mutant of the code (named
`Mutant of ...` in the modules): an ignored conflict, a status patch without
version, a missing `Owns`, a misnamed look-up, a lost `--slave-info`, a file left in
place and the like must violate it.

`QuietConverged` and `QuietGrown` are the strongest of the invariants: there is no
state in which nothing is running, queued or undelivered while something is
missing. They set aside executions with an ignored error, as far as its effect
goes; the resync in `Children` is for those. `CredentialsAgree` and
`ReadyServed` set aside executions in which a Secret in use is removed, because the
code does not pass on a new password. `QuietGrown` does not ask for a
cluster-scoped object that somebody removed (nobody watches those), nor for a child
of a kind in `Roots`. The second exception makes no difference to the runs, where users
make CorePods only, but the theorem needs it: with `Roots = {"core", "ext"}` TLC finds that
a CoreExt made by a user under the name of a CorePod is adopted without an owner
reference, and when the user removes it nothing wakes the CorePod.

### Fairness

In `DbPod` and `PodTree`: weak fairness of each worker's next step, of each
delivery, of the resync, and of the garbage collector. The queue hands out a waiting name as
long as the worker lives, watches are re-established until they deliver, and both
are loops of controller-runtime and Kubernetes. In `MysqlBootstrap`: of the next
command of each script, for the kubelet starts an exited container again, of the
StatefulSet controller, and of replication; a server must come up only on a
consistent copy. Failures, crashes, kills, users, the DbPod inside `PodTree`, and in
`DbPod` the Pods and the StatefulSet controller get none: they are free to do
nothing. `Limits` makes failures finite in number, without
which no liveness property could hold. Without `WithResync` the runs do not even
rely on the ten-hour resync.

## 8. Findings

1. **A DbPod deleted early is never released** (`EarlyDelete`).
   `deleteExternalResources` fails when an object is absent, and the deletion
   branch makes none. Deleted during its first pass, a DbPod has no init ConfigMap,
   for the first pass skips it; all retries fail although no request did. The
   property is about deletions in the background of DbPods whose claims are all
   made, so that the missing ConfigMap is the only thing the run can be waiting
   for. The same happens when the claims are not all made yet (three Pods have
   to become ready first, and without the ConfigMap none does), a child was
   removed, or the deletion is in the foreground; those are outside the run.
2. **"Delete Statefulset PVC" deletes nothing** (`Claims`). The next DbPod of the
   name gets the old data with the old password. The same comments and Updates in
   `coreext_finalizer.go` ("Delete CLUSTER ROLE", "Delete CLUSTER ROLE BINDING")
   leave the cluster-scoped objects behind, which have no owner either.
3. **Ready is never withdrawn**, although the status is documented as the observed
   state: `ReadyStable`, which `Faults` checks and `ReadyIsStable` proves, says so
   also for a database that is down for good.
4. **A replica may serve clones and never replicate** (`BootstrapLost`). The sidecar
   removes `xtrabackup_binlog_info` (`dbpod_depl.go:212`) before it writes
   `change_master_to.sql.in` (213). Killed in between, it finds neither file when it
   starts again and takes the clone for complete; the next replica is cloned
   from this one and gets no coordinates at all. The property is about replicas
   with a consistent copy, so that it is this window and not a clone that was cut off.
5. **An OrgPod is released only by hand** (`Tree`). Its finalizer looks up a
   Deployment `-pod` and a Service `-nodeport` (`orgpod_finalizer.go:24,34`) that no
   controller makes: `ReleasedByHand` shows, and `ReleaseTakesHands` proves, that it comes
   off only after somebody has made them.

The four other windows of the bootstrap, and the ClusterRoleBinding that names the account of
whichever namespace came first, have no run of their own; they are in the hazards. The
nearest to a finding is the first: `# Skip the clone if data already exists.` says
`dbpod_depl.go:95`, and line 96 tests for the directory `mysql`, which the transfer makes
before the data is complete. A clone container killed in the middle of it ends with
success at its next start (`Torn`, then `CheckData`), and the server is started on what
is there.

## 9. Proofs

For every value of the constants that satisfies the assumptions named in the modules:

| module | theorem | statement |
|---|---|---|
| `DbPodProofs` | `TypeCorrect` | `Spec => []TypeOK` |
| | `GuardedAlways` | `Spec => []Guarded` |
| | `CreationGuarded` | `Spec => GuardedCreation` |
| | `ReadyIsStable` | `Spec => ReadyStable` |
| | `CopySafeAlways`, `CredentialsAlwaysAgree` | `Spec => []CopySafe`, `Spec => []CredentialsAgree` |
| | `ReadyIsServed` | `Spec => []ReadyServed` |
| `DbPodLifecycleProofs` | `LifecycleImplemented` | `Spec => ImplementsLifecycle` |
| `DbPodWakeupProofs` | `QuietIsConverged` | `Spec => []QuietConverged` |
| `PodTreeProofs` | `TreeTypeCorrect` | `Spec => []TypeOK` |
| | `RightsGuarded` | `Spec => GuardedRights` |
| | `TreeImplementsLifecycle` | `Spec => ImplementsLifecycle` |
| | `ReleaseTakesHands` | `Spec => ReleasedByHand` |
| `PodTreeWakeupProofs` | `QuietIsGrown` | `Spec => []QuietGrown` |
| `MysqlBootstrapProofs` | `BootstrapTypeCorrect` | `Spec => []TypeOK` |
| | `CopiesExact` | `Spec => []ExactCopies` |
| `MysqlBootstrapKillProofs` | `KillsAreHarmless` | `Spec => []KillsHarmless` |

With these every invariant and every safety action property that a run checks is
proved. The assumptions are about the constants only: which children or kinds are followed
and how often each disturbance may happen.

**DbPod.** `GuardedCreation` is not inductive: a pass creates children from a
copy that may be old, and the reason that no harm comes of it is spread over the
system. `Guarded` collects it: what freshness of a copy means (`Fresh`); that a
cached DbPod not being deleted and with finalizer is still the stored one, since
only a pass that has *seen* the deletion takes the finalizer off (`CacheSafe`);
and what a pass may rely on at each of its steps (`PassSafe`). `ReadyStable`
needs the part of `Fresh` which says that a fresh copy does not lack a stored
Ready. `CopySafe` strengthens `CredentialsAgree` with the passwords in flight: as
long as no Secret in use was removed, there are copies only while there is a
Secret. `ServedSafe` strengthens `ReadyServed` along the path on which the belief
"MySQL is available" travels, from the Pod to the StatefulSet's status, the cache,
the pass and the DbPod's status.

**Refinement.** `DbPodLifecycleProofs` shows that every step maps to a step of
`Lifecycle` or to a stutter. The steps that write the DbPod are few (`OwnerChange`)
and leave the children alone (`ChildrenStay`); each is one of `Appear` ... `Report`
(`StatusLives`), for which `Guarded` says that the copy written back is the stored
DbPod. A child changes by one at a time (`ChildLives`), and a created one
belongs to the present, guarded owner, again by `Guarded`. That a new DbPod owns
nothing yet needs `Numbered`: uids are given in order.

**Wake-ups of a DbPod.** `QuietConverged` speaks of states in which nothing is going
on, and says nothing of the others. `Wakeful` says it of all: when no further pass is
announced (`Awake`: a name in the queue, a notification to come), then everything
the stored state lacks is still ahead of the running pass. Three parts hold this
together. `CacheTrue`: of what has no undelivered notification the cache has the truth. `CopyTrue`:
a pass whose copy is old will be followed by another. `Pending`: for the
finalizer, each status and each child, either it is in order, or the pass has it before it
(`Ahead`), or the controller is `Awake`. The case that decides is a child skipped because the cache had
it: it is there, or its removal is a notification that wakes the controller;
and the init ConfigMap, skipped while the Secret is missing, is made good by the
notification of the Secret the same pass then creates.

**Tree.** The argument for one controller is that of `Guarded` in `DbPodProofs`; what is new is
that the objects are also written by two other controllers and the garbage collector.
`StepWrites` lists all writes: the four a pass makes (`Guards`, `Reports`,
`Creates`, `Releases`), and those of others, of which `Outside` says that they keep the
finalizers of the three controllers and take deletions back from nobody. `PassSafe`
and `CacheSafe` survive each of them. `NewUidIsNew` is a pigeonhole argument: at most
nine uids are in use for one object, so the first ten numbers hold a new one. That is what keeps
a successor from owning its predecessor's children in the
refinement, though uids come back. `ReleasedByHand` needs `HandsSafe`: how many of the two
objects somebody must have made so far, counting those there, those cached, and those
that the running look-up has already passed.

**Wake-ups across the tree.** `Wakeful` in `PodTreeWakeupProofs`: if an object is not being
deleted and its controller is not `Awake`, then its pass is the last (`PassLast`): what
is no longer before it is there, the status is written or its copy is the latest so
that the write will succeed. A skipped child must be there or be about to be missed;
that is `NewsSafe`: a child has its owner reference from its first version on, so its removal is
reported to the owner (`owed`), wherever in the tree the remover is. `Lawful` says of
a single write what `NewsSafe` needs, and is shown once per writer. TLC refuted the first
version of the invariant for objects that users make under a child's name; see
`QuietGrown` above.

**Bootstrap.** `ExactCopies` compares data with a log; the invariant `IInv` says why
the two agree. Transactions are applied in order (`InOrder`), no volume is ahead of
the primary (`DataSafe`), every coordinate, in whatever file or shell variable it
is, equals the length of the data it came with and exists only while there is no
master (`VolumeSafe`); a used `change_master_to.sql.in` may still lie about, but only
where CHANGE MASTER would be refused (`ChangeSafe`), which is what makes the crash
before the renaming lose a Pod and not its data; and the scripts reach their lines
only with their files in place (`ScriptSafe`). One lemma per action; `Frame` covers
the Pods a step does not touch; `KillSafe` says for every kill what it leaves of
each Pod.

**Kills.** `KillsHarmless` needs to know of a Pod that was not hit, nor had a predecessor that
was, what it shares with all such Pods (`ReplicaSafe`): its copy is consistent once the
clone script is done (`CloneSafe`); coordinates that came with the data are in a file or
in the shell variable until they are those of a master (`CoordinatesSafe`); a server
that has a master while the file that sets it up is still there does not replicate
(`SetUpSafe`); and the predecessor serves for the whole of a transfer (`SourceSafe`). The
last is why one hurt Pod excuses all after it: a source that serves has a master, so
what it sends has coordinates.

TLC checked the invariants before they were proved: on the instances of `Faults`,
`Meddling`, `Reuse`, `Tree`, `Rights` and `Bootstrap`, and those of `PodTree` also with
more kinds that users make.

Only model-checked: the liveness properties (`Converges`, `ReadyEventually`, `Settles`,
`IntactDeletes`, `Grows`, `Rests`, `IntactReleased`, `Bootstraps`). They rest on
fairness and ENABLED, which are out of the prover's reach, and on the bounds of
their runs. What the proofs contribute to them is that no state is stuck: `QuietConverged`
and `QuietGrown` say that whenever a controller has nothing left to do, nothing is left
undone. The three properties with a violation are refuted by TLC.

## 10. Not modelled

* The routing rules of `proxysql.cnf`: regular expressions over SQL text for a
  third-party proxy; nothing in this code reads them or depends on their outcome.
* Two managers at a time (`--leader-elect=false`), see the plan; the shipped manifest
  starts the manager with `--leader-elect`.
* The DbPod controller's passes beside those of the other three: `PodTree` has what
  `LifecycleImplemented` proves of it.
* The contents of manifests beyond names, owners, password copies, replicas,
  claims and scripts; specs, which are copied down the tree at creation and never
  looked at again; logging; timing of retries.
* Generated deep copies, `src/config/`, the envtest bootstrap: nothing to model.
