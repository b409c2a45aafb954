# TLA+ models of the Armada operator

These modules model the reconciliation logic of the Armada operator
(`src/pkg/controller/armada`, `src/pkg/armada`, `src/pkg/helmv2`) and check it
with TLC. The operator deploys Helm charts in three tiers:

* an **ArmadaManifest** lists ArmadaChartGroups and enables them one after the other;
* an **ArmadaChartGroup** lists ArmadaCharts and enables them either one at a time
  (`sequenced`) or all together;
* an **ArmadaChart** is installed as a Helm v2 release by the embedded Tiller.

## 1. Inventory

### Parts and how they interact

| Part | Source | State it changes | Operations |
|---|---|---|---|
| ArmadaChart controller | `controller/armada/chart_controller.go` | the ArmadaChart (finalizer, status), the Helm release | Reconcile: Get, Init, updateFinalizers, ensureSynced, deleteArmadaChart, the parked write-back, installArmadaChart, updateArmadaChart, reconcileArmadaChart |
| Helm v2 chart manager | `helmv2/chart_manager.go` | the release versions in Tiller's storage | Sync (purges non-deployed versions), InstallRelease (purges on failure, helm#3338), UpdateRelease (rollback), ReconcileRelease, UninstallRelease |
| ArmadaChartGroup controller | `controller/armada/chartgroup_controller.go` | the group (finalizer, status); its charts' owner references | Reconcile, ensureSynced, deleteArmadaChartGroup, watchArmadaCharts, reconcileArmadaChartGroup |
| ArmadaChartGroup manager | `armada/chartgroup_manager.go` | the charts' TargetState; deleting charts | Sync, ReconcileResource (GetNextToEnable or GetAllDisabledCharts), UninstallResource |
| ArmadaManifest controller and manager | `controller/armada/manifest_controller.go`, `armada/manifest_manager.go` | the manifest; its groups' TargetState and owners | the same skeleton one tier up; never requeues, never marks itself Deployed |
| CRD types | `apis/armada/v1alpha1/armadachart_types.go` | none | Init, IsTargetStateUninitialized, GetNextToEnable, GetAllDisabledCharts |
| Watches | `controller/armada/base_controller.go`, `services/watches.go`, `services/kubernetes_entrypoint.go` | the work queues, the in-memory map of watched kinds | the dependent predicate (no creates; no ConfigMap/Secret updates; Pod, Job and Workflow status changes; otherwise only non-status changes), watch registration for released resources |
| Release readiness | `services/helmv3_release.go`, `helmv2/chart_manager.go` (reconcileRelease) | the release's cache of live objects; re-created resources | GetDependentResources, IsReady, the per-kind readiness rules |
| Chart sources and cache | `helmv2/source.go`, `chart_cache.go`, `values.go`, `helmv2/chart_manager.go` (loadChartAndConfig) | the process-wide DirCache and ChartCache, chart directories on disk | getChart (clone, download, copyDependency, LoadDir), processRequirements |
| Tiller, Helm v3 | `helmv2/handlers/*`, `helmv3/*` | Kubernetes resources | I/O, and a Helm v3 manager whose operations are stubs |

The controllers run in one process under controller-runtime. Each has one worker
(`MaxConcurrentReconciles` defaults to 1) and a de-duplicating work queue, so
reconciles of different kinds interleave but one kind never runs two at
once. They share no memory; they interact only through the API server.
* A group enables a chart by updating its `spec.target_state`.
* A group takes ownership of a chart by setting a controller owner reference.
* A chart change wakes its group only when the dependent predicate lets it through.
* Deleting a group deletes its charts, whose finalizers run the Helm uninstall.

Writes are `Update` (spec and metadata) and `Status().Update` (status
subresource), both checked against the resourceVersion read.

### What makes it hard
* **Stale reads.** Every reconcile works on objects from the informer cache,
  which may lag. A write based on an old read fails on resourceVersion, and the
  reconcile is retried.
* **The stored `Satisfied` flag is recomputed only by the chart controller.** The
  group reads the stored flag, and that flag is not up to date after an enable.
* **Requeue rules.** An error, or `Requeue: true`, requeues with backoff.
  `RequeueAfter: 0` does not requeue at all. The chart controller's
  reconcilePeriod is 0; the group's is 300 ms.
* **Watches live in memory.** The chart controller adds a watch on a kind of
  dependent resource the first time a reconcile reports that kind. An operator
  restart empties that map.
* **Tiller's release storage lives in memory.** The manager factory builds
  Tiller's storage on the memory driver, and syncReleaseStatus restores no
  record. After a restart a deployed chart has no release, so it is installed
  again.
* **Finalizers.** Helm uninstall and the finalizer removal are two steps, and a
  crash or a conflict can fall between them.

### What each part needs
* **Chart controller:** no release without its chart, deletion that finishes, and
  convergence to Deployed.
* **Group:** list order when sequenced, at most one chart in flight, enabling that
  is never undone, convergence, and deletion of its charts.
* **Manifest:** the same one tier up, plus progress that does not depend on the
  10-hour resync.

## 2. Plan

1. `ArmadaTypes`: the data model and the helper methods (done).
2. `ChartGroupReconcile`: both controllers of one group and its charts, the Helm
   release store, the watches and queues. This is the core (done).
3. `ManifestReconcile`: the manifest controller over groups, with each
   group controller reduced to its writes on the group (done). Run: whether
   the manifest enables G2 without a resync.
4. `SequencerAbstract`, with a refinement from `ChartGroupReconcile` (done).
   It states the abstract promise: charts are enabled one at a time, in order,
   never disabled, and all eventually. It is checked as a PROPERTY through
   INSTANCE ... WITH.
5. `GetNextToEnable` against the contract of spec §4.1, over all short chart
   lists and stored states, and the readiness rules over every pair of
   resource versions (done; checked as invariants of the converge and
   watch_converge runs).
6. API errors on the group's chart writes: the enabling Updates of
   ReconcileResource and the Deletes of UninstallResource, with the garbage
   collector removing charts a deleted group leaves behind (done). The same
   for the manifest's enabling Updates and watchArmadaChartGroups (done);
   the manifest's failing Deletes are not modelled.
7. The readiness rules of kubernetes_entrypoint.go (`KubernetesDependency`)
   and the dependent watches of one chart with operator restarts
   (`DependentWatch`) (done).
8. `ChartSource`: getChart and loadChartAndConfig with the process-wide
   chart and directory caches (done).
9. Next: the Helm v2 release store (the update and rollback paths of
   chart_manager.go), and spec drift patched by reconcileRelease.

## 3. Modules

### `ArmadaTypes.tla`
An object (ArmadaChart or ArmadaChartGroup) is a record of the fields the
reconcilers read and write: `exists`, `target` (spec.target_state), `actual`
(status.actual_state), `satisfied` (status.satisfied), `fin` (the controller's
finalizer), `deleting` (deletionTimestamp) and `owned` (a controller owner
reference). "empty" stands for an unset string.
* `InitObject` is `ArmadaChart.Init`.
* `GetNextToEnable` (RECURSIVE `NextToEnableFrom`) and `GetAllDisabledCharts`
  translate `ArmadaCharts`.
* `IsReady`, `SetCondition` and `ConditionState` follow the spec, because
  `ArmadaCharts.IsReady` and the `HelmResourceStatus` methods are not in the
  repository's `src/`.

### `ChartGroupReconcile.tla`
Constants:
* `ChartOrder`: the group's `spec.charts`.
* `HtkCharts`: the charts named `-htk`.
* `Sequenced`.
* `ChartInitTargets`, `GroupInitTargets`: the TargetStates users create objects with.
* `AllowDelete`.
* `MaxFailures`: a bound on Helm failures.
* `FailingWrites`: which of the group's API writes can fail: the chart
  Updates of ReconcileResource (`"enable"`) and the chart Deletes of
  UninstallResource (`"delete"`).
* `MaxApiErrors`: a bound on those failures.

Variables:
* `chart`, `group`: the API server's objects.
* `release`: none, deployed or failed, per chart.
* `ready`: the released resources are ready.
* `chartQueue`, `groupQueue`: the work queues.
* `chartWork`, `groupWork`: the reconcile in progress, with the objects it read.
* `failures`, `apiErrors`: the Helm and API failures so far.

A reconcile is two steps:
1. `ChartRead(c)` / `GroupRead` takes a key off the queue and reads the
   objects. For the group this includes every chart, as `chartgroupmanager.Sync` does.
2. One commit action per branch of `Reconcile` then does all of that branch's
   writes, in code order.

A write of an object succeeds only if the object is unchanged since the read
(`ChartFresh`, `GroupFresh`); once one write succeeds, the rest in the same
reconcile also succeed, because the instance carries the new resourceVersion.
`Publish` applies the writes, raises the watch events and adds the requeues
the returned `reconcile.Result` asks for.

| Action | Code |
|---|---|
| `ChartNotFound`, `GroupNotFound` | Get returns NotFound |
| `ChartAddFinalizer`, `GroupAddFinalizer` | updateFinalizers, `Requeue: true` |
| `ChartSyncFailed` | ensureSynced error on a live chart; `SyncFailurePoints` lists where Sync can fail (history read, stale-version delete, loadChartAndConfig, getDeployedRelease, getCandidateRelease when a release is deployed) and `ReleaseAfterFailedSync` keeps the failed version when the failure came before the purge loop finished |
| `ChartUninstallFailed` | deleteArmadaChart when uninstallRelease finds no history (the wrapped error) |
| `ChartUninstalled` | purge, status, finalizer removal |
| `ChartParked`, `GroupParked` | TargetState uninitialized: Update then Status().Update of the initialized object |
| `ChartInstalled`, `ChartInstallFailed` | installArmadaChart; RequeueAfter 0 means no requeue on success |
| `ChartReleaseReady`, `ChartReleaseNotReady` | reconcileArmadaChart and the final status write |
| `GroupSyncFailed` | a listed chart is missing |
| `GroupDeleted` | UninstallResource deletes the live charts, some Deletes possibly failing (`FailedWrites`); `UninstallErrorIgnored` maps the errors to ErrNotFound when the first is a NotFound; finalizer removal |
| `GroupUninstallFailed` | the same deletes, when the first error is a real one: UninstallResource returns a nil `*ArmadaCharts` and the Failed condition calls its `GetName` (chartgroup_controller.go:317), so the worker panics with no status write and the operator restarts (`OperatorRestarted`) |
| `OperatorRestarted` | the process restarts: every live key queued, no reconcile in flight, and the in-process Tiller's memory storage (manager_factory.go:45) empty, so every release record is lost |
| `GroupChartsReady`, `GroupChartsNotReady` | `GroupReconciled`: ReconcileResource (`ChartsToEnable`, `Enable`; a failed Update leaves its chart as it was and is not returned), watchArmadaCharts, then IsReady on the charts Sync read: Deployed, or a 300 ms requeue with no write |
| `CreateChart`, `EnableGroup`, `DeleteGroup`, `ResourcesReady` | the environment: users, the manifest controller's ReconcileResource, the released Pods and Jobs becoming ready (their status change passes the predicate) |
| `GarbageCollect(c)` | the Kubernetes garbage collector deleting a chart whose owner group is gone |
| `ResyncCharts`, `ResyncGroup` | the informers' periodic resync (only when `Resync`): the unfiltered own watches at chart_controller.go:71 and chartgroup_controller.go:66 queue every existing chart, and the group |

A change to a chart always wakes the chart controller. It wakes the group only
through `ChartNotifiesGroup`: the chart has or gets the group as owner, it
existed before the change, and something other than its status changed. The
group's own writes wake the group.

Not modelled here, because the code cannot reach it:
* `updateArmadaChart`: `IsUpdateRequired` is always false.
* The group's install and update branches.

Not modelled:
* API errors of the status writes other than conflicts. The chart's
  updateResourceStatus logs and drops them. The group's returns them, and
  the reconcile is requeued. Either way this matches the model's stale
  write: nothing is written, and the requeue follows the code.
* Failures of reconcileRelease and the watch updater. `DependentWatch` models
  them for one chart.
* The IsFailedOrError branch of reconcileArmadaChart. It calls a HelmRelease
  method that this tree does not define for the v2 build (helmv3_release.go
  carries the `v3` tag).

### `SequencerAbstract.tla`
This is the promise of a sequenced group, with one variable: `enabled`, the
charts whose TargetState is Deployed. Its one action, `EnableNext`, adds the
first chart of the list not enabled yet, and it is weakly fair.
`ChartGroupReconcile` maps `enabled` to `EnabledCharts` through the instance
`Sequencer`, and `SequencerRefinement` is `Sequencer!Spec`. The abstract
promise says nothing about the group's Deployed state, because
premature_deployed shows that the code does not keep one.

### `Values.tla`
The values helpers of helmv2/values.go as recursive operators on YAML trees.
A tree is null (`Nil`), a scalar, or a map: a function whose domain is its
keys.
* `RemoveNil` is removeNil (values.go:92-110). It builds a new map without
  the keys that hold null, and cleans nested maps the same way.
* `NormalizeConfig` is normalizeConfig (75-90), which loadChartAndConfig
  calls on the marshalled spec.values (chart_manager.go:189). A null
  document unmarshals into the empty map.
* `MergeValues` is mergeValues (48-72). src wins for each key it has,
  except that two maps under one key are merged key by key.
* `MergeConfig` is mergeConfig (26-46): a left fold of mergeValues from the
  empty map. Nothing in the operator calls it.

YAML lists are not modelled. removeNil copies a list as it is, so a null
inside a list of maps survives.

### Checks of the pure operators
The pure operators are checked against reference definitions inside the runs
that use them, as state-level invariants whose first conjunct ranges over
every input:
* `NextToEnableMeetsContract` (`MCChartGroupReconcile`, run converge): every
  list of up to three distinct charts and every stored TargetState and
  Satisfied flag; the recursive scan is compared with
  `ContractNextToEnable`, a quantified restatement of spec §4.1, and also on
  the current state's charts.
* `RemoveNilMeetsContract` and `MergeValuesMeetsContract`
  (`MCChartGroupReconcile`, run converge). The inputs are every tree of two
  levels on keys a and b, with inner maps on key a. Each value is one of two
  scalars, null, or a map. Scalars and null are model values, so TLC can
  compare them with maps. `Lookup` reads a tree at a path. The contracts
  are stated path by path:
  * normalizeConfig keeps every scalar and every map at its path, and
    leaves no key for a null;
  * mergeConfig of ⟨dest, src⟩ puts each leaf src sets at its path;
  * a dest leaf survives unless src sets that path, or sets a leaf on a
    prefix of it (`Overridden`);
  * no other leaf or path appears.

  Both contracts are constant. TLC evaluates them once, as an invariant of
  the first well-typed state.
* `ReadinessFlipNotifies` (`MCDependentWatch`, run watch_converge): every kind
  and every pair of resource versions; a change of `IsUnstructuredReady`
  passes the predicate, and so does the change between each resource's
  cached and live version in every reachable state.

### `KubernetesDependency.tla`
This module holds the readiness rules of `kubernetes_entrypoint.go`, with no
variables. A resource is reduced to what the rules read:
* `podReady`: the status of its PodReady condition, or "none";
* `succeeded`: a Job's `status.succeeded`, 0 or not;
* `phase`: a Workflow's `status.phase`, with "nostatus" for no status map and
  "nophase" for a status map without a phase.

`ExtractPhase` is `extractField("status.phase", ...)`. It returns "" for a
missing status, and `Panic` where the Go type assertion panics.
`IsUnstructuredReady` and `UnstructuredStatusChanged` dispatch on the kind as
the code's switch does. The default kind, written "Service", is always ready
and never changed. `UpdatePasses` is the predicate's UpdateFunc for an update
that leaves the spec alone. `ManifestRes` is a resource as the release
manifest, or a create from it, has it: no status.

### `DependentWatch.tla`
It models one enabled chart, its Helm release and the resources of the
release manifest (`Res`, each of kind `KindOf[r]`).

Variables:
* `chart`: the ArmadaChart.
* `released`: whether Tiller's storage holds the deployed release.
* `res`: the resources in the API server.
* `queue`: the chart's key on the work queue.
* `work`: the reconcile in progress, with the resources reconcileRelease cached.
* `watched`: the watch updater's map of kinds.
* `drift`: how each resource's spec differs from the manifest: not at all,
  by fields the manifest does not set (`"extra"`), or by a field it sets
  (`"changed"`).
* `restarts`, `deletes`, `drifts`, `apiErrors`: counters bounded by
  `MaxRestarts`, `MaxDeletes`, `MaxDrifts` and `MaxApiErrors`.

`ResOrder` is the order in which `BuildUnstructured` returns the manifest's
resources. reconcileRelease visits them in that order, and the watch updater
walks the dependent resources in it.

| Action | Code |
|---|---|
| `ChartInstallRelease` | installArmadaChart with none of the manifest's resources present: InstallRelease creates every resource; the predicate drops the creates |
| `ChartInstallFailed` | installArmadaChart when a resource already exists: Tiller's install fails on it and records a FAILED release, installRelease's helm#3338 workaround uninstalls it with purge (every resource is deleted), the Failed condition is written and the error requeues the chart |
| `ChartInstalled` | installArmadaChart: watchDependentResources on the manifest's kinds, then the Running status |
| `ChartReconcileRelease` | reconcileRelease: Get each resource; cache an existing one (as read) and Patch it when `GeneratePatch` is not empty, which queues the chart again if its kind is watched; create a missing one, which is not cached |
| `ChartReconcileFailed` | reconcileRelease fails at the i-th resource (a Get error other than NotFound, or a failed Create or Patch): the resources before it were visited (`VisitResources`), the rest are not; reconcileArmadaChart writes Irreconcilable and returns the error, which requeues the chart |
| `ChartWatchFailed` | the watch updater fails (RESTMapping or Watch) on the first kind not yet watched, after watching the kinds before it; installArmadaChart or reconcileArmadaChart returns the error without a status write |
| `ChartReconciled` | reconcileArmadaChart: watchDependentResources on `GetDependentResources`, then Deployed if `IsReleaseReady`, else the initialized status; no requeue either way |
| `ResourceStatusUpdate` | the cluster moves a resource's status forward; the chart is queued if the kind is watched and `UpdatePasses` |
| `ResourceDeleted` | someone deletes a resource; the predicate passes deletes |
| `DriftSpec` | someone changes a resource's spec; the predicate's spec-changed branch passes it (`SpecUpdatePasses`) |
| `OperatorRestart` | the process restarts: the reconcile in progress is lost, `watched` is empty, Tiller's memory storage is empty (`ReleaseRestored` is FALSE: syncReleaseStatus sets the release to restore to nil), the chart informer's initial list queues the chart |
| `ResyncChart` | the chart informer's periodic resync |

`GeneratePatch` is generatePatch: the JSON patch from the live object to the
manifest's (`JsonPatchOps`: always a "remove" for the status and the server's
metadata, a "replace" for a changed managed field) without its "remove"
operations, so fields others add are left alone. `WatchDependentResources` is
watchDependentResources: the kinds of the given resources join `watched`.

A status write on the chart queues it again through its own watch when it
changes the object. The model has no Helm failure, because `ChartGroupReconcile`
covers that. This module details that module's `ready` flag and its
`ResourcesReady` action.

### `ManifestReconcile.tla`
It models one ArmadaManifest and the groups it lists (`GroupOrder`, which is
`spec.chart_groups`). The manifest worker follows the same two steps:
`ManifestRead` reads the manifest and every listed group, as
`manifestmanager.Sync` does. One commit action per branch of
`ManifestReconciler.Reconcile` follows.

| Action | Code |
|---|---|
| `ManifestNotFound` | Get returns NotFound |
| `ManifestAddFinalizer` | updateFinalizers, `Requeue: true` |
| `ManifestSyncFailed` | a listed group is missing: Irreconcilable, error returned |
| `ManifestDeleted` | deleteArmadaManifest: UninstallResource deletes every group (NotFound is done), status, finalizer removal, requeue |
| `ManifestParked` | TargetState uninitialized: Update then Status().Update |
| `ManifestReconciled` | reconcileArmadaManifest (ReconcileResource enables `GroupsToEnable`; watchArmadaChartGroups takes ownership) then the status write; a requeue only if that write fails |
| `GroupCtlAddFinalizer`, `GroupCtlParked`, `GroupCtlDeployed`, `GroupCtlDeleted` | the group controller's writes on a group, as `ChartGroupReconcile` makes them |
| `CreateGroup`, `DeleteManifest`, `ResyncManifest` | the environment: users, and the informers' periodic resync |

`GroupsToEnable` uses the same `GetNextToEnable` as the charts. The
`ArmadaChartGroups` type is not in `src/`, and spec §4.3 says it uses the
algorithm of §4.1. A group event wakes the manifest only through
`DependentNotifies`, the dependent predicate: a group turning Deployed is
status-only and does not pass. `updateArmadaManifest` is unreachable, since Sync
always sets `isUpdateRequired` false.

The fault model: `FailingWrites` says which of the manifest's group writes
can fail (`"enable"`, the Update in ReconcileResource; `"own"`, the Update in
watchArmadaChartGroups) and `MaxApiErrors` bounds how many fail in a run
(`apiErrors` counts them). `ManifestReconciled` picks the failing writes with
`FailedWrites`. A failed enable leaves the group as it was, but
ReconcileResource appends the nil Get error instead of the Update's
(manifest_manager.go:162), so the reconcile goes on as if it had succeeded.
watchArmadaChartGroups collects its errors and returns nil
(manifest_controller.go:288), so a group it failed to own is left unowned,
and that group's events never wake the manifest.

### `ChartSource.tla`
It models how the Helm v2 chart manager gets the chart of an ArmadaChart:
`loadChartAndConfig` (chart_manager.go:176-211), which calls
`source.getChart` (source.go:62-124) and then `processRequirements`. The
chart controller has one worker, so each load is one action. State:
* `dirCache`: the sources DirCache holds a directory for, keyed per source
  (location, plus reference for git);
* `chartCache`: the chart ChartCache holds per chart path (`Path(c)`: the
  cached directory and the subpath; for a local source, the location alone);
* `toolkitOnDisk`: the chart directories copyDependency wrote helm-toolkit into;
* `values`: per chart, the conditional subcharts its values enable;
* `loaded`: the chart the last load returned;
* `stray`: temporary files and directories under the charts root that no
  cache refers to.

A chart is abstracted to its conditional subcharts and whether helm-toolkit
is among them. `ProcessRequirements` removes the subcharts the values
disable, as Helm's `ProcessRequirementsEnabled` does, in place on the chart
it is given. That chart is the object ChartCache holds, so
`LoadChartOk` stores the processed chart back in the cache.
`LoadChartFailed` fails at one of `FailurePoints`: a step of the fetch
(nothing cached), copyDependency or LoadDir (the directory is cached; a
failed LoadDir leaves helm-toolkit copied). The fetch steps are those of
gitClone, goGitClone and goGitCheckout (`GitCloneSteps`) or of
downloadTarball, extractTarball and readFromArchive (`DownloadSteps`,
`ExtractSteps`). What each leaves on disk is `GitStray` and `TarballStray`:
goGitClone removes the new directory and makes it again, so a failed
MkdirAll leaves nothing, and a tarball file is never removed, not even after
a successful extraction.
A git source with the ssh or http auth method is always refused
(`FetchRefused`). The environment changes a chart's values (`EditValues`) and
restarts the operator (`OperatorRestart`), which empties both caches and
orphans every cached clone and extraction; a local source's directory keeps
what was copied into it.

## 4. Runs

The chart-group runs use `MCChartGroupReconcile.tla`, the manifest runs
`MCManifestReconcile.tla`, the dependent-watch runs `MCDependentWatch.tla`,
and the chart-cache run `MCChartSource.tla`.
Chart, group and resource names are model values.

| Run | cfg | Expect | Checks |
|---|---|---|---|
| converge | `MCConverge.cfg` | pass | TypeOK, SequencedOrder, NextToEnableMeetsContract, RemoveNilMeetsContract, MergeValuesMeetsContract, EnableMonotonic, Converged, SequencerRefinement |
| parallel_converge | `MCParallelConverge.cfg` | pass | NoOrphanRelease, Converged |
| lost_enable | `MCLostEnable.cfg` | violation | Converged |
| premature_deployed | `MCPrematureDeployed.cfg` | violation | DeployedMeansChartsDeployed |
| in_flight | `MCInFlight.cfg` | violation | AtMostOneInFlight |
| deletion | `MCDeletion.cfg` | violation | DeletionCompletes |
| manifest_safety | `MCManifestSafety.cfg` | pass | TypeOK, ManifestOrder, CascadeDelete, AllGroupsDeployed |
| manifest_stall | `MCManifestStall.cfg` | violation | AllGroupsDeployed |
| watch_converge | `MCWatchConverge.cfg` | pass | TypeOK, ReadinessFlipNotifies, ChartEventuallyDeployed, DriftRepaired |
| restart_reinstall | `MCRestartReinstall.cfg` | violation | NoResourcePurged |
| recreated_unready | `MCRecreatedUnready.cfg` | violation | DeployedOnlyWhenAllReady |
| stale_chart_cache | `MCChartCache.cfg` | violation | LoadsAsFresh |

* **SequencedOrder.** In a sequenced group a chart is enabled only after every
  earlier chart. It is checked with charts created uninitialized, so an enabled
  chart was enabled by the group. It holds: a chart in flight stops the scan,
  and a stale `Satisfied` flag only skips charts that are already enabled.
* **EnableMonotonic.** An enabled chart is never reset to uninitialized. The
  parked path writes back the object it read, and only the resourceVersion
  check stops it from undoing a concurrent enable.
* **NoOrphanRelease.** A Helm release never outlives its ArmadaChart: the
  finalizer is on the chart before anything is installed, and it is removed
  only after the purge. Checked in parallel_converge, with group deletion,
  failing chart Deletes and garbage collection. A failed Delete that is the
  first error crashes the operator: chartgroup_controller.go:317 builds the
  Failed condition from `uninstalledResource.GetName()`, and
  UninstallResource returned nil. That is a code bug, modelled by
  GroupUninstallFailed. The property holds through the crash only because
  the restart forgets every release. The released resources stay in the
  cluster with no release to remove them, and no property here watches
  them.
* **Converged.** If the group is never deleted, all charts and the group end
  Deployed. This holds despite the filtered events: the group polls while not
  ready, and its own status writes wake it. parallel_converge also lets the
  group be deleted with two chart Deletes failing; charts it leaves
  behind are removed by the garbage collector.
* **Converged** is violated in lost_enable, a code bug. With one failing
  enable Update, c1 is deployed and the group, already Deployed through the
  premature-Deployed path, enables c2; the Update fails. ReconcileResource
  appends `err` (the nil Get error) instead of `err2` at
  chartgroup_manager.go:172, so it returns nil, the group writes no error and
  asks for no requeue. Nothing else wakes the group, so c2 stays
  uninitialized until the informers' periodic resync re-runs the group
  reconcile, which is 10 hours later by default. The run leaves the resync
  out (`Resync = FALSE`). With the resync given weak fairness, Converged
  holds: the reconcile it triggers enables c2. The bug is therefore a wait
  of up to a resync period, not a permanent stall. Spec §4.2 says the first
  per-member error is returned and a member's failure aborts the success
  transition. A returned error would be retried with backoff at once.
* **SequencerRefinement.** With both workers, a Helm failure and stale
  snapshots, the enabled charts grow one per step in list order, are never
  disabled, and end complete. Three charts also pass (3.05 million states,
  11.5 minutes); the run keeps two.
* **NextToEnableMeetsContract.** The scan returns exactly the contract's
  candidate for all 3,456 inputs, including a raw unset TargetState, which
  counts as enabled.
* **ReadinessFlipNotifies.** For all 14,400 pairs of versions of a resource,
  across the four kinds, a change of readiness passes the predicate; so does
  every reachable change between a resource's cached and live versions. Every
  readiness rule reads a field that the kind's change detector also compares.
* **DeployedMeansChartsDeployed** is violated, a code bug. Both charts are
  parked uninitialized and stored Satisfied. The group enables c1 and, in the
  same reconcile, judges IsReady on the charts Sync read before the enable, so
  it writes Deployed while c2 has never been enabled. The manifest applies the
  §4.1 gate to its groups, so it takes this group as finished and enables the
  next one.
* **AtMostOneInFlight** is violated, a code bug. The chart controller parks c1
  and stores `Satisfied=true`. The group enables c1, then reads c1 again before
  the chart controller has reconciled it; `GetNextToEnable` skips c1 on the
  stale flag and enables c2. Both now deploy at once, against spec §4.1 and §5.
  The model writes the initialized status on the park. This is what happens the
  first time a chart is parked: its stored status is still empty, so the
  response of the Update at line 161 leaves the initialized status in place,
  and the Status().Update at line 165 persists it.
* **DeletionCompletes** is violated, a code bug. A chart with a finalizer but no
  release history gets a wrapped not-found error from `uninstallRelease` on
  every retry and stays terminating forever. A chart has no history when it
  was never installed, when Sync purged its failed release, or when its
  finalizer removal conflicted after the purge.

* **ManifestOrder.** Groups are enabled in `spec.chart_groups` order, while
  the group controller rewrites the same groups concurrently.
* **CascadeDelete.** Once the manifest is gone, no group it owned is left
  live. A manifest deleted before it ever got its finalizer owns no group, and
  the property says nothing about it.
* **AllGroupsDeployed.** A manifest that is never deleted and not left
  uninitialized ends with every group Deployed. It holds with the periodic
  resync (manifest_safety, where deletion is also possible and up to two of
  the manifest's enabling and ownership Updates fail). A failed enable is
  reported as success (manifest_manager.go:162), and a failed ownership
  leaves a group whose events never wake the manifest; the resync is what
  gets every group Deployed. It is violated
  without the resync (manifest_stall), a spec/code divergence. The
  manifest enables G1 and returns an empty Result. G1 turning Deployed is a
  status-only change, which the predicate drops, so nothing enables G2. Spec
  §4.4 says a reconcile whose children are not ready requeues after
  reconcilePeriod, and §8 says a second reconcile enables G2 once G1 is
  Satisfied. In the cluster, G2 waits for the 10-hour resync or an unrelated
  event.

* **ChartEventuallyDeployed.** Once every resource of the release is ready
  for good, the chart ends Deployed. watch_converge covers a Pod, a Job and a
  Workflow, one deletion and re-creation, and one restart, with the chart
  informer's resync; there it holds. Without the resync it fails: the
  watch updater fails on the Pod kind before registering it, the Pod is then
  deleted and re-created by reconcileRelease's Create, which does not add it
  to the cache, so later reconciles watch only the cached kinds and the Pod
  turning ready never queues the chart. Only the resync reaches it. A resource that gets ready before its
  kind is watched is covered by the Running status write, which queues the
  chart itself.
* **DriftRepaired.** A managed field someone else changed is eventually
  patched back. It holds in watch_converge, with one spec change, one
  deletion and one restart. It fails when generatePatch keeps only "add"
  operations, since a changed field is then never replaced.
* **NoResourcePurged** is violated in restart_reinstall, a code bug. It says
  that no step of the chart controller deletes a resource of the release of a
  chart that is neither deleted nor disabled. The trace has four states: the
  chart is installed, the operator restarts, and the reconcile finds no
  release in Tiller's memory storage. installArmadaChart runs again. Tiller
  fails on the first resource that already exists and records a FAILED
  release, and the helm#3338 workaround (chart_manager.go:268) uninstalls it
  with purge. The chart is marked Failed, and the next reconcile installs it
  afresh. So every restart deletes and re-creates the workloads of every
  deployed chart. Spec §1 promises idempotent convergence, and §4.4 leaves a
  chart in steady state until an external event. The model takes Helm v2's
  install behaviour from Tiller, which is not in this repository: its kube
  client's Create fails with AlreadyExists, and a failed install returns the
  FAILED release with the error.
* **LoadsAsFresh** is violated in stale_chart_cache, a code bug. Two charts
  use the same git source and subpath. c1, whose values disable the subchart,
  loads first: processRequirements removes the subchart from the chart
  ChartCache holds. c2, whose values enable it, then gets that stripped chart
  from the cache, and would be installed without it until the operator
  restarts. The same happens to one chart whose values change. The comment
  at chart_manager.go:177 says the chart must be reloaded every time because
  processRequirements mutates it, and spec §5 says the caches can only cause
  redundant reloads, not corruption.
* **DeployedOnlyWhenAllReady** is violated in recreated_unready, a code bug.
  A Pod beside a Service is deleted, and the reconcile re-creates the Pod. The
  create path of reconcileRelease returns without caching the Pod. IsReady
  then judges the release on the cached Service alone, and the chart is
  marked Deployed while the new Pod has no status. A group waiting on this
  chart would enable the next one.

Every property of a passing run has a mutant in PROJECT.json, and TLC finds the
property violated when the mutant is substituted:
* TypeOK: a condition type stored as the state.
* SequencedOrder: the scan starting one entry late.
* NoOrphanRelease: the chart finalizer never added.
* EnableMonotonic: writes not checked against the resourceVersion.
* Converged: the released resources not watched.
* SequencerRefinement: writes not checked against the resourceVersion.
* NextToEnableMeetsContract: the scan stopping at the first enabled chart,
  Satisfied or not (the same mutant is used for AllGroupsDeployed).
* RemoveNilMeetsContract: removeNil dropping the nulls of the top level
  only.
* MergeValuesMeetsContract: mergeValues keeping dest's value for a key both
  maps hold.
* ReadinessFlipNotifies: UnstructuredStatusChanged without its Workflow case.
* ChartEventuallyDeployed: GetDependentResources ignoring the cache and
  always parsing the manifest.
* TypeOK of watch_converge: the same mutant as the other TypeOKs.
* DriftRepaired: generatePatch keeping only "add" operations. (Inverting the
  filter, so that only removes are kept, does not break it: every resource
  is then patched, and the changed field with it.)
* ManifestOrder, and TypeOK of manifest_safety: the same mutants as
  SequencedOrder and TypeOK.
* CascadeDelete: the manifest finalizer never added.
* AllGroupsDeployed: the scan stops at the first enabled group, Satisfied or
  not.

### Bounds
* Two charts is the least that can show ordering, a second enable in flight,
  and one controller's write racing the other's. Three charts give 9.4 million
  states and add no new branch.
* `MaxFailures = 1` exercises each Helm failure path, both the retry after it
  and the purge of a failed release, while keeping the runs short.
* The converge run creates the charts uninitialized, so that the group
  enables them, as the refinement requires. parallel_converge creates them
  unset (defaulting to Deployed; converge covers uninitialized charts),
  without a Helm failure but with two failing chart Deletes (665,351
  states, 72 seconds). The first failure is the first error and crashes
  the operator (see GroupUninstallFailed). A chart with no finalizer yet
  is gone at once, so the retry can meet a NotFound before the second
  failure. The finalizer is then removed, and the owned chart that outlives
  its group is left to the garbage collector. With one failing Delete
  the garbage collector never acts.
* lost_enable needs one failing enable Update, and both charts created
  uninitialized so that the group is the one to enable them.
* Charts may start absent (created later) or present, uninitialized or unset.
  This covers Sync failures, the `-htk`-free defaulting to Deployed, and parking.
* Three groups for the manifest: the group controller is only four actions,
  so three are cheap, and they give a middle group both before and after
  it. manifest_safety lets two group writes fail (184 thousand states):
  enough for a failed enable and a failed ownership in one run.
* Chart cache: two charts sharing one git source and subpath, one with
  dependencies, one conditional subchart, one failure and one restart. Two
  charts at one path is the least that shows aliasing between charts; the
  trace needs two loads.
* Dependent watches: a Pod, a Job and a Workflow, one of each readiness rule,
  with one deletion, one spec change, one restart and one failed API call
  (of reconcileRelease or the watch updater), give 151,837 states. The two violation
  runs use the smallest release that shows each: a Pod and a Workflow with
  one restart, and a Pod beside an always-ready Service. A resource's status only moves forward (Pod
  none→False→True, Job 0→1, Workflow nostatus→Running→Succeeded or Failed).
* Deadlock is not checked: a converged system waits with empty queues, as the
  operator does.

### Fairness
* Weak fairness on each worker's read of every queued key, and on finishing the
  reconcile it started. controller-runtime's worker drains its queue.
* In `ChartGroupReconcile`, the chart worker's read of a key is strongly
  fair (`SF_vars(ChartRead(c))`). The model's queue is a set, but
  controller-runtime's workqueue is FIFO: a queued key is served after
  finitely many others. Weak fairness would let a resync that re-queues one
  chart over and over starve the other, which the FIFO queue cannot do.
* `ResyncCharts` and `ResyncGroup` in `ChartGroupReconcile` model the
  informers' periodic resync. The chart controller's and the group
  controller's own watches have no predicate, so the resync re-queues every
  existing chart and the group. These actions have no fairness. The
  passing runs' liveness properties therefore hold in behaviours where the
  resync never comes, and do not rest on a 10-hour wait. The converge run
  enables the resync, so its safety properties also cover resync
  interleavings. Every other chart-group run sets `Resync = FALSE`.
* Weak fairness on the environment actions the liveness property needs: charts
  are created, the manifest enables the group, and released resources become
  ready.
* Deleting the group or the manifest has no fairness.
* In `ManifestReconcile`, each group controller is weakly fair; its
  convergence is what `ChartGroupReconcile`'s Converged shows. The resync is
  weakly fair when it is modelled: controller-runtime's informers resync every
  10 hours by default, and the repository sets no SyncPeriod.
* In `DependentWatch`, the chart worker's steps are weakly fair, and so is
  the resync where it is modelled. The cluster moving a resource forward has
  no fairness: the liveness property assumes that the resources end ready.
  Restarts and deletions are bounded and not fair.
* Failures are bounded, so the retries end.
* `GarbageCollect(c)` is weakly fair: the Kubernetes garbage collector
  deletes the dependents of a deleted owner.

## 5. Not modelled
* **Tiller, clone, download, and the values in `ChartSource`.** Tiller,
  clone and download are I/O. `ChartSource` reduces a chart's values to the
  subcharts they enable. The merging itself is checked in `Values`.
  `ChartSource` counts the temporary paths left behind, but no property
  bounds them: nothing in the code removes them (sourceCleanup is never
  called). Open descriptors (downloadTarball and extractTarball close
  nothing) and tar entry names (readFromArchive writes `../x` outside the
  extraction directory) are listed as hazards, not modelled.
* **Helm v3 manager.** helmv3/* builds only with the `v3` tag, and its
  chart manager is a stub: Install, Update, Reconcile and Uninstall return
  empty releases without calling Helm. The model follows the v2 build.
* **Helm v2 handlers.** helmv2/handlers/* is pseudocode transliterated from
  Python (`self`, untyped maps); four of its files carry the `wip` build tag.
  Nothing in the controllers calls it.
* **A chart left behind by group deletion.** When the first Delete error is
  a NotFound, a later real Delete error is dropped and the finalizer removed;
  an unowned chart then stays. The fault model reaches this, but no run
  checks it.
* **The reinstall after a crash, in `ChartGroupReconcile`.** When
  GroupUninstallFailed crashes the operator, the releases of the charts that
  stay are lost. `DependentWatch` shows that the next install of such a chart
  fails on its existing resources, purges them and is retried. Here the
  reinstall may just succeed, or fail only within `MaxFailures`. The model
  therefore allows more behaviours than the code, which is sound for
  NoOrphanRelease. The controller-runtime of this code base (Reconcile
  without a context) does not recover a worker's panic, so the process ends.
* **Failing group Deletes of the manifest.** UninstallResource keeps only
  the first error (manifest_manager.go:191), so a NotFound on the first
  group hides a later real failure. `ManifestReconcile` fails the enabling
  and ownership Updates but not the Deletes; owned groups left behind are
  removed by the garbage collector, and a never-owned group would stay.
* **Per-kind readiness rules in `ChartGroupReconcile`.** There they are one
  boolean per release; `DependentWatch` details them for one chart.
* **The extractField panic.** A Workflow whose status map lacks `phase` makes
  `extractField` (kubernetes_entrypoint.go:134) panic in the predicate. The
  cluster behaviour modelled never writes such a status, so it is listed as a
  hazard, not a run. deleteArmadaManifest (manifest_controller.go:309)
  calls `GetName` on the nil result of UninstallResource in the same way
  as the group. The `ArmadaChartGroups` type is not in this tree, and the
  manifest's Deletes do not fail in the model.
* **Cluster-scoped kinds.** The watch updater marks a cluster-scoped kind as
  watched without watching it. The model's kinds are all namespaced.
* **A controller fighting the patch.** Spec changes by others are bounded;
  one that rewrites a managed field without end makes the chart reconcile
  forever (listed as a hazard).
* **A readiness regression.** A Pod that stops being ready after the chart is
  Deployed leaves the chart Deployed; the model's resources only move forward.
* **Version skew.** base_controller.go:92 takes three results from
  `UnstructuredStatusChanged`, which returns one in kubernetes_entrypoint.go.
  The model follows kubernetes_entrypoint.go.
* **Release revisions, upgrade and rollback.** They are unreachable while
  `isUpdateRequired` is forced false.
* **Code no path reaches.** The source the map does not name is almost all
  of one of these kinds:
  * declarations, constructors and logging;
  * the install and update branches that Reconcile never takes: the
    managers' InstallResource and UpdateResource, and updateRelease;
  * functions nothing calls: sourceCleanup, goGitInit and goGitFetch;
  * the Helm v2 handlers and the Helm v3 stubs;
  * k8sutil, and the error types of services/errors.go.

  None of this changes the state of a reachable run.
