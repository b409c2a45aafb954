------------------------- MODULE ChartGroupReconcile -------------------------
(***************************************************************************)
(* One ArmadaChartGroup and its ArmadaCharts, reconciled by two            *)
(* controllers that run concurrently against the API server:               *)
(*   - the ArmadaChart controller (ChartReconciler.Reconcile with the Helm *)
(*     v2 chartmanager), which installs, reconciles and uninstalls the     *)
(*     Helm release of one chart per reconcile;                            *)
(*   - the ArmadaChartGroup controller (ChartGroupReconciler.Reconcile     *)
(*     with the chartgroupmanager), which enables the member charts one at *)
(*     a time (Sequenced) or all together, and deletes them on uninstall.  *)
(* Each controller has one worker and a work queue of object keys.  A      *)
(* reconcile is two steps: Read, when it Gets the objects from the         *)
(* informer cache, and a commit step for the branch of Reconcile it takes, *)
(* whose writes are checked by optimistic concurrency: an Update or        *)
(* Status().Update of an object succeeds only if the object is unchanged   *)
(* since it was read (its resourceVersion).  Helm (Tiller) calls are not   *)
(* versioned.  The environment creates the charts, enables the group (as   *)
(* the ArmadaManifest controller does), deletes it, and makes the          *)
(* released resources ready.                                               *)
(***************************************************************************)
EXTENDS ArmadaTypes

CONSTANTS
    ChartOrder,        \* spec.charts of the group: a sequence of distinct chart names
    HtkCharts,         \* the charts whose name contains "-htk"
    Sequenced,         \* spec.sequenced of the group
    ChartInitTargets,  \* target states a user may create a chart with
    GroupInitTargets,  \* target states the group may be created with
    AllowDelete,       \* whether the user may delete the group
    MaxFailures,       \* bound on the Helm failures of the whole behaviour
    FailingWrites,     \* the group controller's writes that may fail: "enable", "delete"
    MaxApiErrors,      \* bound on the failed API writes of the group controller
    Resync             \* whether the informers' periodic resync is modelled

\* expectedChartList: a stub per name in spec.charts.  Sync, ReconcileResource
\* and UninstallResource Get each stub by name, so only the names matter.
Charts == {ChartOrder[i] : i \in 1..Len(ChartOrder)}

ASSUME /\ HtkCharts \subseteq Charts
       /\ Sequenced \in BOOLEAN /\ AllowDelete \in BOOLEAN /\ Resync \in BOOLEAN
       /\ ChartInitTargets \subseteq TargetStates
       /\ GroupInitTargets \subseteq TargetStates
       /\ MaxFailures \in Nat /\ MaxApiErrors \in Nat
       /\ FailingWrites \subseteq {"enable", "delete"}

\* State of the release of a chart in the Tiller storage backend.
ReleaseStates == {"none", "deployed", "failed"}

VARIABLES
    chart,       \* [Charts -> Objects]: the ArmadaCharts in the API server
    group,       \* the ArmadaChartGroup in the API server
    release,     \* [Charts -> ReleaseStates]: the Helm releases
    ready,       \* [Charts -> BOOLEAN]: the released resources are ready
    chartQueue,  \* keys queued for the ArmadaChart controller
    groupQueue,  \* the group's key is queued for its controller
    chartWork,   \* the reconcile in progress in the ArmadaChart worker
    groupWork,   \* the reconcile in progress in the ArmadaChartGroup worker
    failures,    \* Helm failures so far
    apiErrors    \* failed API writes of the group controller so far

vars == <<chart, group, release, ready, chartQueue, groupQueue,
          chartWork, groupWork, failures, apiErrors>>

ChartWork == [busy: BOOLEAN, key: Charts, snap: Objects]
GroupWork == [busy: BOOLEAN, snap: Objects, charts: [Charts -> Objects]]

TypeOK ==
    /\ chart \in [Charts -> Objects]
    /\ group \in Objects
    /\ release \in [Charts -> ReleaseStates]
    /\ ready \in [Charts -> BOOLEAN]
    /\ chartQueue \subseteq Charts
    /\ groupQueue \in BOOLEAN
    /\ chartWork \in ChartWork
    /\ groupWork \in GroupWork
    /\ failures \in 0..MaxFailures
    /\ apiErrors \in 0..MaxApiErrors

Init ==
    /\ chart \in [Charts -> {Absent} \cup {Created(t) : t \in ChartInitTargets}]
    /\ group \in {Created(t) : t \in GroupInitTargets}
    /\ release = [c \in Charts |-> "none"]
    /\ ready = [c \in Charts |-> FALSE]
    /\ chartQueue = {c \in Charts : chart[c].exists}
    /\ groupQueue = TRUE
    /\ chartWork = [busy |-> FALSE, key |-> ChartOrder[1], snap |-> Absent]
    /\ groupWork = [busy |-> FALSE, snap |-> Absent, charts |-> [c \in Charts |-> Absent]]
    /\ failures = 0
    /\ apiErrors = 0

-----------------------------------------------------------------------------
(* Watches.  The chart controller watches every ArmadaChart event.  The    *)
(* group controller watches its group, and the ArmadaCharts it owns through *)
(* the dependent predicate (DependentNotifies).  A write that leaves an     *)
(* object unchanged is no event.                                           *)

\* Apply a reconcile's writes and the events they raise, plus the
\* requeues its result asks for.
Publish(newChart, newGroup, requeueCharts, requeueGroup) ==
    /\ chart' = newChart
    /\ group' = newGroup
    /\ chartQueue' = chartQueue \cup requeueCharts
                                \cup {c \in Charts : newChart[c] # chart[c]}
    /\ groupQueue' = \/ groupQueue \/ requeueGroup \/ newGroup # group
                     \/ \E c \in Charts : DependentNotifies(chart[c], newChart[c])

-----------------------------------------------------------------------------
(* The ArmadaChart controller.                                             *)

CK    == chartWork.key
CSnap == chartWork.snap
CInst == InitObject(CSnap, CK \in HtkCharts)

\* The object has not changed since it was read: its writes succeed.
\* Mutation: writes are not checked against the resourceVersion read.
ChartFreshUnchecked == TRUE

ChartFresh == chart[CK] = CSnap

\* The chart after an Update of inst's spec and metadata (status kept)
\* or a Status().Update of inst's status (spec kept).
UpdateSpec(obj, inst)   == [inst EXCEPT !.actual = obj.actual, !.satisfied = obj.satisfied]
UpdateStatus(obj, inst) == [obj EXCEPT !.actual = inst.actual, !.satisfied = inst.satisfied]

WriteChart(obj) == IF ChartFresh THEN [chart EXCEPT ![CK] = obj] ELSE chart

\* updateFinalizers: add the finalizer to a live object lacking it.
\* Mutation: the finalizer is never added.
ChartNeedsFinalizerNever(inst) == FALSE

ChartNeedsFinalizer(inst) == ~inst.deleting /\ ~inst.fin

\* chartmanager.Sync deletes the release versions not DEPLOYED, and
\* reports installed when a deployed release remains.
ReleaseAfterSync == IF release[CK] = "failed" THEN "none" ELSE release[CK]
IsInstalled == ReleaseAfterSync = "deployed"

\* Where chartmanager.Sync can return an error: reading the release
\* history, deleting a stale version, loadChartAndConfig (fetching the
\* source, marshalling the values, processRequirements), getDeployedRelease
\* (an error other than "no deployed releases"), and the dry-run update
\* of getCandidateRelease, reached only with a deployed release.
\* syncReleaseStatus never fails: it always drops the release it finds.
SyncFailurePoints ==
    {"history", "cleanup", "load", "deployed"} \cup (IF IsInstalled THEN {"candidate"} ELSE {})

\* The releases left by a Sync that failed at p: the stale versions are
\* deleted only once the history was read and the cleanup loop finished.
ReleaseAfterFailedSync(p) ==
    IF p \in {"history", "cleanup"} THEN release[CK] ELSE ReleaseAfterSync

ChartDone == chartWork' = [chartWork EXCEPT !.busy = FALSE]

ChartRead(c) ==
    /\ ~chartWork.busy
    /\ c \in chartQueue
    /\ chartQueue' = chartQueue \ {c}
    /\ chartWork' = [busy |-> TRUE, key |-> c, snap |-> chart[c]]
    /\ UNCHANGED <<chart, group, release, ready, groupQueue, groupWork, failures, apiErrors>>

ChartNotFound ==
    /\ chartWork.busy /\ ~CSnap.exists
    /\ ChartDone
    /\ UNCHANGED <<chart, group, release, ready, chartQueue, groupQueue, groupWork, failures, apiErrors>>

ChartAddFinalizer ==
    /\ chartWork.busy /\ CSnap.exists
    /\ ChartNeedsFinalizer(CInst)
    /\ Publish(WriteChart(UpdateSpec(CSnap, [CInst EXCEPT !.fin = TRUE])), group, {CK}, FALSE)
    /\ ChartDone
    /\ UNCHANGED <<release, ready, groupWork, failures, apiErrors>>

\* The commit steps below run after updateFinalizers found the finalizer.
ChartSynced == chartWork.busy /\ CSnap.exists /\ ~ChartNeedsFinalizer(CInst)

\* ensureSynced fails (Sync returned an error at one of its points): record
\* Irreconcilable and return the error, unless the chart is being deleted.
ChartSyncFailed ==
    /\ ChartSynced /\ ~CInst.deleting
    /\ failures < MaxFailures
    /\ failures' = failures + 1
    /\ \E p \in SyncFailurePoints : release' = [release EXCEPT ![CK] = ReleaseAfterFailedSync(p)]
    /\ Publish(WriteChart(UpdateStatus(CSnap, SetCondition(CInst, "irreconcilable"))),
               group, {CK}, FALSE)
    /\ ChartDone
    /\ UNCHANGED <<ready, groupWork, apiErrors>>

\* deleteArmadaChart: uninstallRelease reads the release history first; an
\* empty history is an error other than ErrNotFound.
ChartUninstallFailed ==
    /\ ChartSynced /\ CInst.deleting
    /\ ReleaseAfterSync = "none"
    /\ release' = [release EXCEPT ![CK] = ReleaseAfterSync]
    /\ Publish(WriteChart(UpdateStatus(CSnap, SetCondition(CInst, "failed"))), group, {CK}, FALSE)
    /\ ChartDone
    /\ UNCHANGED <<ready, groupWork, failures, apiErrors>>

\* The release is purged, then the status and the finalizer removal are
\* written; without a finalizer the object is gone.
ChartUninstalled ==
    /\ ChartSynced /\ CInst.deleting
    /\ ReleaseAfterSync # "none"
    /\ release' = [release EXCEPT ![CK] = "none"]
    /\ ready' = [ready EXCEPT ![CK] = FALSE]
    /\ Publish(WriteChart(Absent), group, {CK}, FALSE)
    /\ ChartDone
    /\ UNCHANGED <<groupWork, failures, apiErrors>>

\* TargetState uninitialized: write the initialized object back, spec then
\* status, and stop.
ChartParked ==
    /\ ChartSynced /\ ~CInst.deleting
    /\ IsTargetStateUninitialized(CInst)
    /\ release' = [release EXCEPT ![CK] = ReleaseAfterSync]
    /\ Publish(WriteChart(CInst), group, IF ChartFresh THEN {} ELSE {CK}, FALSE)
    /\ ChartDone
    /\ UNCHANGED <<ready, groupWork, failures, apiErrors>>

ChartEnabled == ChartSynced /\ ~CInst.deleting /\ ~IsTargetStateUninitialized(CInst)

\* installArmadaChart: the release is installed, the chart is Running;
\* RequeueAfter is the unset reconcilePeriod, so no requeue.
ChartInstalled ==
    /\ ChartEnabled /\ ~IsInstalled
    /\ release' = [release EXCEPT ![CK] = "deployed"]
    /\ ready' = [ready EXCEPT ![CK] = FALSE]
    /\ Publish(WriteChart(UpdateStatus(CSnap, SetCondition(CInst, "running"))), group, {}, FALSE)
    /\ ChartDone
    /\ UNCHANGED <<groupWork, failures, apiErrors>>

\* The install fails; the helm/helm#3338 workaround may purge the release.
ChartInstallFailed ==
    /\ ChartEnabled /\ ~IsInstalled
    /\ failures < MaxFailures
    /\ failures' = failures + 1
    /\ \E r \in {"none", "failed"} : release' = [release EXCEPT ![CK] = r]
    /\ Publish(WriteChart(UpdateStatus(CSnap, SetCondition(CInst, "failed"))), group, {CK}, FALSE)
    /\ ChartDone
    /\ UNCHANGED <<ready, groupWork, apiErrors>>

\* reconcileArmadaChart with every released resource ready: Deployed.
ChartReleaseReady ==
    /\ ChartEnabled /\ IsInstalled
    /\ ready[CK]
    /\ release' = [release EXCEPT ![CK] = ReleaseAfterSync]
    /\ Publish(WriteChart(UpdateStatus(CSnap, SetCondition(CInst, "deployed"))), group, {}, FALSE)
    /\ ChartDone
    /\ UNCHANGED <<ready, groupWork, failures, apiErrors>>

\* Not ready yet: only the initialized status is written back.
ChartReleaseNotReady ==
    /\ ChartEnabled /\ IsInstalled
    /\ ~ready[CK]
    /\ release' = [release EXCEPT ![CK] = ReleaseAfterSync]
    /\ Publish(WriteChart(UpdateStatus(CSnap, CInst)), group, {}, FALSE)
    /\ ChartDone
    /\ UNCHANGED <<ready, groupWork, failures, apiErrors>>

ChartStep ==
    \/ ChartNotFound \/ ChartAddFinalizer \/ ChartSyncFailed
    \/ ChartUninstallFailed \/ ChartUninstalled \/ ChartParked
    \/ ChartInstalled \/ ChartInstallFailed
    \/ ChartReleaseReady \/ ChartReleaseNotReady

-----------------------------------------------------------------------------
(* The ArmadaChartGroup controller.  Read Gets the group and, in           *)
(* chartgroupmanager.Sync, each chart it lists.                            *)

\* updateFinalizers of the group controller.
GroupNeedsFinalizer(inst) == ~inst.deleting /\ ~inst.fin

GSnap   == groupWork.snap
GCharts == groupWork.charts
GInst   == InitObject(GSnap, FALSE)

GroupFresh == group = GSnap

WriteGroup(obj) == IF GroupFresh THEN obj ELSE group

GroupDone == groupWork' = [groupWork EXCEPT !.busy = FALSE]

GroupRead ==
    /\ ~groupWork.busy
    /\ groupQueue
    /\ groupQueue' = FALSE
    /\ groupWork' = [busy |-> TRUE, snap |-> group, charts |-> chart]
    /\ UNCHANGED <<chart, group, release, ready, chartQueue, chartWork, failures, apiErrors>>

GroupNotFound ==
    /\ groupWork.busy /\ ~GSnap.exists
    /\ GroupDone
    /\ UNCHANGED <<chart, group, release, ready, chartQueue, groupQueue, chartWork, failures, apiErrors>>

GroupAddFinalizer ==
    /\ groupWork.busy /\ GSnap.exists
    /\ GroupNeedsFinalizer(GInst)
    /\ Publish(chart, WriteGroup(UpdateSpec(GSnap, [GInst EXCEPT !.fin = TRUE])), {}, TRUE)
    /\ GroupDone
    /\ UNCHANGED <<release, ready, chartWork, failures, apiErrors>>

GroupSynced == groupWork.busy /\ GSnap.exists /\ ~GroupNeedsFinalizer(GInst)

\* Sync gets every listed chart; one missing is an error.
SyncOk == \A c \in Charts : GCharts[c].exists

\* ensureSynced failed on a live group: Irreconcilable, return the error.
GroupSyncFailed ==
    /\ GroupSynced /\ ~GInst.deleting
    /\ ~SyncOk
    /\ Publish(chart, WriteGroup(UpdateStatus(GSnap, SetCondition(GInst, "irreconcilable"))), {}, TRUE)
    /\ GroupDone
    /\ UNCHANGED <<release, ready, chartWork, failures, apiErrors>>

\* The sets of API writes of kind w, on the charts `cs`, that may fail
\* within the budget.
FailedWrites(w, cs) ==
    IF w \in FailingWrites THEN {f \in SUBSET cs : Cardinality(f) <= MaxApiErrors - apiErrors}
    ELSE {{}}

LiveCharts == {c \in Charts : chart[c].exists}

\* chartgroupmanager.UninstallResource: Delete every listed chart, in
\* list order; the Delete of a chart in `failed` returns an error, that
\* of a missing chart NotFound.
UninstallResource(failed) ==
    [c \in Charts |-> IF chart[c].exists /\ c \notin failed THEN DeleteObject(chart[c]) ELSE chart[c]]

\* The error UninstallResource returns is decided by the first error
\* gathered: NotFound maps to ErrNotFound, which the caller takes for
\* success, whatever the later errors are.
UninstallErrorIgnored(failed) ==
    LET errs == SelectSeq(ChartOrder, LAMBDA c : ~chart[c].exists \/ c \in failed)
    IN  IF errs = <<>> THEN TRUE ELSE ~chart[errs[1]].exists

\* deleteArmadaChartGroup, whether or not Sync failed, when
\* UninstallResource succeeded or returned ErrNotFound: the status and
\* the finalizer removal are written, and the result asks for a requeue.
GroupDeleted ==
    /\ GroupSynced /\ GInst.deleting
    /\ \E failed \in FailedWrites("delete", LiveCharts) :
          /\ UninstallErrorIgnored(failed)
          /\ apiErrors' = apiErrors + Cardinality(failed)
          /\ Publish(UninstallResource(failed), WriteGroup(Absent), {}, TRUE)
    /\ GroupDone
    /\ UNCHANGED <<release, ready, chartWork, failures>>

\* The operator process restarts: the informers list every object again,
\* so every live key is queued; no reconcile is in flight; the in-process
\* Tiller's memory storage starts empty, so every release record is lost.
\* The released resources stay in the cluster.
OperatorRestarted ==
    /\ release' = [c \in Charts |-> "none"]
    /\ chartQueue' = {c \in Charts : chart'[c].exists}
    /\ groupQueue' = group.exists
    /\ chartWork' = [busy |-> FALSE, key |-> ChartOrder[1], snap |-> Absent]
    /\ groupWork' = [busy |-> FALSE, snap |-> Absent, charts |-> [c \in Charts |-> Absent]]

\* UninstallResource returned another error, with a nil *ArmadaCharts:
\* building the Failed condition calls its GetName, which dereferences
\* nil.  The worker panics after the Deletes and before any status write,
\* and the panic, not recovered, ends the operator process.
GroupUninstallFailed ==
    /\ GroupSynced /\ GInst.deleting
    /\ \E failed \in FailedWrites("delete", LiveCharts) :
          /\ ~UninstallErrorIgnored(failed)
          /\ apiErrors' = apiErrors + Cardinality(failed)
          /\ chart' = UninstallResource(failed)
    /\ OperatorRestarted
    /\ UNCHANGED <<group, ready, failures>>

\* TargetState uninitialized: write the initialized group back and stop.
GroupParked ==
    /\ GroupSynced /\ ~GInst.deleting /\ SyncOk
    /\ IsTargetStateUninitialized(GInst)
    /\ Publish(chart, WriteGroup(GInst), {}, ~GroupFresh)
    /\ GroupDone
    /\ UNCHANGED <<release, ready, chartWork, failures, apiErrors>>

\* chartgroupmanager.ReconcileResource: the charts to enable, computed on
\* the charts Sync read.
ChartsToEnable ==
    IF Sequenced THEN GetNextToEnable(ChartOrder, GCharts)
                 ELSE GetAllDisabledCharts(ChartOrder, GCharts)

\* Each chart to enable is read again and Updated with TargetState
\* Deployed.  When that Update fails (the charts in `failed`), the error
\* appended is the nil one of the Get before it, so ReconcileResource
\* still returns nil.  Then watchArmadaCharts reads every chart again and
\* Updates it with the group as controller owner.
Enable(c, failed) ==
    IF c \in ChartsToEnable \ failed THEN [chart[c] EXCEPT !.target = StateDeployed]
    ELSE chart[c]

WatchArmadaCharts(failed) ==
    [c \in Charts |-> IF chart[c].exists THEN [Enable(c, failed) EXCEPT !.owned = TRUE] ELSE chart[c]]

\* reconcileArmadaChartGroup after ReconcileResource and watchArmadaCharts.
GroupReconciled(newGroup, requeue) ==
    \E failed \in FailedWrites("enable", ChartsToEnable) :
       /\ apiErrors' = apiErrors + Cardinality(failed)
       /\ Publish(WatchArmadaCharts(failed), newGroup, {}, requeue)

\* Every chart Sync read is Satisfied: the group is Deployed.
GroupChartsReady ==
    /\ GroupSynced /\ ~GInst.deleting /\ SyncOk
    /\ ~IsTargetStateUninitialized(GInst)
    /\ IsReady(ChartOrder, GCharts)
    /\ GroupReconciled(WriteGroup(UpdateStatus(GSnap, SetCondition(GInst, "deployed"))), ~GroupFresh)
    /\ GroupDone
    /\ UNCHANGED <<release, ready, chartWork, failures>>

\* Not ready: nothing is written to the group, and the reconcile is
\* requeued after reconcilePeriod.
GroupChartsNotReady ==
    /\ GroupSynced /\ ~GInst.deleting /\ SyncOk
    /\ ~IsTargetStateUninitialized(GInst)
    /\ ~IsReady(ChartOrder, GCharts)
    /\ GroupReconciled(group, TRUE)
    /\ GroupDone
    /\ UNCHANGED <<release, ready, chartWork, failures>>

GroupStep ==
    \/ GroupNotFound \/ GroupAddFinalizer \/ GroupSyncFailed
    \/ GroupDeleted \/ GroupUninstallFailed
    \/ GroupParked \/ GroupChartsReady \/ GroupChartsNotReady

-----------------------------------------------------------------------------
(* The environment.                                                        *)

\* A user applies one of the group's charts, before any uninstall.
CreateChart(c) ==
    /\ ~chart[c].exists
    /\ group.exists /\ ~group.deleting
    /\ \E t \in ChartInitTargets :
          Publish([chart EXCEPT ![c] = Created(t)], group, {}, FALSE)
    /\ UNCHANGED <<release, ready, chartWork, groupWork, failures, apiErrors>>

\* The ArmadaManifest controller enables the group (its ReconcileResource).
EnableGroup ==
    /\ group.exists
    /\ IsTargetStateUninitialized(group)
    /\ Publish(chart, [group EXCEPT !.target = StateDeployed], {}, FALSE)
    /\ UNCHANGED <<release, ready, chartWork, groupWork, failures, apiErrors>>

\* A user deletes the group.
DeleteGroup ==
    /\ AllowDelete
    /\ group.exists /\ ~group.deleting
    /\ Publish(chart, DeleteObject(group), {}, FALSE)
    /\ UNCHANGED <<release, ready, chartWork, groupWork, failures, apiErrors>>

\* The informers' periodic resync (controller-runtime's default, 10 h; the
\* operator sets no SyncPeriod) delivers an update event for every cached
\* object.  The chart controller's own watch and the group controller's
\* own watch have no predicate (chart_controller.go:71,
\* chartgroup_controller.go:66), so each queues its objects again.
ResyncCharts ==
    /\ Resync
    /\ \E c \in Charts : chart[c].exists /\ c \notin chartQueue
    /\ chartQueue' = chartQueue \cup {c \in Charts : chart[c].exists}
    /\ UNCHANGED <<chart, group, release, ready, groupQueue, chartWork, groupWork, failures, apiErrors>>

ResyncGroup ==
    /\ Resync
    /\ group.exists /\ ~groupQueue
    /\ groupQueue' = TRUE
    /\ UNCHANGED <<chart, group, release, ready, chartQueue, chartWork, groupWork, failures, apiErrors>>

\* Mutation: the dependent resources are not watched.
ResourcesReadyUnwatched(c) ==
    /\ release[c] = "deployed" /\ ~ready[c]
    /\ ready' = [ready EXCEPT ![c] = TRUE]
    /\ UNCHANGED <<chart, group, release, chartQueue, groupQueue, chartWork, groupWork, failures, apiErrors>>

\* The resources of a deployed release become ready; the status change of
\* a Pod or Job passes the dependent predicate and wakes the chart.
ResourcesReady(c) ==
    /\ release[c] = "deployed" /\ ~ready[c]
    /\ ready' = [ready EXCEPT ![c] = TRUE]
    /\ chartQueue' = chartQueue \cup {c}
    /\ UNCHANGED <<chart, group, release, groupQueue, chartWork, groupWork, failures, apiErrors>>

\* The garbage collector deletes a chart whose controller owner, the
\* group, is gone.
GarbageCollect(c) ==
    /\ ~group.exists
    /\ chart[c].exists /\ chart[c].owned /\ ~chart[c].deleting
    /\ Publish([chart EXCEPT ![c] = DeleteObject(chart[c])], group, {}, FALSE)
    /\ UNCHANGED <<release, ready, chartWork, groupWork, failures, apiErrors>>

-----------------------------------------------------------------------------
Next ==
    \/ \E c \in Charts : ChartRead(c)
    \/ ChartStep
    \/ GroupRead
    \/ GroupStep
    \/ \E c \in Charts : CreateChart(c) \/ ResourcesReady(c) \/ GarbageCollect(c)
    \/ EnableGroup
    \/ DeleteGroup
    \/ ResyncCharts \/ ResyncGroup

\* Each worker eventually serves every queued key and finishes the
\* reconcile it started; users eventually apply the charts and the
\* manifest enables the group; released resources eventually become ready;
\* the garbage collector eventually removes the dependents of a deleted
\* owner.  The resync has no fairness: the liveness properties are checked
\* for behaviours in which it never comes, so they do not lean on a
\* 10-hour wait.
Fairness ==
    /\ \A c \in Charts : SF_vars(ChartRead(c))
    /\ WF_vars(ChartStep)
    /\ WF_vars(GroupRead)
    /\ WF_vars(GroupStep)
    /\ \A c \in Charts : WF_vars(CreateChart(c)) /\ WF_vars(ResourcesReady(c))
    /\ \A c \in Charts : WF_vars(GarbageCollect(c))
    /\ WF_vars(EnableGroup)

Spec == Init /\ [][Next]_vars /\ Fairness

-----------------------------------------------------------------------------
(* Properties.                                                             *)

\* A chart enabled for deployment, not being deleted, whose deployment has
\* not completed.
InFlight(c) ==
    /\ chart[c].exists /\ ~chart[c].deleting
    /\ chart[c].target = StateDeployed
    /\ chart[c].actual # StateDeployed

\* Enabling is monotonic: once a chart's TargetState is Deployed, no step
\* of either controller sets it back while the chart exists.  The chart
\* controller's parked path writes back the object it read, so this is
\* about that write racing the group's enable.
EnableMonotonic ==
    [][\A c \in Charts :
         chart[c].target = StateDeployed /\ chart'[c].exists
            => chart'[c].target = StateDeployed]_vars

\* Sequenced groups enable in list order: a chart is enabled only after
\* every chart before it in spec.charts was (charts created uninitialized).
SequencedOrder ==
    Sequenced =>
      \A i, j \in 1..Len(ChartOrder) :
         i < j /\ chart[ChartOrder[j]].target = StateDeployed
            => chart[ChartOrder[i]].target # StateUninitialized

\* Every Helm release belongs to an ArmadaChart in the API server: the
\* finalizer keeps a chart until deleteArmadaChart has uninstalled it.
NoOrphanRelease ==
    \A c \in Charts : release[c] # "none" => chart[c].exists

\* A sequenced group has at most one enabled chart still deploying
\* (GetNextToEnable stops at an enabled chart that is not Satisfied).
AtMostOneInFlight ==
    Sequenced => \A c, d \in Charts : InFlight(c) /\ InFlight(d) => c = d

\* The behaviours in which nobody deletes the group.
GroupKept == [](group.exists /\ ~group.deleting)

\* Unless the group is deleted, every chart ends Deployed and so does the
\* group.
Converged ==
    GroupKept => <>[](/\ \A c \in Charts : chart[c].actual = StateDeployed
                      /\ group.actual = StateDeployed)

\* The group turns Deployed only when every chart it enables is Deployed
\* (the "-htk" charts stay uninitialized).  reconcileArmadaChartGroup
\* judges IsReady on the charts Sync read before ReconcileResource enabled
\* one, where a parked chart counts as Satisfied; the manifest then takes
\* the group's Satisfied flag as "done" and enables the next group.
DeployedMeansChartsDeployed ==
    [][group'.actual = StateDeployed /\ group.actual # StateDeployed
         => \A c \in Charts \ HtkCharts : chart[c].actual = StateDeployed]_vars

\* The charts the group has enabled, as SequencerAbstract sees them.
EnabledCharts == {c \in Charts : chart[c].exists /\ chart[c].target = StateDeployed}

Sequencer == INSTANCE SequencerAbstract WITH Order <- ChartOrder, enabled <- EnabledCharts

\* A sequenced group implements SequencerAbstract: across every
\* interleaving of the chart and group workers, with Helm failures and
\* stale snapshots, GetNextToEnable and the enabling Update add the charts
\* one per step in list order, never undo one, and enable them all.
SequencerRefinement == Sequencer!Spec

\* Once the group is being deleted, its charts are eventually all gone.
DeletionCompletes ==
    group.deleting ~> \A c \in Charts : ~chart[c].exists
=============================================================================
