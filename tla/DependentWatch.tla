--------------------------- MODULE DependentWatch ---------------------------
(***************************************************************************)
(* One enabled ArmadaChart, its Helm release and the resources the release *)
(* manifest holds (its dependent resources), with the watches the chart    *)
(* controller adds on them.                                                *)
(*                                                                         *)
(* A chart reconcile installs the release or, once installed, runs         *)
(* ReconcileRelease: every resource of the manifest is read (Get) and      *)
(* kept in the release's cache, or re-created when missing.  It then asks  *)
(* the watch updater for a watch on the kind of every dependent resource   *)
(* and marks the chart Deployed when HelmRelease.IsReady holds.  A         *)
(* resource whose status changes wakes the chart only through such a       *)
(* watch, and only if the dependent predicate passes the update.  The      *)
(* registry of watched kinds, and Tiller's release storage (the memory     *)
(* driver), live in the process: an operator restart empties both.       *)
(* Someone else may change a resource's spec (drift); the next             *)
(* ReconcileRelease patches back what the manifest manages.  An API call   *)
(* of ReconcileRelease may fail: the visit stops at that resource.         *)
(***************************************************************************)
EXTENDS ArmadaTypes, KubernetesDependency

CONSTANTS
    Res,          \* the resources of the release manifest
    ResOrder,     \* the order BuildUnstructured returns them in
    KindOf,       \* [Res -> Kinds]
    MaxRestarts,  \* bound on operator restarts
    MaxDeletes,   \* bound on deletions of a dependent resource by someone else
    MaxDrifts,    \* bound on spec changes to a dependent resource by someone else
    MaxApiErrors, \* bound on failed API calls of reconcileRelease and the watch updater
    Resync        \* whether the chart informer's periodic resync is modelled

ASSUME /\ KindOf \in [Res -> Kinds]
       /\ ResOrder \in Seq(Res) /\ Len(ResOrder) = Cardinality(Res)
       /\ {ResOrder[i] : i \in 1..Len(ResOrder)} = Res /\ MaxApiErrors \in Nat
       /\ MaxRestarts \in Nat /\ MaxDeletes \in Nat /\ MaxDrifts \in Nat
       /\ Resync \in BOOLEAN

-----------------------------------------------------------------------------
VARIABLES
    chart,     \* the ArmadaChart in the API server
    released,  \* Tiller's storage holds the deployed release
    res,       \* [Res -> Resources]: the dependent resources in the API server
    queue,     \* the chart's key is queued for the chart controller
    work,      \* the reconcile in progress in the chart worker
    watched,   \* the kinds the watch updater has a watch on (its watches map)
    restarts,  \* operator restarts so far
    deletes,   \* deletions of dependent resources so far
    drift,     \* [Res -> Drifts]: how a resource's spec differs from the manifest
    drifts,    \* spec changes by someone else so far
    apiErrors  \* failed API calls so far

vars == <<chart, released, res, queue, work, watched, restarts, deletes, drift, drifts, apiErrors>>

\* How the live spec differs from the manifest: not at all, by fields the
\* manifest does not set, or by a field the manifest sets.
Drifts == {"none", "extra", "changed"}
NoDrift == [r \in Res |-> "none"]

\* The reconcile in progress: after InstallRelease ("installed") or after
\* ReconcileRelease ("released"), with the resources that release cached.
Work == [phase: {"idle", "installed", "released"}, cached: SUBSET Res,
         cache: [Res -> Resources]]

IdleWork == [phase |-> "idle", cached |-> {}, cache |-> [r \in Res |-> AbsentRes]]

TypeOK ==
    /\ chart \in Objects /\ released \in BOOLEAN
    /\ res \in [Res -> Resources]
    /\ queue \in BOOLEAN /\ work \in Work /\ watched \subseteq Kinds
    /\ restarts \in 0..MaxRestarts /\ deletes \in 0..MaxDeletes
    /\ drift \in [Res -> Drifts] /\ drifts \in 0..MaxDrifts
    /\ apiErrors \in 0..MaxApiErrors

\* An enabled chart holding its finalizer, not reconciled yet.
Init ==
    /\ chart = [Created(StateDeployed) EXCEPT !.fin = TRUE]
    /\ released = FALSE
    /\ res = [r \in Res |-> AbsentRes]
    /\ queue = TRUE
    /\ work = IdleWork
    /\ watched = {}
    /\ restarts = 0 /\ deletes = 0
    /\ drift = NoDrift /\ drifts = 0 /\ apiErrors = 0

\* A status write on the chart; its own watch (no predicate) requeues it
\* when the stored object changed.
UpdateChart(new) ==
    /\ chart' = new
    /\ queue' = (queue \/ new # chart)

CInst == InitObject(chart, FALSE)

\* The watch updater adds a watch for every kind not in its map yet.
WatchKinds(rs) == {KindOf[r] : r \in rs}

\* watchDependentResources: hands the release's dependent resources to the
\* watch updater, which adds a watch for each kind not yet watched.
WatchDependentResources(rs) == watched \cup WatchKinds(rs)

-----------------------------------------------------------------------------
(* The chart controller.                                                   *)

\* installArmadaChart, first half: InstallRelease creates every resource
\* of the manifest (create events are dropped by the predicate).
ChartInstallRelease ==
    /\ work.phase = "idle" /\ queue /\ ~released
    /\ \A r \in Res : ~res[r].exists
    /\ queue' = FALSE
    /\ released' = TRUE
    /\ res' = [r \in Res |-> ManifestRes]
    /\ drift' = NoDrift
    /\ work' = [work EXCEPT !.phase = "installed"]
    /\ UNCHANGED <<apiErrors, chart, watched, restarts, deletes, drifts>>

\* installArmadaChart when a resource of the manifest already exists: Tiller's
\* Create fails on it and records a FAILED release, which the helm#3338
\* workaround uninstalls with purge, deleting every resource the manifest
\* names.  The Failed status is written and the error returned, so the
\* chart is requeued with backoff.
ChartInstallFailed ==
    /\ work.phase = "idle" /\ queue /\ ~released
    /\ \E r \in Res : res[r].exists
    /\ res' = [r \in Res |-> AbsentRes]
    /\ drift' = NoDrift
    /\ chart' = SetCondition(CInst, "failed")
    /\ queue' = TRUE
    /\ UNCHANGED <<apiErrors, released, work, watched, restarts, deletes, drifts>>

\* installArmadaChart, second half: watches on the kinds of the installed
\* release (its manifest, nothing being cached), then the Running status.
ChartInstalled ==
    /\ work.phase = "installed"
    /\ watched' = WatchDependentResources(Res)
    /\ UpdateChart(SetCondition(CInst, "running"))
    /\ work' = IdleWork
    /\ UNCHANGED <<apiErrors, released, res, restarts, deletes, drift, drifts>>

\* The operations of the JSON patch from a live resource to the manifest's
\* object: "remove" for what the manifest does not set (status, the
\* server's metadata, fields others added), "replace" for a managed field
\* that was changed.
JsonPatchOps(d) == {"remove"} \cup (IF d = "changed" THEN {"replace"} ELSE {})

\* Mutation: only "add" operations are kept.
GeneratePatchAddOnly(d) == {op \in JsonPatchOps(d) : op = "add"}

\* generatePatch: the patch without its "remove" operations; empty is nil.
GeneratePatch(d) == {op \in JsonPatchOps(d) : op # "remove"}

\* The dependent predicate on an update that changes the spec: it passes
\* unless the kind is ConfigMap or Secret.
SpecUpdatePasses(k) == k \notin {"ConfigMap", "Secret"}

\* The resources of rs that generatePatch has a patch for.
Patched(rs) == {r \in rs : res[r].exists /\ GeneratePatch(drift[r]) # {}}

\* The visit of reconcileRelease over the resources rs: a missing one is
\* Created from the manifest, an existing one with a patch is patched back.
VisitResources(rs) ==
    /\ res' = [r \in Res |-> IF r \in rs /\ ~res[r].exists THEN ManifestRes ELSE res[r]]
    /\ drift' = [r \in Res |-> IF r \in Patched(rs) THEN "none" ELSE drift[r]]

\* A patch is an update of the spec: a watched kind queues the chart again.
PatchNotifies(rs) == \E r \in Patched(rs) : KindOf[r] \in watched /\ SpecUpdatePasses(KindOf[r])

\* reconcileRelease: Get every resource of the manifest; an existing one is
\* added to the release's cache (as read, before any patch) and patched
\* when generatePatch is not nil, a missing one is Created and not cached.
ChartReconcileRelease ==
    /\ work.phase = "idle" /\ queue /\ released
    /\ VisitResources(Res)
    /\ queue' = PatchNotifies(Res)
    /\ work' = [phase |-> "released", cached |-> {r \in Res : res[r].exists},
                cache |-> res]
    /\ UNCHANGED <<apiErrors, chart, released, watched, restarts, deletes, drifts>>

\* reconcileRelease fails at the i-th resource (its Get fails with an
\* error other than NotFound, or its Create or its Patch fails, which all
\* leave it as it was): Visit stops there, and what it did to the
\* resources before stays.  reconcileArmadaChart writes the
\* Irreconcilable condition and returns the error, which requeues the
\* chart with backoff; no watch is added.
ChartReconcileFailed ==
    /\ work.phase = "idle" /\ queue /\ released
    /\ apiErrors < MaxApiErrors
    /\ \E i \in 1..Len(ResOrder) : VisitResources({ResOrder[j] : j \in 1..(i - 1)})
    /\ chart' = SetCondition(CInst, "irreconcilable")
    /\ queue' = TRUE
    /\ apiErrors' = apiErrors + 1
    /\ UNCHANGED <<released, work, watched, restarts, deletes, drifts>>

\* Mutation: the cache is ignored and the manifest always parsed.
GetDependentResourcesManifest == [r \in Res |-> ManifestRes]

\* HelmRelease.GetDependentResources: the cached objects if any, else the
\* objects of the manifest.
GetDependentResources ==
    IF work.cached # {} THEN [r \in work.cached |-> work.cache[r]]
    ELSE [r \in Res |-> ManifestRes]

\* HelmRelease.IsReady.
IsReleaseReady(deps) == \A r \in DOMAIN deps : IsUnstructuredReady(KindOf[r], deps[r])

\* reconcileArmadaChart after ReconcileRelease: watchDependentResources,
\* then Deployed when the release IsReady; otherwise Reconcile writes the
\* initialized status back.  No requeue is asked for either way.
ChartReconciled ==
    /\ work.phase = "released"
    /\ LET deps == GetDependentResources IN
       /\ watched' = WatchDependentResources(DOMAIN deps)
       /\ UpdateChart(IF IsReleaseReady(deps) THEN SetCondition(CInst, "deployed") ELSE CInst)
    /\ work' = IdleWork
    /\ UNCHANGED <<apiErrors, released, res, restarts, deletes, drift, drifts>>

\* The watch updater fails on the kind of the i-th dependent resource, one
\* it has no watch on yet (RESTMapping or Watch returns an error): the
\* kinds of the resources before it are watched, the error is returned.
\* installArmadaChart returns before the Running status, reconcileArmadaChart
\* before its status write; the error requeues the chart with backoff.
ChartWatchFailed ==
    /\ work.phase \in {"installed", "released"}
    /\ apiErrors < MaxApiErrors
    /\ LET deps  == IF work.phase = "installed" THEN Res ELSE DOMAIN GetDependentResources
           order == SelectSeq(ResOrder, LAMBDA r : r \in deps)
       IN  \E i \in 1..Len(order) :
              /\ KindOf[order[i]] \notin watched
              /\ watched' = WatchDependentResources({order[j] : j \in 1..(i - 1)})
    /\ queue' = TRUE
    /\ work' = IdleWork
    /\ apiErrors' = apiErrors + 1
    /\ UNCHANGED <<chart, released, res, restarts, deletes, drift, drifts>>

ChartStep ==
    \/ ChartInstallRelease \/ ChartInstallFailed \/ ChartInstalled
    \/ ChartReconcileRelease \/ ChartReconcileFailed \/ ChartReconciled
    \/ ChartWatchFailed

-----------------------------------------------------------------------------
(* The environment: the controllers of the cluster moving the resources'   *)
(* status forward, someone deleting a resource, restarts and the resync.   *)

PodSteps   == {<<"none", "False">>, <<"none", "True">>, <<"False", "True">>}
PhaseSteps == {<<"nostatus", "Running">>, <<"Running", "Succeeded">>, <<"Running", "Failed">>}

Progress(k, u) ==
    CASE k = "Pod"      -> {[u EXCEPT !.podReady = s[2]] : s \in {t \in PodSteps : t[1] = u.podReady}}
      [] k = "Job"      -> {[u EXCEPT !.succeeded = 1] : t \in {u.succeeded} \ {1}}
      [] k = "Workflow" -> {[u EXCEPT !.phase = s[2]] : s \in {t \in PhaseSteps : t[1] = u.phase}}
      [] OTHER          -> {}

\* A status update raises an update event; the chart is queued when its
\* kind is watched and the dependent predicate passes it.
ResourceStatusUpdate(r) ==
    /\ res[r].exists
    /\ \E v \in Progress(KindOf[r], res[r]) :
          /\ res' = [res EXCEPT ![r] = v]
          /\ queue' = (queue \/ (KindOf[r] \in watched /\ UpdatePasses(KindOf[r], res[r], v)))
    /\ UNCHANGED <<apiErrors, chart, released, work, watched, restarts, deletes, drift, drifts>>

\* Someone else updates a resource's spec: adds fields the manifest does
\* not set, or changes one it sets.  The predicate passes a spec change.
DriftSpec(r) ==
    /\ drifts < MaxDrifts /\ res[r].exists
    /\ \E d \in {"extra", "changed"} :
          drift' = [drift EXCEPT ![r] = IF @ = "changed" THEN @ ELSE d]
    /\ queue' = (queue \/ (KindOf[r] \in watched /\ SpecUpdatePasses(KindOf[r])))
    /\ drifts' = drifts + 1
    /\ UNCHANGED <<apiErrors, chart, released, res, work, watched, restarts, deletes>>

\* A delete event always passes the predicate.
ResourceDeleted(r) ==
    /\ deletes < MaxDeletes /\ res[r].exists
    /\ res' = [res EXCEPT ![r] = AbsentRes]
    /\ queue' = (queue \/ KindOf[r] \in watched)
    /\ deletes' = deletes + 1
    /\ drift' = [drift EXCEPT ![r] = "none"]
    /\ UNCHANGED <<apiErrors, chart, released, work, watched, restarts, drifts>>

\* syncReleaseStatus finds the Deployed condition but sets the release to
\* restore to nil, so Tiller's storage never gets a record back.
ReleaseRestored == FALSE

\* The operator restarts: the reconcile in progress is lost, the watches
\* map and Tiller's memory storage start empty (syncReleaseStatus restores
\* nothing), and the chart informer's initial list queues the chart.
OperatorRestart ==
    /\ restarts < MaxRestarts
    /\ restarts' = restarts + 1
    /\ watched' = {}
    /\ released' = ReleaseRestored
    /\ work' = IdleWork
    /\ queue' = TRUE
    /\ UNCHANGED <<apiErrors, chart, res, deletes, drift, drifts>>

\* The chart informer's periodic resync queues the chart.
ResyncChart ==
    /\ Resync /\ ~queue
    /\ queue' = TRUE
    /\ UNCHANGED <<apiErrors, chart, released, res, work, watched, restarts, deletes, drift, drifts>>

Next ==
    \/ ChartStep
    \/ \E r \in Res : ResourceStatusUpdate(r) \/ ResourceDeleted(r) \/ DriftSpec(r)
    \/ OperatorRestart
    \/ ResyncChart

\* The chart worker finishes what it starts and serves its queue; the
\* resync, where modelled, keeps happening.  Nothing forces the cluster
\* to make a resource ready.
Spec == Init /\ [][Next]_vars /\ WF_vars(ChartStep) /\ WF_vars(ResyncChart)

-----------------------------------------------------------------------------
(* Properties.                                                             *)

\* A resource the cluster has brought to its final ready state.
Settled(r) ==
    /\ res[r].exists
    /\ CASE KindOf[r] = "Pod"      -> res[r].podReady = "True"
         [] KindOf[r] = "Job"      -> res[r].succeeded = 1
         [] KindOf[r] = "Workflow" -> res[r].phase = "Succeeded"
         [] OTHER                  -> TRUE

\* Once every dependent resource of the release is ready for good, the
\* chart is eventually marked Deployed: some event or the resync must wake
\* the chart controller after the last resource got ready
\* (reconcileArmadaChart asks for no requeue while they are not).
ChartEventuallyDeployed ==
    <>[](\A r \in Res : Settled(r)) => <>(chart.actual = StateDeployed)

\* A managed field of a dependent resource that someone else changed is
\* eventually patched back by reconcileRelease: the spec change, or the
\* resync, must wake the chart after the change, and generatePatch must
\* keep the operation that restores the field.
DriftRepaired == \A r \in Res : [](drift[r] = "changed" => <>(drift[r] # "changed"))

\* The operator never deletes a resource of the release of a chart that is
\* neither deleted nor disabled: a chart in steady state stays there until
\* an external event, and a restart is answered by the reconcile flow
\* (spec section 4.4), not by an install whose failure purges the release.
NoResourcePurged ==
    [][ChartStep => \A r \in Res : res[r].exists => res'[r].exists]_vars

\* A resource as the reconcile left it: the cached object, or the object
\* it just created from the manifest.
Seen(r) == IF r \in work.cached THEN work.cache[r] ELSE ManifestRes

\* The chart is marked Deployed only by a reconcile that found every
\* resource of the release ready: a resource reconcileRelease had to
\* re-create is not ready yet.
DeployedOnlyWhenAllReady ==
    [][chart'.actual = StateDeployed /\ chart.actual # StateDeployed
         => \A r \in Res : IsUnstructuredReady(KindOf[r], Seen(r))]_vars
=============================================================================
