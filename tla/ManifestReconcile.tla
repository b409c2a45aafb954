-------------------------- MODULE ManifestReconcile --------------------------
(***************************************************************************)
(* One ArmadaManifest and its ArmadaChartGroups.  The ArmadaManifest       *)
(* controller (ManifestReconciler.Reconcile with the manifestmanager)      *)
(* enables the groups one at a time in spec.chart_groups order, takes      *)
(* ownership of them, and deletes them on uninstall.  Each group is        *)
(* reconciled by the ArmadaChartGroup controller, here reduced to the      *)
(* writes that module ChartGroupReconcile shows it makes on the group:     *)
(* adding its finalizer, parking an uninitialized group, marking an        *)
(* enabled group Deployed once its charts are, and removing a group being  *)
(* deleted.  As in ChartGroupReconcile, a reconcile is a Read step and a   *)
(* commit step whose writes are checked against the resourceVersion read.  *)
(***************************************************************************)
EXTENDS ArmadaTypes, FiniteSets

CONSTANTS
    GroupOrder,           \* spec.chart_groups: a sequence of distinct group names
    GroupInitTargets,     \* target states a user may create a group with
    ManifestInitTargets,  \* target states the manifest may be created with
    AllowDelete,          \* whether the user may delete the manifest
    Resync,               \* whether the informers' periodic resync is modelled
    FailingWrites,        \* which of the manifest's group Updates can fail
    MaxApiErrors          \* a bound on those failures

\* expectedChartGroupList: a stub per name in spec.chart_groups, which the
\* manager's Sync and UninstallResource Get by name.
Groups == {GroupOrder[i] : i \in 1..Len(GroupOrder)}

ASSUME /\ GroupInitTargets \subseteq TargetStates
       /\ ManifestInitTargets \subseteq TargetStates
       /\ AllowDelete \in BOOLEAN /\ Resync \in BOOLEAN
       /\ FailingWrites \subseteq {"enable", "own"} /\ MaxApiErrors \in Nat

VARIABLES
    manifest,      \* the ArmadaManifest in the API server
    grp,           \* [Groups -> Objects]: the ArmadaChartGroups
    manifestQueue, \* the manifest's key is queued for its controller
    manifestWork,  \* the reconcile in progress in the manifest worker
    apiErrors      \* the group Updates that failed so far

vars == <<manifest, grp, manifestQueue, manifestWork, apiErrors>>

ManifestWork == [busy: BOOLEAN, snap: Objects, groups: [Groups -> Objects]]

TypeOK ==
    /\ manifest \in Objects
    /\ grp \in [Groups -> Objects]
    /\ manifestQueue \in BOOLEAN
    /\ manifestWork \in ManifestWork
    /\ apiErrors \in 0..MaxApiErrors

Init ==
    /\ manifest \in {Created(t) : t \in ManifestInitTargets}
    /\ grp \in [Groups -> {Absent} \cup {Created(t) : t \in GroupInitTargets}]
    /\ manifestQueue = TRUE
    /\ manifestWork = [busy |-> FALSE, snap |-> Absent,
                       groups |-> [g \in Groups |-> Absent]]
    /\ apiErrors = 0

\* The Updates of kind w, one per group of gs, that fail in one reconcile,
\* within what is left of the error budget.
FailedWrites(w, gs) ==
    IF w \in FailingWrites
    THEN {f \in SUBSET gs : Cardinality(f) <= MaxApiErrors - apiErrors}
    ELSE {{}}

\* Apply writes to the manifest and its groups, with the events they raise
\* (the manifest's own watch, and the dependent predicate on the groups).
Publish(newManifest, newGrp, requeue) ==
    /\ manifest' = newManifest
    /\ grp' = newGrp
    /\ manifestQueue' = \/ manifestQueue \/ requeue \/ newManifest # manifest
                        \/ \E g \in Groups : DependentNotifies(grp[g], newGrp[g])

-----------------------------------------------------------------------------
(* The ArmadaManifest controller.  Read Gets the manifest and, in          *)
(* manifestmanager.Sync, each group it lists.                              *)

MSnap   == manifestWork.snap
MGroups == manifestWork.groups
MInst   == InitObject(MSnap, FALSE)

ManifestFresh == manifest = MSnap

WriteManifest(obj) == IF ManifestFresh THEN obj ELSE manifest

\* Status().Update of inst's status, and Update of inst's spec and metadata.
UpdateStatus(obj, inst) == [obj EXCEPT !.actual = inst.actual, !.satisfied = inst.satisfied]
UpdateSpec(obj, inst)   == [inst EXCEPT !.actual = obj.actual, !.satisfied = obj.satisfied]

\* Mutation: the finalizer is never added.
ManifestNeedsFinalizerNever(inst) == FALSE

\* updateFinalizers: a live manifest lacking the finalizer.
ManifestNeedsFinalizer(inst) == ~inst.deleting /\ ~inst.fin

ManifestDone == manifestWork' = [manifestWork EXCEPT !.busy = FALSE]

ManifestRead ==
    /\ ~manifestWork.busy
    /\ manifestQueue
    /\ manifestQueue' = FALSE
    /\ manifestWork' = [busy |-> TRUE, snap |-> manifest, groups |-> grp]
    /\ UNCHANGED <<manifest, grp, apiErrors>>

ManifestNotFound ==
    /\ manifestWork.busy /\ ~MSnap.exists
    /\ ManifestDone
    /\ UNCHANGED <<manifest, grp, manifestQueue, apiErrors>>

ManifestAddFinalizer ==
    /\ manifestWork.busy /\ MSnap.exists
    /\ ManifestNeedsFinalizer(MInst)
    /\ Publish(WriteManifest(UpdateSpec(MSnap, [MInst EXCEPT !.fin = TRUE])), grp, TRUE)
    /\ ManifestDone /\ UNCHANGED apiErrors

ManifestSynced == manifestWork.busy /\ MSnap.exists /\ ~ManifestNeedsFinalizer(MInst)

\* Sync gets every listed group; one missing is an error.
SyncOk == \A g \in Groups : MGroups[g].exists

\* ensureSynced failed on a live manifest: Irreconcilable, return the error.
ManifestSyncFailed ==
    /\ ManifestSynced /\ ~MInst.deleting
    /\ ~SyncOk
    /\ Publish(WriteManifest(UpdateStatus(MSnap, SetCondition(MInst, "irreconcilable"))), grp, TRUE)
    /\ ManifestDone /\ UNCHANGED apiErrors

\* manifestmanager.UninstallResource: Delete every listed group.
UninstallResource == [g \in Groups |-> IF grp[g].exists THEN DeleteObject(grp[g]) ELSE grp[g]]

\* deleteArmadaManifest: delete the groups (NotFound counts as done), write
\* the status, remove the finalizer, and ask for a requeue.
ManifestDeleted ==
    /\ ManifestSynced /\ MInst.deleting
    /\ Publish(WriteManifest(Absent), UninstallResource, TRUE)
    /\ ManifestDone /\ UNCHANGED apiErrors

\* TargetState uninitialized: write the initialized manifest back and stop.
ManifestParked ==
    /\ ManifestSynced /\ ~MInst.deleting /\ SyncOk
    /\ IsTargetStateUninitialized(MInst)
    /\ Publish(WriteManifest(MInst), grp, ~ManifestFresh)
    /\ ManifestDone /\ UNCHANGED apiErrors

\* manifestmanager.ReconcileResource: always sequenced, on the groups Sync
\* read; the group to enable is read again and Updated.  A failed Update
\* appends err, the nil result of the Get, so errs[0] is nil and the
\* failure is not returned: the group is left as it was (failedEnable).
GroupsToEnable == GetNextToEnable(GroupOrder, MGroups)

Enable(g, failedEnable) ==
    IF g \in GroupsToEnable \ failedEnable
    THEN [grp[g] EXCEPT !.target = StateDeployed] ELSE grp[g]

\* watchArmadaChartGroups: every group read again and Updated with the
\* manifest as controller owner.  A failed Update is collected and the
\* function returns nil anyway: the group stays unowned (failedOwn).
WatchArmadaChartGroups(failedEnable, failedOwn) ==
    [g \in Groups |->
        IF grp[g].exists /\ g \notin failedOwn
        THEN [Enable(g, failedEnable) EXCEPT !.owned = TRUE]
        ELSE Enable(g, failedEnable)]

LiveGroups == {g \in Groups : grp[g].exists}

\* reconcileArmadaManifest, then the final status write.  Nothing checks
\* whether the groups are ready and the reconcilePeriod is unset: the
\* result asks for a requeue only when the status write fails.
ManifestReconciled ==
    /\ ManifestSynced /\ ~MInst.deleting /\ SyncOk
    /\ ~IsTargetStateUninitialized(MInst)
    /\ \E fe \in FailedWrites("enable", GroupsToEnable),
          fo \in FailedWrites("own", LiveGroups) :
          /\ Cardinality(fe) + Cardinality(fo) <= MaxApiErrors - apiErrors
          /\ apiErrors' = apiErrors + Cardinality(fe) + Cardinality(fo)
          /\ Publish(WriteManifest(UpdateStatus(MSnap, MInst)),
                     WatchArmadaChartGroups(fe, fo), ~ManifestFresh)
    /\ ManifestDone

ManifestStep ==
    \/ ManifestNotFound \/ ManifestAddFinalizer \/ ManifestSyncFailed
    \/ ManifestDeleted \/ ManifestParked \/ ManifestReconciled

-----------------------------------------------------------------------------
(* The ArmadaChartGroup controller, as seen from the manifest.  Each step   *)
(* is one group reconcile of ChartGroupReconcile; it is taken on the        *)
(* group's current state (the group controller's own staleness is checked  *)
(* in that module).                                                         *)

WriteGroup(g, obj) == Publish(manifest, [grp EXCEPT ![g] = obj], FALSE)

\* GroupAddFinalizer.
GroupCtlAddFinalizer(g) ==
    /\ grp[g].exists /\ ~grp[g].deleting /\ ~grp[g].fin
    /\ WriteGroup(g, [grp[g] EXCEPT !.fin = TRUE])
    /\ UNCHANGED <<manifestWork, apiErrors>>

\* GroupParked: the initialized group is written back; its stored status
\* becomes Satisfied (uninitialized = uninitialized).
GroupCtlParked(g) ==
    /\ grp[g].exists /\ grp[g].fin /\ ~grp[g].deleting
    /\ IsTargetStateUninitialized(InitObject(grp[g], FALSE))
    /\ grp[g] # InitObject(grp[g], FALSE)
    /\ WriteGroup(g, InitObject(grp[g], FALSE))
    /\ UNCHANGED <<manifestWork, apiErrors>>

\* GroupChartsReady: the charts of an enabled group are Deployed, and so
\* is the group (a status-only write).
GroupCtlDeployed(g) ==
    /\ grp[g].exists /\ grp[g].fin /\ ~grp[g].deleting
    /\ ~IsTargetStateUninitialized(InitObject(grp[g], FALSE))
    /\ grp[g].actual # StateDeployed
    /\ WriteGroup(g, SetCondition(InitObject(grp[g], FALSE), "deployed"))
    /\ UNCHANGED <<manifestWork, apiErrors>>

\* GroupDeleted: the group's charts are deleted and its finalizer removed.
GroupCtlDeleted(g) ==
    /\ grp[g].exists /\ grp[g].deleting
    /\ WriteGroup(g, Absent)
    /\ UNCHANGED <<manifestWork, apiErrors>>

-----------------------------------------------------------------------------
(* The environment.                                                        *)

\* A user applies one of the manifest's groups, before any uninstall.
CreateGroup(g) ==
    /\ ~grp[g].exists
    /\ manifest.exists /\ ~manifest.deleting
    /\ \E t \in GroupInitTargets : WriteGroup(g, Created(t))
    /\ UNCHANGED <<manifestWork, apiErrors>>

DeleteManifest ==
    /\ AllowDelete
    /\ manifest.exists /\ ~manifest.deleting
    /\ Publish(DeleteObject(manifest), grp, FALSE)
    /\ UNCHANGED <<manifestWork, apiErrors>>

\* The informers' periodic resync delivers an update event for every
\* cached object; the manifest's own watch passes it.
ResyncManifest ==
    /\ Resync
    /\ manifest.exists
    /\ ~manifestQueue
    /\ manifestQueue' = TRUE
    /\ UNCHANGED <<manifest, grp, manifestWork, apiErrors>>

-----------------------------------------------------------------------------
GroupCtlStep(g) ==
    \/ GroupCtlAddFinalizer(g) \/ GroupCtlParked(g)
    \/ GroupCtlDeployed(g) \/ GroupCtlDeleted(g)

Next ==
    \/ ManifestRead
    \/ ManifestStep
    \/ \E g \in Groups : GroupCtlStep(g) \/ CreateGroup(g)
    \/ DeleteManifest
    \/ ResyncManifest

\* The manifest worker serves its queue and finishes what it starts; the
\* group controller keeps reconciling (ChartGroupReconcile's Converged);
\* users apply the groups; the resync, where modelled, keeps happening.
Fairness ==
    /\ WF_vars(ManifestRead)
    /\ WF_vars(ManifestStep)
    /\ \A g \in Groups : WF_vars(GroupCtlStep(g)) /\ WF_vars(CreateGroup(g))
    /\ WF_vars(ResyncManifest)

Spec == Init /\ [][Next]_vars /\ Fairness

-----------------------------------------------------------------------------
(* Properties.                                                             *)

\* The manifest enables its groups in spec.chart_groups order: a group is
\* enabled only after every group before it was.
ManifestOrder ==
    \A i, j \in 1..Len(GroupOrder) :
       i < j /\ grp[GroupOrder[j]].target = StateDeployed
          => grp[GroupOrder[i]].target # StateUninitialized

\* Uninstalling the manifest cascades: once the manifest is gone, no group
\* it took ownership of is left live (deleteArmadaManifest deletes them
\* before it removes its finalizer).
CascadeDelete ==
    ~manifest.exists =>
       \A g \in Groups : grp[g].owned => ~grp[g].exists \/ grp[g].deleting

\* A manifest that is never deleted and not left uninitialized ends with
\* every group of spec.chart_groups Deployed.
AllGroupsDeployed ==
    <>[](manifest.exists /\ ~manifest.deleting /\ ~IsTargetStateUninitialized(manifest))
       => <>[](\A g \in Groups : grp[g].actual = StateDeployed)
=============================================================================
