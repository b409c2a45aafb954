---------------------------- MODULE ArmadaTypes ----------------------------
(***************************************************************************)
(* The data model of the Armada custom resources (ArmadaChart,             *)
(* ArmadaChartGroup) and the helper methods the managers and controllers   *)
(* call on them: Init, IsTargetStateUninitialized, GetNextToEnable,        *)
(* GetAllDisabledCharts, IsReady and the status update done by             *)
(* SetCondition.  Objects are records holding only the fields the          *)
(* reconcilers read or write; "exists" is FALSE for an object the API      *)
(* server does not have.                                                   *)
(***************************************************************************)
EXTENDS Naturals, Sequences, FiniteSets

\* HelmResourceState values.  StateEmpty is a field left unset ("").
StateEmpty         == "empty"
StateUninitialized == "uninitialized"
StateDeployed      == "deployed"
StatePending       == "pending"
StateFailed        == "failed"
StateUninstalled   == "uninstalled"

TargetStates == {StateEmpty, StateUninitialized, StateDeployed}
ActualStates == {StateEmpty, StateUninitialized, StatePending, StateDeployed,
                 StateFailed, StateUninstalled}

\* The HelmResourceCondition types the controllers set, "uninstalled"
\* standing for ConditionDeployed with status False.
Conditions == {"running", "deployed", "failed", "irreconcilable", "uninstalled"}

\* An ArmadaChart or ArmadaChartGroup as stored by the API server:
\* spec.target_state, status.actual_state, status.satisfied, the
\* finalizer of its controller, metadata.deletionTimestamp, and (charts
\* only) a controller OwnerReference to the group.
Objects == [exists: BOOLEAN, target: TargetStates, actual: ActualStates,
            satisfied: BOOLEAN, fin: BOOLEAN, deleting: BOOLEAN, owned: BOOLEAN]

Absent == [exists |-> FALSE, target |-> StateEmpty, actual |-> StateEmpty,
           satisfied |-> FALSE, fin |-> FALSE, deleting |-> FALSE, owned |-> FALSE]

\* A freshly created object: the user sets spec.target_state or omits it.
Created(target) == [Absent EXCEPT !.exists = TRUE, !.target = target]

\* ArmadaChart.Init (InitObject): default the unset states, the "-htk" helper charts
\* staying uninitialized, and recompute Satisfied.
InitObject(obj, isHtk) ==
    LET actual == IF obj.actual = StateEmpty THEN StateUninitialized ELSE obj.actual
        target == IF obj.target # StateEmpty THEN obj.target
                  ELSE IF isHtk THEN StateUninitialized ELSE StateDeployed
    IN  [obj EXCEPT !.actual = actual, !.target = target,
                    !.satisfied = (target = actual)]

IsTargetStateUninitialized(obj) == obj.target = StateUninitialized

\* ArmadaCharts.GetNextToEnable over the charts `names` (in list order)
\* as read into `objs`: stop at the first enabled chart whose persisted
\* status is not Satisfied, else return the first uninitialized one.  The
\* result is the set of at most one chart to enable.
\* Mutation: the scan stops at the first enabled chart, Satisfied or not.
NextToEnableStopAtEnabled(names, objs, i) ==
    IF i > Len(names) \/ ~IsTargetStateUninitialized(objs[names[i]]) THEN {}
    ELSE {names[i]}

RECURSIVE NextToEnableFrom(_, _, _)
NextToEnableFrom(names, objs, i) ==
    IF i > Len(names) THEN {}
    ELSE LET act == objs[names[i]] IN
         IF ~IsTargetStateUninitialized(act) /\ ~act.satisfied THEN {}
         ELSE IF IsTargetStateUninitialized(act) THEN {names[i]}
         ELSE NextToEnableFrom(names, objs, i + 1)

\* Mutation: the scan starts one entry late.
GetNextToEnableFrom2(names, objs) == NextToEnableFrom(names, objs, 2)

GetNextToEnable(names, objs) == NextToEnableFrom(names, objs, 1)

\* ArmadaCharts.GetAllDisabledCharts: every uninitialized chart.
GetAllDisabledCharts(names, objs) ==
    {names[i] : i \in {j \in 1..Len(names) : IsTargetStateUninitialized(objs[names[j]])}}

\* ArmadaCharts.IsReady: every listed chart is Satisfied.
IsReady(names, objs) == \A i \in 1..Len(names) : objs[names[i]].satisfied

\* Status.SetCondition(cond, target): record the condition and recompute
\* the actual state and Satisfied from it.
\* Mutation: the condition type itself is stored as the actual state.
ConditionStateRaw == [c \in Conditions |-> IF c = "deployed" THEN StateDeployed ELSE c]

ConditionState ==
    [c \in Conditions |->
        CASE c = "running"        -> StatePending
          [] c = "deployed"       -> StateDeployed
          [] c = "uninstalled"    -> StateUninstalled
          [] OTHER                -> StateFailed]

SetCondition(obj, cond) ==
    [obj EXCEPT !.actual = ConditionState[cond],
                !.satisfied = (obj.target = ConditionState[cond])]

\* client.Delete: an object holding a finalizer only gets its
\* deletionTimestamp; one without is removed at once.
DeleteObject(obj) == IF obj.fin THEN [obj EXCEPT !.deleting = TRUE] ELSE Absent

\* The part of an object the dependent-resource predicate compares: the
\* object with status (and resourceVersion) stripped.
SpecPart(obj) == [obj EXCEPT !.actual = StateEmpty, !.satisfied = FALSE]

\* An event on a dependent object wakes its controller owner when it passes
\* the dependent predicate: create events are dropped, a delete passes, and
\* an update passes only if the object minus its status changed
\* (UnstructuredStatusChanged is false for the Armada kinds).
DependentNotifies(old, new) ==
    /\ old.exists
    /\ old.owned \/ new.owned
    /\ SpecPart(old) # SpecPart(new)
=============================================================================
