\* Sequenced group of two charts created uninitialized, the group created
\* unset or uninitialized, one Helm failure, no deletion: charts are
\* enabled in list order and never disabled, the group implements
\* SequencerAbstract, and everything ends Deployed.  The periodic resync
\* may come at any time but is not fair, so convergence does not rest on it.  The values helpers
\* (removeNil, mergeValues) are checked once against their contracts over
\* every two-level tree on keys a and b; x, y are scalars, null is YAML null.
CONSTANTS
    c1 = c1
    c2 = c2
    c3 = c3
    x = x
    y = y
    null = null
    none = none
    ChartOrder <- MCOrder2
    HtkCharts <- MCNoHtk
    Sequenced = TRUE
    ChartInitTargets <- MCUninit
    GroupInitTargets <- MCUninitOrUnset
    AllowDelete = FALSE
    MaxFailures = 1
    MaxApiErrors = 0
    FailingWrites <- MCNoWrites
    Resync = TRUE
SPECIFICATION Spec
INVARIANT TypeOK SequencedOrder NextToEnableMeetsContract
          RemoveNilMeetsContract MergeValuesMeetsContract
PROPERTY EnableMonotonic Converged SequencerRefinement
CHECK_DEADLOCK FALSE
