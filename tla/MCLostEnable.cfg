\* Sequenced group of two charts created uninitialized, no deletion, no
\* Helm failure, one enabling Update of the group controller that fails,
\* and no periodic resync: does everything still end Deployed before the
\* resync, 10 hours later, re-runs the group reconcile?
CONSTANTS
    c1 = c1
    c2 = c2
    c3 = c3
    x = x
    y = y
    null = null
    none = none
    ChartOrder <- MCOrder2
    HtkCharts <- MCNoHtk
    Sequenced = TRUE
    ChartInitTargets <- MCUninit
    GroupInitTargets <- MCUninit
    AllowDelete = FALSE
    MaxFailures = 0
    MaxApiErrors = 1
    FailingWrites <- MCEnableWrites
    Resync = FALSE
SPECIFICATION Spec
PROPERTY Converged
CHECK_DEADLOCK FALSE
