\* A parallel (unsequenced) group of two charts, created with TargetState
\* unset, no Helm failure (converge has one), two failing chart Deletes
\* (the second after the crash the first one causes), group deletion
\* allowed: no Helm release outlives its chart, and unless the
\* group is deleted everything ends Deployed.
CONSTANTS
    c1 = c1
    c2 = c2
    c3 = c3
    x = x
    y = y
    null = null
    none = none
    ChartOrder <- MCOrder2
    HtkCharts <- MCNoHtk
    Sequenced = FALSE
    ChartInitTargets <- MCUnset
    GroupInitTargets <- MCUninit
    AllowDelete = TRUE
    MaxFailures = 0
    MaxApiErrors = 2
    FailingWrites <- MCDeleteWrites
    Resync = FALSE
SPECIFICATION Spec
INVARIANT NoOrphanRelease
PROPERTY Converged
CHECK_DEADLOCK FALSE
