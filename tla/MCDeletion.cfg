\* Parallel group of two charts that may be deleted before its charts are
\* installed: does the uninstall of every chart finish?
CONSTANTS
    c1 = c1
    c2 = c2
    c3 = c3
    x = x
    y = y
    null = null
    none = none
    ChartOrder <- MCOrder2
    HtkCharts <- MCNoHtk
    Sequenced = FALSE
    ChartInitTargets <- MCUninit
    GroupInitTargets <- MCUninit
    AllowDelete = TRUE
    MaxFailures = 0
    MaxApiErrors = 0
    FailingWrites <- MCNoWrites
    Resync = FALSE
SPECIFICATION Spec
PROPERTY DeletionCompletes
CHECK_DEADLOCK FALSE
