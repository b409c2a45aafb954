\* A sequenced group of two charts: can the group turn Deployed before its charts are?
CONSTANTS
    c1 = c1
    c2 = c2
    c3 = c3
    x = x
    y = y
    null = null
    none = none
    ChartOrder <- MCOrder2
    HtkCharts <- MCNoHtk
    Sequenced = TRUE
    ChartInitTargets <- MCUninit
    GroupInitTargets <- MCUninit
    AllowDelete = FALSE
    MaxFailures = 0
    MaxApiErrors = 0
    FailingWrites <- MCNoWrites
    Resync = FALSE
SPECIFICATION Spec
PROPERTY DeployedMeansChartsDeployed
CHECK_DEADLOCK FALSE
