\* Deletion of a resource, a change to its spec, an operator restart at any
\* point, and the chart informer's periodic resync: the chart still ends
\* Deployed, and a changed managed field is patched back.
CONSTANTS
    pod = pod
    job = job
    wf = wf
    svc = svc
    Res <- MCResPJW
    KindOf <- MCKindOf
    ResOrder <- MCOrderPJW
    MaxRestarts = 1
    MaxDeletes = 1
    MaxDrifts = 1
    MaxApiErrors = 1
    Resync = TRUE
SPECIFICATION Spec
INVARIANT TypeOK ReadinessFlipNotifies
PROPERTY ChartEventuallyDeployed DriftRepaired
CHECK_DEADLOCK FALSE
