\* One restart after the chart is deployed: Tiller's memory storage is empty,
\* the reconcile takes the install path and its failure purges the release.
CONSTANTS
    pod = pod
    job = job
    wf = wf
    svc = svc
    Res <- MCResPW
    KindOf <- MCKindOf
    ResOrder <- MCOrderPW
    MaxRestarts = 1
    MaxDeletes = 0
    MaxDrifts = 0
    MaxApiErrors = 0
    Resync = FALSE
SPECIFICATION Spec
PROPERTY NoResourcePurged
CHECK_DEADLOCK FALSE
