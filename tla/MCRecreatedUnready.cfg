\* A Pod deleted beside a Service: the Pod reconcileRelease re-creates is not checked.
CONSTANTS
    pod = pod
    job = job
    wf = wf
    svc = svc
    Res <- MCResPS
    KindOf <- MCKindOf
    ResOrder <- MCOrderPS
    MaxRestarts = 0
    MaxDeletes = 1
    MaxDrifts = 0
    MaxApiErrors = 0
    Resync = FALSE
SPECIFICATION Spec
PROPERTY DeployedOnlyWhenAllReady
CHECK_DEADLOCK FALSE
