\* Without deletion and without the periodic resync: do all groups end Deployed?
CONSTANTS
    g1 = g1
    g2 = g2
    g3 = g3
    GroupOrder <- MCGroupOrder
    GroupInitTargets <- MCGroupUninit
    ManifestInitTargets <- MCManifestUnset
    AllowDelete = FALSE
    Resync = FALSE
    FailingWrites <- MCNoWrites
    MaxApiErrors = 0
SPECIFICATION Spec
PROPERTY AllGroupsDeployed
CHECK_DEADLOCK FALSE
