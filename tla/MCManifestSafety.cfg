\* A manifest of three groups created uninitialized, with deletion and the
\* periodic resync: enabling order, the cascading uninstall, and every group
\* of a manifest that stays ends Deployed.
CONSTANTS
    g1 = g1
    g2 = g2
    g3 = g3
    GroupOrder <- MCGroupOrder
    GroupInitTargets <- MCGroupUninit
    ManifestInitTargets <- MCManifestTargets
    AllowDelete = TRUE
    Resync = TRUE
    FailingWrites <- MCGroupWrites
    MaxApiErrors = 2
SPECIFICATION Spec
INVARIANT TypeOK ManifestOrder CascadeDelete
PROPERTY AllGroupsDeployed
CHECK_DEADLOCK FALSE
