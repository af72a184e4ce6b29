CONSTANTS
    d1 = d1
    d2 = d2
    t1 = t1
    p1 = p1
    p2 = p2
    k1 = k1
    k2 = k2
    r1 = r1
    a1 = a1
    o1 = o1
    o2 = o2
    Deployers = {d1, d2}
    Items <- MCItems
    Types <- MCTypes
    Objects = {o1, o2}
    Package <- MCPackage
    InitRows <- MCInitRows
    Edits <- MCEdits
    MaxDeploys = 2
    MaxEdits = 1
    None = None
SPECIFICATION Spec
SYMMETRY DeployerSymmetry
INVARIANTS
    StaleOnlyAfterFailure
    DeployedIsServed
PROPERTY
    OverwritesWhatWasPreviewed
CHECK_DEADLOCK FALSE
