CONSTANTS
    x1 = x1
    x2 = x2
    Codes = {1, 2, 3, 4}
    Last = 9
    Entities = {"e"}
    Queries = {"q"}
    Others = {"m"}
    Admins = {x1, x2}
    PermissionInputs <- MCPermissions
    ResourceInputs <- MCResources
    DefaultInputs = {{2}}
    GrantInputs = {{2}, {}}
    InitSnapshots <- MCSnapshots
    MaxOps = 3
    Sync = Sync
    None = None
SPECIFICATION Spec
SYMMETRY MCSymmetry
INVARIANTS
    OneDeletionAway
    StaleOnlyByRace
    ClosedUntilDecided
    UndisturbedEffects
CHECK_DEADLOCK FALSE
