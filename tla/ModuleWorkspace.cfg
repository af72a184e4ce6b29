CONSTANTS
    f = f
    a = a
    b = b
    Items = {a, b}
    Folders = {f}
    FolderOf <- MCFolderOf
    Beginnings <- MCBeginnings
    MaxActs = 4
    MaxFaults = 1
    None = None
SPECIFICATION Spec
SYMMETRY ItemSymmetry
INVARIANTS
    NeverBlank
    SavesOwnDraft
    SettlesOnStored
PROPERTIES
    DetailOfRoute
CHECK_DEADLOCK FALSE
