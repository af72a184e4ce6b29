CONSTANTS
    c1 = c1
    c2 = c2
    k1 = k1
    k2 = k2
    Clients = {c1, c2}
    Contacts = {k1, k2}
    Views <- MCViews
    Records = {1, 2, 3, 4}
    Requests <- MCRequests
    Visible <- MCVisible
    Results <- MCResults
    BatchSizes = {1, 3}
    TTL = 1
    MaxRequests = 3
    MaxSingles = 1
    MaxVersion = 2
    MaxTime = 2
    MaxFaults = 1
    None = None
SPECIFICATION Spec
SYMMETRY ClientSymmetry
INVARIANTS
    WithinPolicy
    Audited
PROPERTIES
    TrailIsFinal
    PagesInOrder
CHECK_DEADLOCK FALSE
