CONSTANTS
    q1 = q1
    q2 = q2
    l1 = l1
    l2 = l2
    l3 = l3
    x1 = x1
    x2 = x2
    Ids = {"i1", "i2"}
    Requests = {q1, q2}
    Loads = {l1, l2}
    Editors = {x1, x2}
    Parts = 2
    MaxWrites = 2
    Absent = Absent
SPECIFICATION FairSpec
INVARIANT
    CachedIsCurrent
PROPERTY
    EveryCallAnswered
