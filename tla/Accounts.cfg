CONSTANTS
    c1 = c1
    c2 = c2
    k1 = k1
    k2 = k2
    boss = boss
    other = other
    s1 = s1
    s2 = s2
    p1 = p1
    p2 = p2
    Clients = {c1, c2}
    Emails = {boss, other}
    Contacts = {k1, k2}
    Passwords = {p1, p2}
    Sources = {s1, s2}
    EmailOf <- MCEmailOf
    Requests <- MCRequests
    Portals <- MCPortals
    MaxRequests = 3
    MaxFaults = 1
    MaxGrants = 1
    None = None
SPECIFICATION Spec
SYMMETRY ClientSymmetry
INVARIANTS
    AdministratorsOnly
    OutcomesAreRecorded
PROPERTIES
    CompletedOnceAndWhole
    DisabledStays
CHECK_DEADLOCK FALSE
