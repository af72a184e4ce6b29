CONSTANTS
    ann = ann
    bob = bob
    sales = sales
    desk = desk
    Users = {ann, bob}
    Apps = {sales, desk}
    First = sales
    MaxActs = 4
    MaxFaults = 2
    None = None
SPECIFICATION Spec
INVARIANTS
    UserOfCookie
    NothingLeft
    SelectionHeld
PROPERTY
    WaitingEnds
CHECK_DEADLOCK FALSE
