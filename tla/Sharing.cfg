SPECIFICATION Spec
CONSTANTS
    rf = rf  rf2 = rf2  r1 = r1  r2 = r2  df = df  df2 = df2  d1 = d1  d2 = d2
    alice = alice  bob = bob  admin = admin  g1 = g1  g2 = g2
    ReportFolders = {rf, rf2}
    Reports = {r1, r2}
    DashFolders = {df, df2}
    Dashboards = {d1, d2}
    Users = {alice, bob, admin}
    Admins = {admin}
    Grants = {g1, g2}
    Matches <- MCMatches
    InitRows <- MCInitRows
    Clients = {c1, c2}
    MaxOps = 2
    None = None
    HomePage = HomePage
SYMMETRY ClientSymmetry
INVARIANTS
    DashboardWithinReport
    WithinEnvelope
    GrantsFitModes
    HomeResolves
CHECK_DEADLOCK FALSE
