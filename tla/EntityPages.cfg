CONSTANTS
    a = a
    b = b
    c = c
    plain = plain
    found = found
    Lists = {a, b}
    Queries = {plain, found}
    Plain = plain
    Elsewhere = "elsewhere"
    LastPage = 2
    Records = {a, b, c}
    Initial = {a, b}
    MaxActs = 5
    MaxFaults = 2
    None = None
SPECIFICATION PagesSpec
SYMMETRY PageSymmetry
INVARIANTS
    RowsOfUrl
    HistoryIsPath
    UserGoesThere
    RecordOfRoute
    WritesWhatIsSeen
    BusyHasRequest
CHECK_DEADLOCK FALSE
