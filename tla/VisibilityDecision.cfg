CONSTANTS
    Records <- MCRecords
    Names <- MCNames
    Paths <- MCPaths
    Cones = {"k1", "k2"}
    Subjects = {"s1", "s2"}
    Permissions = {"q1", "q2"}
    Traits = {"t1"}
    Policies <- MCPolicies
    Contexts <- MCContexts
    None = None
SPECIFICATION DecisionSpec
INVARIANTS
    WithinGuide
    CachedAnswerAgrees
