CONSTANTS
    c1 = c1
    r1 = r1
    a1 = a1
    o1 = o1
    u1 = u1
    x1 = x1
    x2 = x2
    e1 = e1
    e2 = e2
    Admins = {x1}
    Readers = {e1, e2}
    Users = {u1}
    Objects = {o1}
    Cones = {c1}
    Rules = {r1}
    Assigns = {a1}
    Bodies <- MCBodies
    InvalidBodies <- MCInvalidBodies
    BootstrapCone = c1
    BootstrapBody = "boot"
    RuleInputs <- OneRuleInputs
    AssignInputs <- DatedAssignInputs
    InitPolicies <- OneRulePolicies
    InitVersion = 3
    MaxVersion = 4
    MaxTime = 1
    TTL = 1
    VersionReadMayFail = TRUE
    SkipModes = {TRUE, FALSE}
    None = None
SPECIFICATION FSpec
SYMMETRY ReaderSymmetry
INVARIANTS
    CachesCoherent
    AnswersTheRequest
    FailureMeansPolicyChanged
