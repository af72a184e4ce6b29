CONSTANTS
    c1 = c1
    r1 = r1
    c2 = c2
    a1 = a1
    o1 = o1
    u1 = u1
    x1 = x1
    x2 = x2
    e1 = e1
    Admins = {x1, x2}
    Readers = {e1}
    Users = {u1}
    Objects = {o1}
    Cones = {c1, c2}
    Rules = {r1}
    Assigns = {a1}
    Bodies <- MCBodies
    InvalidBodies <- MCInvalidBodies
    BootstrapCone = c2
    BootstrapBody = "boot"
    RuleInputs <- OneRuleInputs
    AssignInputs <- OneAssignInputs
    InitPolicies <- NoRulePolicies
    InitVersion = 3
    MaxVersion = 5
    MaxTime = 0
    TTL = 1
    VersionReadMayFail = FALSE
    SkipModes = {FALSE}
    None = None
SPECIFICATION Spec
INVARIANT
    DefinitionCacheCoherent
