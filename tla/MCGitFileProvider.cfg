SPECIFICATION Spec
CONSTANTS
    Clients = {h1, h2}
    Commits = {k1, k2, k3}
    Paths = {target, other}
    Target = target
    Entries = {f, g}
    Regular = {f, g}
    ExecutionIDs = {i1, i2}
    MayRewrite = TRUE
    None = None
SYMMETRY Symmetry
CHECK_DEADLOCK FALSE
INVARIANTS
    FailureIsHonest
PROPERTIES
    VerificationShowsBranch
    RegisterSpec
    BoundarySpec
