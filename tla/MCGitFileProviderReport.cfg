SPECIFICATION Spec
CONSTANTS
    Clients = {h1}
    Commits = {k1, k2, k3}
    Paths = {target}
    Target = target
    Entries = {f, g}
    Regular = {f, g}
    ExecutionIDs = {i1}
    MayRewrite = FALSE
    None = None
CHECK_DEADLOCK FALSE
INVARIANT
    CommittedIsReported
