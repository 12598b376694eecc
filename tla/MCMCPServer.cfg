SPECIFICATION MCPSpec
CONSTANTS
    Subjects = {s1}
    States = {a, b}
    Versions <- MCVersions
    NoToken = NoToken
    Tokens = {NoToken}
    Callers = {p1, p2}
    Lifetimes <- MCLifetimes
    ClockMayStepBack = FALSE
    MaxTime = 3
    MaxAttempts = 2
    MaxVersion = 2
    None = None
SYMMETRY CallerSymmetry
CHECK_DEADLOCK FALSE
INVARIANTS
    GateConserved
    CommitShowsOwnWrite
    NotStranded
PROPERTIES
    RecoverySeesAbandonedWrite
    OnlyCurrentAuthorityWrites
