SPECIFICATION HostSpec
CONSTANTS
    Subjects = {s1}
    States = {a, b}
    Versions <- MCVersions
    NoToken = NoToken
    Tokens = {NoToken}
    Callers = {p1}
    Lifetimes <- MCLifetimes
    ClockMayStepBack = FALSE
    MaxTime = 3
    MaxAttempts = 2
    MaxVersion = 1
    None = None
SYMMETRY CallerSymmetry
CHECK_DEADLOCK FALSE
INVARIANTS
    NotStranded
