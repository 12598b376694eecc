SPECIFICATION FairMCPSpec
CONSTANTS
    Subjects = {s1}
    States = {a, b}
    Versions <- MCVersions
    NoToken = NoToken
    Tokens = {NoToken}
    Callers = {p1, p2}
    Lifetimes <- MCLifetimes
    ClockMayStepBack = FALSE
    MaxTime = 2
    MaxAttempts = 1
    MaxVersion = 1
    None = None
CHECK_DEADLOCK FALSE
PROPERTIES
    CallIsAnswered
