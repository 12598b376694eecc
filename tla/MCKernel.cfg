SPECIFICATION Spec
CONSTANTS
    Subjects = {s1, s2}
    States = {a, b}
    Versions = {1}
    NoToken = NoToken
    Tokens = {NoToken, x}
    Callers = {p1, p2, p3}
    Lifetimes <- MCLifetimes
    ClockMayStepBack = TRUE
    MaxTime = 2
    MaxAttempts = 2
    None = None
SYMMETRY CallerSymmetry
CHECK_DEADLOCK FALSE
INVARIANTS
    ExecutionOwnsLifecycle
    ExecutorSeesAuthorizedObservation
    VerificationFollowsCompletion
    SingleVerifier
    RootStableUntilCommit
    RecoveryStaysPossible
    EvidenceBindsCommit
PROPERTIES
    RecoveryTakesNewEvidence
    BoundarySpec
