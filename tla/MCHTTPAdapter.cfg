SPECIFICATION FairSpec
CONSTANTS
    Calls = {c1, c2}
    Files = {f1, f2}
    MaxVersion = 1
    None = None
CHECK_DEADLOCK FALSE
INVARIANTS
    TypeOK
    SuccessIsOwnChange
    RefusalIsFinal
    OneChangePerCall
PROPERTY
    ToolCallEnds
