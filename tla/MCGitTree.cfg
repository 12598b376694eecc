SPECIFICATION Spec
CONSTANTS
    Names <- MCNames
    KeyRank <- MCKeyRank
    Contents = {x, y}
    MaxEntries = 2
    Targets <- MCTargets
    None = None
SYMMETRY Symmetry
CHECK_DEADLOCK FALSE
INVARIANTS
    ReplacesOneLeaf
    OwnResultVerifies
    VerificationIsExact
