SPECIFICATION Spec
CONSTANTS
    Calls = {c1, c2, c3}
    None = None
SYMMETRY Symmetry
CHECK_DEADLOCK FALSE
INVARIANTS
    CodeIsOfOwnExecution
    HolderIsSettled
