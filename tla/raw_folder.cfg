SPECIFICATION Spec
CONSTANTS
    Names = {a, b}
    MaxDepth = 2
    MaxNodes = 3
    MaxCalls = 4
    MaxOutside = 1
    MaxFaults = 1
    Refreshes = TRUE
    None = None
SYMMETRY SymmetryOfNames
INVARIANTS
    MarksNotMixed
    LinksResolve
PROPERTIES
    MarksStay
CHECK_DEADLOCK FALSE
