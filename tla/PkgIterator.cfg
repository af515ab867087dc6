SPECIFICATION Spec
CONSTANTS
    a = a
    b = b
    c = c
    PkgIds = {a, b, c}
    Inputs <- MCInputs
INVARIANTS
    HandedOut
    OutOfOrderOnlyIfSo
    FreedOnce
PROPERTIES
    Ends
\* The program ends.
CHECK_DEADLOCK FALSE
