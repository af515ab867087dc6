SPECIFICATION Spec
CONSTANTS
    a = a
    b = b
    c = c
    PkgIds = {a, b, c}
    Inputs <- MCInputs
PROPERTIES
    EndsAlways
\* The program ends.
CHECK_DEADLOCK FALSE
