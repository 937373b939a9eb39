SPECIFICATION Spec
CONSTANTS
    Specs = {0, 1, 2, 3, 4, 5}
    States = {""}
    MaxKeys = 5
    MaxDisturbances = 4
INVARIANT SafeToIgnoreForbidden
CHECK_DEADLOCK FALSE
