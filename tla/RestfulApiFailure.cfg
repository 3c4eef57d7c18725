SPECIFICATION Spec
CONSTANTS
    Key = {k1, k2, k3}
    Value = {v1, v2}
    None = None
    Capacity = 1
    Browser = {b1, b2}
    LocalKey = {k1}
SYMMETRY Symmetry
INVARIANTS
    FailureIs500
CHECK_DEADLOCK FALSE
