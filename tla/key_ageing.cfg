SPECIFICATION Spec
CONSTANTS
    Servers = {p1, p2}
    Rotators = {cli1, cli2}
    Kids = {k1, k2, k3}
    TokenTtl = 1
    Retention = 1
    MaxTime = 2
    Null = Null
SYMMETRY Symmetry
INVARIANT AgeOutSafe
CHECK_DEADLOCK FALSE
