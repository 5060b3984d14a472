SPECIFICATION Spec
CONSTANTS
    DpopProofs = {d1}
    Assertions = {a1}
    Requests = {r1, r2}
    Stamps = {1, 2}
    Fractions = {0, 1}
    SubSec = 2
    Skew = 1
    MaxAge = 1
    MaxLifetime = 2
    Stores = {"pg", "memory"}
    SweepAt = 1
    HardCap = 2
    Lag = 0
    MaxSec = 5
    MaxUses = 2
    Null = Null
SYMMETRY Symmetry
INVARIANT SingleUse
CHECK_DEADLOCK FALSE
