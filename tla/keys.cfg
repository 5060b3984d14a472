SPECIFICATION DeploySpec
CONSTANTS
    Servers = {p1, p2}
    Rotators = {cli1}
    Kids = {k1, k2, k3}
    TokenTtl = 2
    Retention = 2
    MaxTime = 2
    Migrators = {m1, m2}
    FileCount = 2
    KeysFile = 2
    Null = Null
SYMMETRY Symmetry
INVARIANTS TypeOK SignedKeysStored BootAgreement RetentionSuffices LoadedServersVerify RecordedAsApplied AppliedInOrder
CHECK_DEADLOCK FALSE
