SPECIFICATION ReadersSpec
CONSTANTS
    Grants = {g1}
    AccessTokens = {a1, a2}
    RefreshTokens = {t1}
    Requests = {r1, r2}
    Readers = {q1}
    Clients = {c1, c2}
    RefreshClients = {c1}
    Subjects = {s1}
    Scopes = {openid}
    RedirectUris = {u1}
    Verifiers = {v1}
    Keys = {k1, k2}
    AuthCodeTtl = 1
    AccessTokenTtl = 1
    RefreshTokenTtl = 1
    Lag = 0
    MaxTime = 0
    Null = Null
SYMMETRY Symmetry
INVARIANTS TokensMatchGrant PinnedKey NotActiveOnceRevoked AnswersWithinGrant
PROPERTIES CodeIsOneTime RetryCompletesCascade
CHECK_DEADLOCK FALSE
