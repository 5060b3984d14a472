SPECIFICATION Spec
CONSTANTS
    Grants = {g1}
    AccessTokens = {a1, a2}
    RefreshTokens = {t1, t2}
    Requests = {r1, r2}
    Clients = {c1}
    RefreshClients = {c1}
    Subjects = {s1}
    Scopes = {openid}
    RedirectUris = {u1}
    Verifiers = {v1, v2}
    Keys = {k1}
    AuthCodeTtl = 1
    AccessTokenTtl = 1
    RefreshTokenTtl = 1
    Lag = 1
    MaxTime = 1
    Null = Null
SYMMETRY Symmetry
INVARIANT RevocationCascades
CHECK_DEADLOCK FALSE
