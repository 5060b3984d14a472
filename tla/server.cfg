SPECIFICATION ServerSpec
CONSTANTS
    RequestUris = {u1}
    Interactions = {i1}
    Codes = {c1, c2}
    Browsers = {b1}
    Users = {alice, bob}
    Sids = {s1, s2}
    Requests = {r1, r2}
    Prompts = {"unset", "none"}
    MaxAges = {Null}
    ParTtl = 1
    InteractionTtl = 2
    SessionTtl = 2
    Crashes = TRUE
    MaxTime = 0
    Null = Null
    TokenRequests = {q1}
    Clients = {k}
    RefreshClients = {k}
    Scopes = {openid}
    RedirectUris = {x1}
    Verifiers = {v1}
    Keys = {k1}
    AccessTokens = {a1, a2}
    RefreshTokens = {t1}
    AuthCodeTtl = 1
    AccessTokenTtl = 1
    RefreshTokenTtl = 1
    Lag = 0
SYMMETRY Symmetry
INVARIANTS TypeOK TokensAsApproved OneGrantPerPush
PROPERTIES PartsAsSpecified
CHECK_DEADLOCK FALSE
