SPECIFICATION Spec
CONSTANTS
    RequestUris = {u1}
    Interactions = {i1, i2}
    Codes = {c1, c2}
    Browsers = {b1}
    Users = {alice, bob}
    Sids = {s1, s2}
    Requests = {r1, r2}
    Prompts = {"unset", "none", "login"}
    MaxAges = {0, Null}
    ParTtl = 1
    InteractionTtl = 1
    SessionTtl = 2
    Crashes = TRUE
    MaxTime = 1
    Null = Null
SYMMETRY Symmetry
INVARIANTS TypeOK OneCodePerRequest CodeForShownSubject AuthTimeMeetsDemand
PROPERTIES DeclinedForever UriIsOneTime
CHECK_DEADLOCK FALSE
