SPECIFICATION FairSpec
CONSTANTS
    RequestUris = {u1}
    Interactions = {i1}
    Codes = {c1}
    Browsers = {b1}
    Users = {alice}
    Sids = {s1, s2, s3}
    Requests = {r1, r2}
    Prompts = {"unset"}
    MaxAges = {0}
    ParTtl = 2
    InteractionTtl = 2
    SessionTtl = 1
    Crashes = FALSE
    MaxTime = 1
    Null = Null
PROPERTY LoginLeadsToConsent
CHECK_DEADLOCK FALSE
