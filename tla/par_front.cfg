SPECIFICATION FrontSpec
CONSTANTS
    RequestUris = {u1}
    RedirectUris = {x, y}
    Scopes = {"openid", "email"}
    Keys = {k1, k2}
    Registrations <- MCRegistrations
    Bodies <- MCBodies
    Requests = {r1}
    Sources = {s1, s2, s3}
    Limit = 1
    Window = 2
    MaxKeys = 2
    MaxTime = 6
    Null = Null
    x = x
    y = y
    k1 = k1
    k2 = k2
SYMMETRY Symmetry
INVARIANTS CodeAsPushed ScopeAsShown RedirectsRegistered KeysBounded NewcomersWaitTwoWindows
PROPERTIES LiveWindowsKept
CHECK_DEADLOCK FALSE
