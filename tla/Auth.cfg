SPECIFICATION Spec
CONSTANTS
    Users = {u1, u2}
    Secrets = {s1, s2}
    Denied = {u2}
    Allowed = {}
    RejectPlain = TRUE
    MaxLines = 2
    Threads = {t1}
    NoUser = NoUser
    Ids = {i1}
    Timeout = 1
    TicksPerSecond = 2
    MaxTime = 5
INVARIANTS
    StoreFollowsFile
    RevokedStaysOut
    IdleSessionsLapse
PROPERTIES
    ExpiryAgrees
