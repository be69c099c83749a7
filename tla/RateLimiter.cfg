SPECIFICATION HSpec
CONSTANTS
    Clients = {c1, c2}
    NoClient = NoClient
    Callers = {t1, t2}
    MaxPerMinute = 2
    MaxPerHour = 3
    Minute = 2
    Hour = 4
    MaxTime = 5
SYMMETRY Symmetry
INVARIANTS
    AdmittedWithinLimit
    EveryAdmissionCounted
    WindowsAccount
    AnyIntervalWithinTwoLimits
