SPECIFICATION Spec
CONSTANTS
    Conns = {c1, c2}
    NoConn = NoConn
    Workers = {w1, w2}
    MaxConnections = 1
    Tls = FALSE
    MaxSignals = 2
    SignalDuringStart = FALSE
SYMMETRY Symmetry
INVARIANTS
    TypeOK
    OneOwner
    OnlyOpenSessionsServed
    ShutdownAlone
    OwnersAtWork
    CleanExit
    ExitLeaksOnlyEof
PROPERTIES
    ImplementsConnections
