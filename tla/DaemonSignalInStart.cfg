SPECIFICATION Spec
CONSTANTS
    Conns = {c1}
    NoConn = NoConn
    Workers = {w1, w2}
    MaxConnections = 1
    Tls = FALSE
    MaxSignals = 1
    SignalDuringStart = TRUE
INVARIANT CleanExit
