SPECIFICATION FairClientsSpec
CONSTANTS
    Conns = {c1, c2}
    NoConn = NoConn
    Workers = {w1}
    MaxConnections = 1
    Tls = TRUE
    MaxSignals = 1
    SignalDuringStart = FALSE
PROPERTIES
    StopTerminates
    GoneClientIsDropped
