SPECIFICATION Spec
CONSTANTS
    ModuleNames <- MCModules
    Paths <- MCPaths
    Words = {"", "password", "public_key", "u1", "x"}
    PortModulus = 4
    Bits = 3
    NotIpv4 = NotIpv4
    Documents <- MCDocuments
    Starts <- MCStarts
    Kind <- MCKind
    Users = {"u1", "u2"}
    MaxEdits = 2
    MaxReloads = 2
INVARIANTS
    TypeOK
    ReloadIsRestart
    NoLaxWindow
    DeniedStaysOut
    AccessMatchesBits
PROPERTIES
    OnlyValidReplaces
