SPECIFICATION Spec
CONSTANTS
    Modules = {rw, ro}
    Users = {alice}
    Paths = {f, g}
    Outside = {g}
    NoName = NoName
    ReadOnly = {ro}
    Deletable = {rw, ro}
    Listable = {rw}
    AuthMethod = "public_key"
    Chunk = 2
    MaxSize = 3
INVARIANTS
    TypeOK
    TransferStreams
    DownloadIntact
    FdDiscipline
    ActAllowed
PROPERTIES
    GoneClientCostsLess
