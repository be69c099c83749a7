SPECIFICATION Spec
CONSTANTS
    Modules = {rw, ro}
    Users = {alice}
    Paths = {f, g}
    Outside = {g}
    NoName = NoName
    ReadOnly = {ro}
    Deletable = {rw, ro}
    Listable = {rw}
    AuthMethod = "disabled"
    Chunk = 2
    MaxSize = 3
INVARIANT UploadInstalled
