SPECIFICATION Spec
CONSTANTS
    Threads = {t1, t2}
    NoThread = NoThread
    MaxFileSize = 3
    MaxFiles = 3
    MaxEntries = 6
SYMMETRY Symmetry
INVARIANTS
    RetainedIsSuffix
    SizeIsFileSize
PROPERTY OnlyOldestDropped
