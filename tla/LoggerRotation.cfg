SPECIFICATION FairSpec
CONSTANTS
    Threads = {t1}
    NoThread = NoThread
    MaxFileSize = 2
    MaxFiles = 2
    MaxEntries = 3
PROPERTY RotationCompletes
CHECK_DEADLOCK FALSE
