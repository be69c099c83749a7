SPECIFICATION Spec
CONSTANTS
    Threads = {t1, t2}
    Targets <- Nested
    Probe = "probe"
SYMMETRY Symmetry
INVARIANTS
    ProbesRemoved
    ListedFilesHaveSizes
PROPERTIES
    SettingsRespected
