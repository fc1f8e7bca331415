SPECIFICATION Spec
CONSTANTS
    Loggers = {"l1", "l2"}
    MaxMonth = 2
    MaxSecond = 2
    MaxRows = 3
    MaxFiles = 6
    MaxFaults = 1
    MaxCrashes = 1
    MaxQueries = 1
INVARIANTS
    TypeOK
    WriterInActiveFile
    QuietQueryExact
PROPERTIES
    OnlyPastMonthsSealed
    ArchivesKept
    SealEnds
    PastMonthSealed
CHECK_DEADLOCK FALSE
