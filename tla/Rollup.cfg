SPECIFICATION Spec
CONSTANTS
    MaxFiles = 2
    MaxRows = 2
    MaxTime = 4
    DayLength = 2
    Inodes = {"i1", "i2"}
    MaxFaults = 1
    MaxAnalyses = 1
INVARIANTS
    TypeOK
    QuietBuildExact
    SettledAnalysisExact
CHECK_DEADLOCK FALSE
