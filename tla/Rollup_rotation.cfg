SPECIFICATION Spec
CONSTANTS
    MaxFiles = 2
    MaxRows = 2
    MaxTime = 4
    DayLength = 2
    Inodes = {"i1", "i2"}
    MaxFaults = 1
    MaxAnalyses = 1
INVARIANT AnalysisMatchesScan
CHECK_DEADLOCK FALSE
