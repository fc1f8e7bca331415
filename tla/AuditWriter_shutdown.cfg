SPECIFICATION Spec
CONSTANTS
    s1 = s1
    s2 = s2
    NoStore = NoStore
    MaxRecords = 2
    Stores = {s1, s2}
    FirstStore = s1
    BatchSize = 2
    QueueCapacity = 1
    MaxRetries = 1
INVARIANTS
    ShutdownFlushes
CHECK_DEADLOCK FALSE
