SPECIFICATION Spec
CONSTANTS
    s1 = s1
    s2 = s2
    NoStore = NoStore
    MaxRecords = 3
    Stores = {s1, s2}
    FirstStore = s1
    BatchSize = 2
    QueueCapacity = 2
    MaxRetries = 1
INVARIANTS
    TypeOK
    Conservation
    IdsContiguous
    SealHolds
PROPERTIES
    FlushIsBarrier
    ImplementsLog
    MemoryEmpties
CHECK_DEADLOCK FALSE
