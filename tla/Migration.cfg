CONSTANTS
    Procs = {p1, p2}
    Exchanges <- MCExchanges
    MaxRows = 2
    Batch = 1
    Backups <- MCBackups
    MaxInodes = 7
    MaxFaults = 2
    PROMPT_MAX = 4
    TEXT_MAX = 4
    FTS_MAX = 1
    FIELD_BYTE_CAP = 4
SPECIFICATION Spec
INVARIANTS TypeOK NoRecordLost ServedComplete
PROPERTY EventuallyServed
CHECK_DEADLOCK FALSE
