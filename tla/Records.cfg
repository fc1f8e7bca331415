CONSTANTS
    Conversations <- MCConversations
    MaxTime = 2
    MaxMigrated = 2
    MaxRows = 4
    MaxFiles = 3
    Limit = 1
    PAGE_MAX = 2
    SCAN_CAP = 3
    CACHE_CAPACITY = 2
    PROMPT_MAX = 5
    TEXT_MAX = 5
    FTS_MAX = 2
    FIELD_BYTE_CAP = 4
SPECIFICATION Spec
INVARIANTS PagesExact TimelineExact SummaryFaithful
CHECK_DEADLOCK FALSE
