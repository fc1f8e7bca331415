SPECIFICATION Spec
CONSTANTS
    r1 = r1
    r2 = r2
    c1 = c1
    c2 = c2
    Requests = {r1, r2}
    Credentials = {c1}
    Capacity = 1
    MaxReloads = 1
    MaxRefreshes = 3
INVARIANTS
    TypeOK
    Singleflight
PROPERTIES
    NoOlderList
    OwnList
    EveryRequestEnds
CHECK_DEADLOCK FALSE
