SPECIFICATION Spec
CONSTANTS
    Characters <- MCCharacters
    Requests <- MCRequests
    Texts <- MCTexts
    Backends = 2
    MaxEvents = 4
INVARIANTS
    CountedOnce
    VerdictTruthful
    RecordedAsServed
    StreamedAsWhole
PROPERTIES
    ErrorEndsStream
CHECK_DEADLOCK FALSE
