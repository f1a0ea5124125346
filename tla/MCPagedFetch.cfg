SPECIFICATION FairSpec
CONSTANTS
    PageSize = 2
    MaxTotal = 6
INVARIANTS
    TypeOK
    NothingMissed
    ShownOnce
    QuietAfterAbort
PROPERTY
    FetchEnds
CHECK_DEADLOCK FALSE
