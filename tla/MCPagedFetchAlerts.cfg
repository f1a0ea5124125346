SPECIFICATION FairSpec
CONSTANTS
    PageSize = 2
    MaxTotal = 4
PROPERTY
    AlertsFetchEnds
CHECK_DEADLOCK FALSE
