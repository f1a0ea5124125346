SPECIFICATION FairSpec
CONSTANTS
    Detectors = {d1, d2}
    Clusters = {c1, c2}
    Ranges = {day, week}
    StartCluster = c1
    StartRange = day
    MaxLoads = 3
INVARIANTS
    TypeOK
    SettledCurrent
PROPERTIES
    OnlyNewestLoad
    LoadingEnds
CHECK_DEADLOCK FALSE
