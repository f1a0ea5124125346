SPECIFICATION Spec
CONSTANTS
    LogTypes = {t1, t2}
    Clusters = {c1, c2}
    None = None
    MaxLoads = 2
    MaxSelections = 0
    MaxCreations = 1
INVARIANT
    RulesOfLogType
CHECK_DEADLOCK FALSE
