SPECIFICATION Spec
CONSTANTS
    LogTypes = {t1, t2}
    Clusters = {c1, c2}
    None = None
    MaxLoads = 2
    MaxSelections = 1
    MaxCreations = 1
SYMMETRY MCSymmetry
INVARIANTS
    TypeOK
    RulesAreToggled
    RulesSettle
    MappedWhereCreated
CHECK_DEADLOCK FALSE
