SPECIFICATION FairSpec
CONSTANTS
    Attempts = {a1, a2}
    WithDashboard = {a1}
    Visits = {v1, v2}
    None = None
    Pending = Pending
INVARIANTS
    TypeOK
    OneDetectorPerAttempt
    ResolvesItsOwn
    TruthfulToasts
    NoOrphanDashboard
PROPERTY
    CreationAnnounced
CHECK_DEADLOCK FALSE
