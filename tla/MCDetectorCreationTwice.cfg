SPECIFICATION Spec
CONSTANTS
    Attempts = {a1, a2}
    WithDashboard = {a1}
    Visits = {v1, v2}
    None = None
    Pending = Pending
INVARIANT
    OneIndexPattern
CHECK_DEADLOCK FALSE
