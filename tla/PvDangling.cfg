SPECIFICATION Spec
CONSTANTS
    VGs = {v1}
    LVs = {l1}
    PvDevs = {p1, p2}
    Incarnations = 2
    MaxChanges = 2
    MaxFailures = 0
INVARIANT ShownPvIsPv
CHECK_DEADLOCK FALSE
