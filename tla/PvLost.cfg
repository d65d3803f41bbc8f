SPECIFICATION Spec
CONSTANTS
    VGs = {v1}
    LVs = {l1}
    PvDevs = {p1, p2}
    Incarnations = 2
    MaxChanges = 3
    MaxFailures = 0
INVARIANT PvIsShown
CHECK_DEADLOCK FALSE
