SPECIFICATION Spec
CONSTANTS
    VGs = {v1, v2}
    LVs = {l1}
    PvDevs = {p1, p2}
    Incarnations = 3
    MaxChanges = 2
    MaxFailures = 1
INVARIANTS
    TypeOK
    QuietMeansCurrent
    OneObjectPerGroup
PROPERTIES
    OwnerReleases
    Converges
CHECK_DEADLOCK FALSE
