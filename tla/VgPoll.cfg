SPECIFICATION Spec
CONSTANTS
    Pids = {1, 2}
    MaxVersion = 2
    MaxPolls = 2
    MaxUpdates = 1
    MaxWaits = 1
    LVs = {lv1}
INVARIANTS
    TypeOK
    RefsExact
PROPERTIES
    AppliesLatest
    Settles
\* All requests may have been served.
CHECK_DEADLOCK FALSE
