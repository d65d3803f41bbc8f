SPECIFICATION Spec
CONSTANTS
    Jobs = {j1, j2}
    d1 = d1
    d2 = d2
    Lists <- MCLists
    Devices = {d1, d2}
    Names = {n1}
INVARIANTS
    TypeOK
    ResultTold
    WipesExplained
    DeathExplained
PROPERTIES
    JobsComplete
    JobTablePromise
\* Every job may have run, or the daemon may be down.
CHECK_DEADLOCK FALSE
