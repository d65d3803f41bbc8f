SPECIFICATION Spec
CONSTANTS
    MaxCalls = 3
    Names = {n1, n2}
INVARIANTS
    TypeOK
    ConnectedNotReplied
    WaitedForComes
PROPERTIES
    SecondUseExplained
    FreshCallAnswered
\* All calls may have been made, or the daemon may be down.
CHECK_DEADLOCK FALSE
