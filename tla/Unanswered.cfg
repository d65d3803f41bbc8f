SPECIFICATION Spec
CONSTANTS
    MaxCalls = 2
    Names = {n1, n2}
PROPERTY EveryCallAnswered
CHECK_DEADLOCK FALSE
