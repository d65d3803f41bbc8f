SPECIFICATION Spec
CONSTANTS
    c1 = c1
    c2 = c2
    k1 = k1
    k2 = k2
    k3 = k3
    Clients = {c1, c2}
    Calls = {k1, k2, k3}
    Caller <- MCCaller
    Launching = {k2}
    Root = {c1}
    Persist = FALSE
INVARIANT CallerWasChecked
CHECK_DEADLOCK FALSE
