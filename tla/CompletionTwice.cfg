SPECIFICATION Spec
CONSTANTS
    MaxCalls = 1
    Names = {n1}
INVARIANT OneReply
CHECK_DEADLOCK FALSE
