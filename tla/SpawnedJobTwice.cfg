SPECIFICATION Spec
CONSTANT Jobs = {j1}
INVARIANT EmittedOnce
CHECK_DEADLOCK FALSE
