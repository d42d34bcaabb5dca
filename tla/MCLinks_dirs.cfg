SPECIFICATION Spec
INVARIANT FullPathRestored
CHECK_DEADLOCK FALSE
