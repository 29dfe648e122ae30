SPECIFICATION Spec
CONSTANT MaxRequests = 3
INVARIANT NoOrphanedPause
CHECK_DEADLOCK FALSE
