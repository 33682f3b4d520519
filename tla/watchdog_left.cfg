CONSTANT Bound = 6
SPECIFICATION Spec
INVARIANT CleanLeaveIsInstant
CHECK_DEADLOCK FALSE
