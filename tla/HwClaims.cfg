SPECIFICATION Spec
CONSTANT MaxMiss = 0
INVARIANT NeverTwoDrive
CHECK_DEADLOCK FALSE
