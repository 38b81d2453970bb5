SPECIFICATION Spec
CONSTANTS
    ApiTimeout = 3
    ReadyTimeout = 2
    CommandTimeout = 6
    Sleep = 1
    HasFallback = TRUE
    Horizon = 8
INVARIANT SeccompGoesOnWhenSetUp
CHECK_DEADLOCK FALSE
