\* Deadlines in units of five seconds, the sleep rounded up.
SPECIFICATION FairSpec
CONSTANTS
    ApiTimeout = 3
    ReadyTimeout = 2
    CommandTimeout = 6
    Sleep = 1
    HasFallback = TRUE
    Horizon = 8
INVARIANTS TypeOK DeadlinesNest SendsOnce SeccompHasTunnel
PROPERTIES BlockedGoesOnWithTunnel WaitEnds
\* The command ends.
CHECK_DEADLOCK FALSE
