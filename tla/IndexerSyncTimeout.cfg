SPECIFICATION Spec
CONSTANTS
    Events <- MCEvents
    MaxBlock = 3
    PageLimit = 2
    MaxSyncBuffer = 2
    SubscribeMayTimeOut = TRUE
    MaxFaults = 3
INVARIANT RedoneOnlyIfInterrupted
CHECK_DEADLOCK FALSE
