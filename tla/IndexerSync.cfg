SPECIFICATION Spec
CONSTANTS
    Events <- MCEvents
    MaxBlock = 3
    PageLimit = 2
    MaxSyncBuffer = 2
    SubscribeMayTimeOut = FALSE
    MaxFaults = 3
INVARIANT TypeOK
INVARIANT NoEventLost
INVARIANT IndInv
PROPERTY FeedSpec
CHECK_DEADLOCK FALSE
