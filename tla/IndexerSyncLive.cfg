SPECIFICATION FairSpec
CONSTANTS
    Events <- ShortChain
    MaxBlock = 2
    PageLimit = 2
    MaxSyncBuffer = 1
    SubscribeMayTimeOut = FALSE
    MaxFaults = 2
PROPERTY EventuallyHandled
CHECK_DEADLOCK FALSE
