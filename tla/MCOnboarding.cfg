SPECIFICATION MCFairSpec
CONSTANTS
    m1 = m1
    m2 = m2
    Handler = Handler
    Accept = Accept
    Reconnect = Reconnect
    NoTx = NoTx
    NoProc = NoProc
    Admins = {m1, m2}
    Faults = TRUE
    MaxTx = 3
    MaxCrashes = 2
    MaxTries = 2
    MaxStarts = 2
    MaxExchanges = 2
    MaxAdmin = 2
    MaxLost = 1
    MaxEdits = 2
    MaxLinks = 2
    MaxFails = 2
    MaxDowns = 2
INVARIANTS
    AnchoringInv
    OnboardingSound
PROPERTIES
    OnboardingProgress
    SubmissionResolved
CHECK_DEADLOCK FALSE
