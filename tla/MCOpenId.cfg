SPECIFICATION MCFairSpec
CONSTANTS
    Lists = {m1}
    Offers = {m2, m3}
    Size = 1
    Lifetime = 4
    OfferTtl = 1
    CredTtl = 2
    MaxTime = 2
    Types = {m1, m2}
    MaxRegistrations = 1
    MaxRestarts = 1
    NoCaller = NoCaller
    Sessions = {m1}
    Callers = {m2, m3}
    MaxChanges = 2
    MaxUnavailable = 2
    MaxCrashes = 1
INVARIANTS
    VerdictInv
    IssuanceSound
PROPERTIES
    VerdictOnce
    NothingTakenBack
    OpenIsSettled
CHECK_DEADLOCK FALSE
