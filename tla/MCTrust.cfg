SPECIFICATION MCSpec
CONSTANTS
    m1 = m1
    m2 = m2
    Schemas = {m1}
    Endpoints = {m2}
    MaxStoreChanges = 2
    MaxStoreFaults = 1
    MaxStoreEdits = 1
    Participants = {m1, m2}
    SeedFirst = TRUE
    MaxBlocks = 2
    MaxTimeouts = 1
    Trusted = 2
    Modes = {"standalone", "delegated"}
    Onboarding = {"OPEN", "ECOSYSTEM"}
    MaxEntries = 3
    MaxBootCrashes = 1
    MaxBootFails = 1
    MaxBootEvents = 2
    MaxAmount = 2
    MaxTime = 1
    MaxFeeChanges = 1
    Owners = {m1, m2}
    MaxMirrorEvents = 2
    MaxMirrorStops = 1
    MaxRequestFails = 0
    Scenarios = {"store", "bootstrap", "cache", "fee",
                 "mirror"}
INVARIANTS
    
    OneEntry
    AuthInv
    FeeSound
    MirrorAgrees

    
CHECK_DEADLOCK FALSE
