SPECIFICATION MCFairSpec
CONSTANTS
    m1 = m1
    m2 = m2
    m3 = m3
    m4 = m4
    MaxDefs = 2
    MaxRecs = 3
    MaxTypeStops = 2
    MaxExchangeStops = 1
    Groups = {m1, m2}
    Refs = {m1, m2}
    Schemas = {m3, m4}
    MaxWorldChanges = 1
    Callers = {m1}
    Indexes = {1, 2}
    MaxLists = 4
    MaxFails = 2
    MaxCrashes = 2
INVARIANTS
    DefinitionsSound
    RegistryInv
    
PROPERTIES
    GateSound
    
CHECK_DEADLOCK FALSE
