SPECIFICATION MCFairSpec
CONSTANTS
    m1 = m1
    m2 = m2
    m3 = m3
    Sockets = {m1, m2}
    Interval = 2
    MaxMessages = 2
    MaxAttempts = 3
    AttemptCap = 4
    MaxBootFails = 4
    Locations = {m1, m2}
    Endpoints = {m3}
    Legacy = TRUE
    MaxDidFaults = 3
    Senders = {m1}
    MaxSockets = 3
    Requests = {m1, m2}
    MaxPeers = 3
    Reusers = {3}
    MaxDeletes = 1
    Callers = {m1, m2}
    MaxRecords = 4
    Conns = {m1}
    MaxListenerFails = 2
INVARIANTS
    StartSound
    WsInv
    InvitationsSound
    
PROPERTIES
    ConnectionsProgress
CHECK_DEADLOCK FALSE
