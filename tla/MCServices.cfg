SPECIFICATION MCFairSpec
CONSTANTS
    m1 = m1
    m2 = m2
    m3 = m3
    Accounts = {"a1", "a2"}
    allowedAccounts = {"a1"}
    authMode = "corporation"
    MAX_PENDING_NONCES = 2
    NONCE_TTL = 1
    TOKEN_TTL = 1
    MaxNonces = 3
    MaxClock = 2
INVARIANTS
    AdminInv
    
PROPERTIES
    ServedIsSigned
    ServicesProgress
CHECK_DEADLOCK FALSE
