SPECIFICATION MCSpec
CONSTANTS
    MCTx = t
    Admins = {a, b}
    Txs = {t, u}
    Handler = handler
    Accept = accept
    Reconnect = reconnect
    NoTx = NoTx
    NoProc = NoProc
    Holder = TRUE
    MaxCalls = 2
    MaxReattach = 1
    MaxReadFails = 1
    MaxCrashes = 1
INVARIANTS
    TypeOK
    FlowInv
    MCSucceededIsIncluded
SYMMETRY Symmetry
CHECK_DEADLOCK FALSE
