SPECIFICATION Spec
CONSTANTS
    Admins = {a}
    Txs = {t}
    Handler = handler
    Accept = accept
    Reconnect = reconnect
    NoTx = NoTx
    NoProc = NoProc
    Holder = TRUE
    MaxCalls = 1
    MaxReattach = 0
    MaxReadFails = 0
    MaxCrashes = 0
PROPERTY NotificationWins
CHECK_DEADLOCK FALSE
