SPECIFICATION MCSpec
CONSTANTS
    w1 = w1
    w2 = w2
    k1 = k1
    k2 = k2
    MaxQueue = 1
    StartBlock = 2
    LastBlock = 4
    Lag = 2
    ShutsDown = TRUE
CHECK_DEADLOCK FALSE
INVARIANTS
    StoredInOrder
    Drained
    LogIntact
    WalletsSafe
PROPERTIES
    SignalledIsStored
