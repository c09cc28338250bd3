SPECIFICATION LossySpec
CONSTANTS
    n1 = n1
    n2 = n2
    n3 = n3
    trx = trx
    client = client
    N = 2
    Links <- Dial
    InitHead <- Heads
    Producer = 2
    LastBlock = 9
    Lag = 2
    Span = 2
    Faults = 0
PROPERTY ResyncsAfterLoss
CHECK_DEADLOCK FALSE
