SPECIFICATION MCSpec
CONSTANTS
    a1 = a1
    a2 = a2
    b1 = b1
    ida = ida
    idb = idb
    ra = ra
    rb = rb
    k1 = k1
    d1 = d1
    t1 = t1
    t2 = t2
    t3 = t3
    payer = payer
    payee = payee
    Signed = {a1, a2, b1}
    IdOf <- MCIdOf
    Expiration <- MCExpiration
    Requests = {ra, rb}
    TrxOf <- MCTrxOf
    Persist = {rb}
    HasProducers = TRUE
    DeferRatio = 1
    MaxScheduled = 1
    MaxClock = 1
    MaxBlocks = 3
INVARIANTS
    AnsweredOnce
    IncludedOnce
    AcceptedKept
    
PROPERTIES
    EventuallyRetired
