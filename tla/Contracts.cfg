SPECIFICATION MCSpec
CONSTANTS
    a1 = a1
    a2 = a2
    p1 = p1
    p2 = p2
    n1 = n1
    n2 = n2
    NotYet = NotYet
    None = None
    Accounts = {a1, a2}
    Candidates = {}
    Names = {}
    Quantities <- NetOrCpu
    Bids = {}
    Funds = 2
    RefundDelay = 1
    WeekLength = 2
    ActivationDays = 0
    IndexModulus = 100
    Inflation = 20
    MinPervotePay = 1
    MaxElected = 2
    Launched = TRUE
    MayFail = TRUE
    MaxTime = 2
    MaxActivated = 6
    MaxUnpaid = 2
    MinActivatedStake = 4
    MaxVotes = 30
CHECK_DEADLOCK FALSE
INVARIANTS
    StakingAddsUp
    VotesAddUp
