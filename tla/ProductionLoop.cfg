SPECIFICATION MCSpec
CONSTANTS
    Schedule <- OneOfTwo
    Producers = {"a"}
    Repetitions = 2
    BlockInterval = 3
    MinSleep = 2
    StaleHead = 4
    Offset = 0
    LastOffset <- Early
    StaleProduction = FALSE
    Late = TRUE
    MaxRequests = 1
    MaxFailures = 1
    MaxDrop = 1
    MaxQueued = 2
INVARIANTS
    LoopAlive
    WakesForNextTurn
PROPERTIES
    ShippedWhenDue
    NeverSignsTwice
    PromptKeepsProducing
