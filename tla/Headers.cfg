SPECIFICATION MCSpec
CONSTANTS
    Producer = {"eosio", "a", "b", "c", "d"}
    eosio = "eosio"
    Local = {"eosio", "b", "c"}
    producer_repetitions = 1
    maximum_tracked_dpos_confirmations = 3
    Proposals <- Replace
    MaxConfirmed = 3
    MaxBlockNum = 10
    MaxMissed = 1
    MaxRestarts = 1
CHECK_DEADLOCK FALSE
INVARIANTS
    HeaderConsistent
    ProducedBlockAccepted
    WatermarksWork
    ProposedUnique
