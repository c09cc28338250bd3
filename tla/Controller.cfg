SPECIFICATION MCSpec
CONSTANTS
    Block = {1, 2, 3, 4, 5, 6}
    genesis = 1
    Trees <- AllTrees
    MaxLib = 3
    IsProducer = TRUE
    MaxRestarts = 1
    MaxCrashes = 1
    MaxConfirmations = 1
CHECK_DEADLOCK FALSE
INVARIANTS
    NodeConsistent
    OnBestBranch
PROPERTIES
    NoInternalError
    FinalityKept
