SPECIFICATION Spec
CONSTANTS
    Threads <- Three
    Latches <- AllLatches
    NoLatch = "none"
    Plans <- MCPlans
INVARIANTS
    StateCountsHolders
    
PROPERTY
    WritersAreNotStarved
CHECK_DEADLOCK FALSE
