CONSTANTS
    Mod32 = 16
    Mod64 = 64
    Capacity = 2
    StreamLength = 18
    Isns = {0, 13}
    Reach = 2
    LateSyn = FALSE
SPECIFICATION FairSpec
INVARIANTS StreamNoRecovered UnwrapIsClosest InOrderDelivery
PROPERTIES PromisesKept EventuallyEof
