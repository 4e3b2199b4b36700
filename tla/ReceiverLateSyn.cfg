CONSTANTS
    Mod32 = 16
    Mod64 = 64
    Capacity = 2
    StreamLength = 6
    Isns = {13}
    Reach = 2
    LateSyn = TRUE
SPECIFICATION Spec
INVARIANT StreamNoRecovered
