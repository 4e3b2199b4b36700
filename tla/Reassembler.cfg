CONSTANTS
    Mod32 = 16
    Mod64 = 64
    Capacity = 5
    StreamLength = 8
SPECIFICATION BothSpec
INVARIANTS TypeOK InOrderDelivery StoredInWindow MemoryBound EndsExactly DisjointSubstrings
PROPERTIES WindowNeverShrinks ImplementsByteReassembler
