CONSTANTS
    Mod32 = 16
    Mod64 = 64
    MAX_PAYLOAD_SIZE = 2
    RtTimeout = 2
    MAX_RETX_ATTEMPTS = 1
    SendCapacity = 3
    StreamLimit = 4
    Isns = {13}
    Windows = {0, 1, 3}
    Delays = {1, 2}
SPECIFICATION Spec
INVARIANTS OutstandingTilesFlight TimerRunsWhileOutstanding SegmentsCarryTheirBytes BackoffMatchesCount OpenWindowIsFilled LoopsAreTheirClosedForms
PROPERTY NothingPastWindow
