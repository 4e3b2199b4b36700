CONSTANTS
    Mod32 = 16
    Mod64 = 64
    MAX_PAYLOAD_SIZE = 2
    RtTimeout = 1
    MAX_RETX_ATTEMPTS = 0
    LingerTimeouts = 2
    MaxWin = 3
    Client = Client
    Server = Server
    ClientIsn = 14
    ServerIsn = 3
    Isn <- MCIsn
    SendCapacity = 2
    RecvCapacity = 3
    Reordering = FALSE
    Clocks <- CommonClock
    Workloads <- TwoBytesOneFault
SPECIFICATION SocketSpec

CHECK_DEADLOCK FALSE
INVARIANT NeverThrows

CONSTANTS
    ChannelCapacity = 1
    MayDestroy = FALSE
    SocketPeers <- ServerOnly
