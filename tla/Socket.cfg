CONSTANTS
    Mod32 = 16
    Mod64 = 64
    MAX_PAYLOAD_SIZE = 1
    RtTimeout = 1
    MAX_RETX_ATTEMPTS = 1
    LingerTimeouts = 2
    MaxWin = 3
    Client = Client
    Server = Server
    ClientIsn = 14
    ServerIsn = 3
    Isn <- MCIsn
    SendCapacity = 2
    RecvCapacity = 3
    Reordering = FALSE
    Clocks <- CommonClock
    Workloads <- TwoBytesOneFault
SPECIFICATION SocketFairSpec

CHECK_DEADLOCK FALSE
INVARIANTS NeverThrows PairInOrder EofIsTheEnd ExitsOnlyWhenDone
PROPERTY EventuallyClosed
CONSTANTS
    ChannelCapacity = 1
    MayDestroy = TRUE
    SocketPeers <- Both
