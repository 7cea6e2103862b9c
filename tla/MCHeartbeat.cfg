CONSTANTS
    Transports = {"tcp", "ws", "kcp"}
    HBMax = 1
    PeerMayStall = TRUE
    Users = {"u1"}
    Keys = {"k1", "k2"}
    MaxCalls = 4
SPECIFICATION FairCloseSpec
INVARIANTS
    CheckerStopsFirst
    CallbackOrder
PROPERTIES
    SilentPeerStopped
    StopFinishesUnlessStuck
    CallbacksRun
CHECK_DEADLOCK FALSE
