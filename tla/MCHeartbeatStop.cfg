CONSTANTS
    Transports = {"ws", "kcp"}
    HBMax = 2
    PeerMayStall = FALSE
    Users = {}
    Keys = {"k1"}
    MaxCalls = 0
SPECIFICATION FairCloseSpec
PROPERTY StopFinishes
CHECK_DEADLOCK FALSE
