CONSTANTS
    Transports = {"tcp", "ws", "kcp"}
    s1 = s1
    s2 = s2
    Senders <- TwoSenders
    Quota <- TwoAndOne
    MaxMsgChanLen = 1
SPECIFICATION FairSpec
INVARIANTS
    ExactlyOnce
    TcpFifo
    PanicOnlyWhenOver
PROPERTIES
    AcceptedIsSent
CHECK_DEADLOCK FALSE
