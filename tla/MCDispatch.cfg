CONSTANTS
    c1 = c1
    c2 = c2
    w1 = w1
    w2 = w2
    Conns <- TwoConns
    Workers <- TwoWorkers
    Configs <- SomeConfigs
    MaxWorkerTaskLen = 1
    MaxChunk = 2
    Quota <- TwoAndOne
SPECIFICATION FairSpec
INVARIANTS
    RequestExclusive
    DataIntact
    ResponseOwn
PROPERTIES
    Ordered
    Served
    ReaderEnds
CHECK_DEADLOCK FALSE
