CONSTANTS
    Configs <- SmallConfigs
    MaxConn = 1
    PoolSize = 2
    MaxAccept = 3
    h1 = h1
    Handlers <- OneHandler
SPECIFICATION FairSpec
INVARIANTS
    ConnLimit
    SocketTracked
    NoWorkerLost
    StopCancelsAll
PROPERTIES
    StopDeletes
    StopReturns
CHECK_DEADLOCK FALSE
