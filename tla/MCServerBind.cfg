CONSTANTS
    Configs <- TcpOnly
    MaxConn = 2
    PoolSize = 2
    MaxAccept = 3
    h1 = h1
    Handlers <- OneHandler
SPECIFICATION Spec
INVARIANT BindExclusive
CHECK_DEADLOCK FALSE
