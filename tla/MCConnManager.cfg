CONSTANTS
    a1 = a1
    a2 = a2
    u1 = u1
    Acceptors <- TwoAcceptors
    Users <- OneUser
    ShardCount = 2
    MaxConn = 1
    MaxIds = 3
    MaxCalls = 1
    Configs <- RaceConfigs
SPECIFICATION FairSpec
INVARIANTS
    ConnLimit
    SnapshotFaithful
PROPERTY OpsReturn
CHECK_DEADLOCK FALSE
