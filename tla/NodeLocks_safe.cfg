CONSTANTS
    m = m
    r1 = r1
    r2 = r2
    none = none
    unread = unread
    Miner <- m
    RpcThreads <- MCRpcThreads
    RpcHandlers <- HandlersNoNesting
    MaxHeight = 3
    NoThread <- none
    NoNum <- unread
SPECIFICATION Spec
INVARIANT TypeOK
INVARIANT ReadHeightStored
PROPERTY RequestsComplete
CHECK_DEADLOCK FALSE
