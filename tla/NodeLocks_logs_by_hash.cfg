CONSTANTS
    m = m
    r1 = r1
    r2 = r2
    none = none
    unread = unread
    Miner <- m
    RpcThreads <- MCRpcThreads
    RpcHandlers <- HandlersLogsByHash
    MaxHeight = 3
    NoThread <- none
    NoNum <- unread
SPECIFICATION Spec
PROPERTY RequestsComplete
CHECK_DEADLOCK FALSE
