CONSTANTS
    t1 = t1
    t2 = t2
    t3 = t3
    a1 = a1
    a2 = a2
    anyAddr = anyAddr
    Txs <- MCTxs
    Addrs <- MCAddrs
    LogAddrs <- MCLogAddrs
    GasOf <- MCGasOf
    Tips <- MCTips
    BaseFees = {1, 2}
    MaxHeight = 3
    MaxBlockTxs = 2
    AnyAddr <- anyAddr
SPECIFICATION Spec
PROPERTY BlockBaseFeeStable
