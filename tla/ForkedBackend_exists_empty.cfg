CONSTANTS
    a1 = a1
    a2 = a2
    a3 = a3
    s2 = s2
    s1 = s1
    none = none
    Addrs <- MCAddrs
    Slots <- MCSlots
    Remote <- MCRemoteWithEmpty
    RemoteStorage <- MCRemoteStorage
    ZeroAccount <- MCZeroAccount
    ZeroWord = 0
    MaxFailures = 0
    NoAnswer <- none
SPECIFICATION Spec
PROPERTY AbsSpec
