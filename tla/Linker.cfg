CONSTANTS
    Target = T
    Libs = {L1, L2, L3}
    Nonce0 = 1
    NoAddress = NoAddress
SPECIFICATION Spec
INVARIANT NeededIsClosure
INVARIANT LinkedCompletely
INVARIANT DeployedWhereLinked
INVARIANT FullyLinked
CHECK_DEADLOCK FALSE
