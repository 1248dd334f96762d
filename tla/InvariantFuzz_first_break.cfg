CONSTANTS
    inc = inc
    rev = rev
    new = new
    inv = inv
    none = none
    Calls <- MCCalls
    Bump <- MCBump
    Reverting = {rev}
    Creating = {new}
    Invariants = {inv}
    Limit <- MCLimit
    Depth = 3
    Cases = 2
    FailOnRevert = FALSE
    None <- none
SPECIFICATION Spec
INVARIANT RecordIsFirstBreak
CHECK_DEADLOCK FALSE
