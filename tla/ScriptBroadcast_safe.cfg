CONSTANTS
    N = 3
    MaxFailures = 1
    MaxRuns = 3
    Modes = {TRUE, FALSE}
SPECIFICATION Spec
INVARIANT ReceiptsRecordMinedPrefix
PROPERTY SequentialRunEnds
CHECK_DEADLOCK FALSE
