CONSTANTS
    N = 3
    MaxFailures = 1
    MaxRuns = 3
    Modes = {TRUE, FALSE}
SPECIFICATION Spec
PROPERTY ReceiptsKept
CHECK_DEADLOCK FALSE
