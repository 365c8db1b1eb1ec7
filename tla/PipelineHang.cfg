SPECIFICATION FairSpec
CONSTANTS
    N = 2
    Job = {j1}
    NoJob = NoJob
PROPERTIES WaitReturns
CHECK_DEADLOCK FALSE
