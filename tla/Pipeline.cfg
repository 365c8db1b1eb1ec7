SPECIFICATION FairSpec
CONSTANTS
    N = 3
    Job = {j1, j2, j3}
    NoJob = NoJob
INVARIANTS JobInOnePlace SlotMatchesIdle
PROPERTIES WaitMeansAllDone PoolSpec GivenJobIsRun DrainedWaitReturns
CHECK_DEADLOCK FALSE
