CONSTANTS
    P = 6
    H = 1
    Block = 2
    Jobs <- MCJobs
    WriteLogs = {TRUE, FALSE}
    Early = FALSE
    MaxFault = 3
SPECIFICATION FairSpec
CHECK_DEADLOCK FALSE
INVARIANTS BlockLostAtMost Resumable
PROPERTY OfflineFinishes
