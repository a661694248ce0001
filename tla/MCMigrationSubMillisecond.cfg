SPECIFICATION Spec
CONSTANTS
    Jobs = {j1}
    N = 2
    TableVersions = {2}
    Environments <- SubMillisecond
    MaxRuns = 1
    WaitCap = 3
INVARIANT LockWaitAsDocumented
