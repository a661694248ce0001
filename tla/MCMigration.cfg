SPECIFICATION FairSpec
CONSTANTS
    Jobs = {j1, j2}
    N = 2
    TableVersions = {2}
    Environments <- MCEnvironments
    MaxRuns = 2
    WaitCap = 3
INVARIANTS AppliedOnce ReportIsTrue SuccessMeansCurrent LockWaitBounded
PROPERTY EveryRunEnds
