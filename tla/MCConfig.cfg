SPECIFICATION Spec
CONSTANTS
    Environments <- MCEnvironments
    Millisecond = 2
    MaxInt32 = 127
    Garbage = Garbage
INVARIANTS
    TypeOK
    AcceptedNeverPanics
    NothingUnbounded
    RunsAsWritten
    BlamesTheCause
