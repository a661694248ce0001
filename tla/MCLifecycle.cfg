SPECIFICATION FairSpec
CONSTANTS
    Requests = {q1, q2}
    DrainDelay = 4
    ShutdownTimeout = 2
    ReadHeaderTimeout = 3
    RequestTimeout = 3
    CloseTimeout = 1
    PollInterval = 3
    ProbeTimeout = 2
INVARIANTS NoRequestRefused CleanExitLosesNothing StopsWithin
PROPERTY Stops
