SPECIFICATION Spec
CONSTANTS
    Requests = {q1}
    DrainDelay = 1
    ShutdownTimeout = 1
    ReadHeaderTimeout = 1
    RequestTimeout = 3
    CloseTimeout = 1
    PollInterval = 1
    ProbeTimeout = 1
INVARIANT StopTimeAsDocumented
