SPECIFICATION Spec
CONSTANTS
    Requests = {r1, r2}
    MaxConns = 1
    ReadTimeout = 7
    WriteTimeout = 6
    RequestTimeout = 5
    StatementTimeout = 3
    readinessCheckTimeout = 2
SYMMETRY Symmetry
INVARIANTS
    HandlerBounded
    AnswerReachesClient
    TimeoutOnlyAfterWait
