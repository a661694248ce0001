SPECIFICATION Spec
CONSTANTS
    ClientIDs <- MCClientIDs
    Generated <- MCGenerated
    Bytes = {"a", "b", "%"}
    Unreserved = {"a", "b"}
    maximumRequestIDLength = 2
    Methods = {"GET", "DELETE", "PUT", "HEAD"}
    Origins = {"app", "other"}
    CORSOptions <- MCCORSOptions
INVARIANTS
    EveryResponseNamed
    RecordsNameTheResponse
    FailuresExplained
    CompletedOnce
    BrowserReadsID
