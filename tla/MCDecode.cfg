SPECIFICATION Spec
CONSTANTS
    Inputs <- MCInputs
    MaxRequestBytes = 4
    maximumNameLength = 3
INVARIANTS
    TypeOK
    OnlyStrictObjectsStored
    RefusalsAreTrue
    LayersAgree
    GoodRequestsStored
