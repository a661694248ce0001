SPECIFICATION FairSpec
CONSTANTS
    Requests = {r1, r2}
    Widgets = {x}
    Operations = {"get", "list"}
    MaxConns = 1
    Faults = {}
PROPERTIES EveryRequestEnds SlotsReturn
