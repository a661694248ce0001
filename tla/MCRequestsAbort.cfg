SPECIFICATION Spec
CONSTANTS
    Requests = {r1}
    Widgets = {x}
    Operations = {"get"}
    MaxConns = 1
    Faults = {"abort"}
INVARIANT NothingUnsentIsLogged
