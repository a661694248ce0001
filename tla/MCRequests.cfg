SPECIFICATION Spec
CONSTANTS
    Requests = {r1, r2}
    Widgets = {x}
    Operations = {"create", "delete", "ready"}
    MaxConns = 1
    Faults = {"panic", "abort"}
SYMMETRY Symmetry
INVARIANTS AnswersAreTrue OneDeleteWins NoPhantomResponse LogMatchesWire
PROPERTIES OneStatus ImplementsAPI
