SPECIFICATION Spec
CONSTANTS
    Workers = {w1, w2, w3}
    MaxCalls = 2
    Window = 2
    MaxTime = 5
SYMMETRY WorkerSymmetry
INVARIANTS
    OverrunBounded
PROPERTIES
    RefusedOnlyWhenBusy
