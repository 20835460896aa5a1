SPECIFICATION Spec
CONSTANTS
    k1 = k1
    k2 = k2
    MaxLines = 3
    Keys = {k1, k2}
    KeyOf <- KeyOfLines
    MaxPending = 1
    MaxWorkers = 2
    Outcomes = {"own"}
INVARIANTS
    AcceptedWorkIsAnswered
