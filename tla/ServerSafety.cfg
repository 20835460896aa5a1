SPECIFICATION Spec
CONSTANTS
    k1 = k1
    k2 = k2
    MaxLines = 5
    Keys = {k1, k2}
    KeyOf <- KeyOfLines
    MaxPending = 2
    MaxWorkers = 2
    Outcomes = {"own", "too_large"}
INVARIANTS
    OnlyTheLastIsPartial
    OneResponsePerLine
    CleanExitOwesNothing
    FailureIsReported
    ToolsAfterHandshake
