SPECIFICATION FairSpec
CONSTANTS
    k1 = k1
    k2 = k2
    MaxLines = 4
    Keys = {k1, k2}
    KeyOf <- KeyOfLines
    MaxPending = 1
    MaxWorkers = 2
    Outcomes = {"own", "uncorrelated"}
PROPERTIES
    FailureStopsServer
    EndOfInputExits
