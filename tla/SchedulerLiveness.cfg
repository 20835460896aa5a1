SPECIFICATION FairSpec
CONSTANTS
    c1 = c1
    c2 = c2
    c3 = c3
    k1 = k1
    k2 = k2
    Calls = {c1, c3}
    Keys = {k1, k2}
    KeyOf <- KeyOfCalls
    Workers = {w1}
    Clients = {t1, t2}
    MaxPending = 1
    NoCall = NoCall
PROPERTIES
    ShutdownReturns
    ImplementsLedger
