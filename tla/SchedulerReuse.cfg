SPECIFICATION Spec
CONSTANTS
    c1 = c1
    c2 = c2
    c3 = c3
    k1 = k1
    k2 = k2
    Calls = {c1, c2, c3}
    Keys = {k1, k2}
    KeyOf <- KeyOfCalls
    Workers = {w1, w2}
    Clients = {t1}
    MaxPending = 2
    NoCall = NoCall
SYMMETRY ThreadSymmetry
INVARIANTS
    CancelledStaysSilent
    OneAnswerPerRequest
    NoEarlyStopDelivered
    StatsExact
