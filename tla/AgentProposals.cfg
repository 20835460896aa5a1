SPECIFICATION Spec
CONSTANTS
    Actions = {"a", "b", "c", "strict", "wide"}
    Unknown = {"unknown"}
    Unfit = {"unfit"}
    Strict = {"strict"}
    Wide = {"wide"}
    CallIds = {"k1", "k2", "k3", "long"}
    TooLong = {"long"}
    Offers <- MCOffers
    Cursors = {"c1"}
    ToolCount = 2
    CallsPerTurn = 2
    TurnCount = 2
    TotalCalls = 2
    Caps <- MCCaps
    MaxPipe = 1
INVARIANTS
    SessionInv
    AtMostOnce
    TranscriptAccepted
    StopIsFinal
