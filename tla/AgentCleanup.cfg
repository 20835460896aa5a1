SPECIFICATION Spec
CONSTANTS
    Actions = {"a", "b"}
    Unknown = {}
    Unfit = {}
    Strict = {}
    Wide = {}
    CallIds = {"k1", "k2", "long"}
    TooLong = {"long"}
    Offers <- FewOffers
    Cursors = {}
    ToolCount = 1
    CallsPerTurn = 2
    TurnCount = 1
    TotalCalls = 2
    Caps <- WideCaps
    MaxPipe = 1
INVARIANT CleanupIsPerformed
