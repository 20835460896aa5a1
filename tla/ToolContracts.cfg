SPECIFICATION Spec
CONSTANTS
    ToolLists <- MCToolLists
    Responses <- MCResponses
    Results <- MCResults
    Parser <- MCParser
    Orchestrator <- MCOrchestrator
    Client <- MCClient
    Hard <- MCHard
    CanonicalIds = {"call-1", "call-2"}
    LegacyIds = {"legacy"}
    McpLow <- MCLow
    McpHigh = 3
    MaskedKeys = {"pid"}
    Redaction <- MCRedaction
INVARIANTS
    CapturedIsUsable
    AcceptedConforms
    RefusedOnlyForSize
    EvidenceConforms
    EvidenceIsRedacted
