SPECIFICATION Spec
CONSTANTS
    Entities <- MCEntities
    Relationships <- MCRelationships
    Source <- MCSource
    Target <- MCTarget
    Claimed <- MCUnclaimed
    Thresholds = {"short"}
    FoundAt <- MCShort
    Statuses = {"reviewed"}
    MaxDepth = 2
    Views = {"graph", "gaps", "findings"}
    Origins = {}
    WarnAbove = 2
    MaxCalls = 2
    Asks = {}
    Tabs = {"entities"}
    Edges = {}
    Forgotten = {"findings"}
    Unreliable = {"case", "findings"}
CHECK_DEADLOCK FALSE
INVARIANT SettledFresh
