SPECIFICATION Spec
CONSTANTS
    Entities <- MCEntities
    Relationships <- MCRelationships
    Source <- MCSource
    Target <- MCTarget
    Claimed <- MCClaimed
    Thresholds = {"short", "long"}
    FoundAt <- MCFoundAt
    Statuses = {"reviewed"}
    MaxDepth = 2
    Views = {"graph", "evidence"}
    Origins = {2}
    WarnAbove = 2
    MaxCalls = 2
    Asks <- MCAsks
    Tabs = {"entities", "components"}
    Edges = {}
    Forgotten = {}
    Unreliable = {"case"}
CHECK_DEADLOCK FALSE
INVARIANTS OverlayMatchesResult DrawnClosed
