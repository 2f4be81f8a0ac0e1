SPECIFICATION Spec
CONSTANTS
    Entities <- MCEntities
    Relationships <- MCRelationships
    Source <- MCSource
    Target <- MCTarget
    Requests <- MCRequests
    Claimed <- MCClaimed
    MaxClaims = 1
    Lines <- MCLines
    EventSources <- MCEventSources
    DerivedFrom <- MCDerivedFrom
INVARIANTS SearchExact ChainsHold NeighborsExact ComponentsExact OverlapExact ShortestExact
PROPERTY EveryQueryAnswered
