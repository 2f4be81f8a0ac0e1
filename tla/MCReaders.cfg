SPECIFICATION Spec
CONSTANTS
    e1 = e1  e2 = e2  v1 = v1  v2 = v2  t1 = t1  t2 = t2  t3 = t3  n1 = n1  g1 = g1  h1 = h1  h2 = h2
    RowOf <- MCRowOf
    KindOf <- MCKindOf
    Cites <- MCCites
    Bytes <- MCBytes
    Batches <- MCBatches
    Present <- MCPresent
    EventOf <- MCEventOf
    Value <- MCValue
    Created <- MCCreated
    Rank <- MCRank
    MaxBatches = 2
    MaxMembers = 5
    MaxReaders = 2
VIEW MCView
INVARIANTS ArchiveWhole ImportsHold MatchIsDisplayed ClaimsAccounted
CHECK_DEADLOCK FALSE
