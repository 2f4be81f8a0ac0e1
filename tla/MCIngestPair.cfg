SPECIFICATION FairSpec
CONSTANTS
    x = x
    y = y
    z = z
    b = b
    h = h
    NoHeader = NoHeader
    Lines = {x, y, z, h}
    Sources = {"table", "short"}
    Schemas <- MCSchemas
    Instants = {1, 2}
    Records <- MCRecords
    Procs = {p1, p2}
    NoProc = NoProc
    NoManifest = NoManifest
    MaxCommands = 3
INVARIANTS EvidenceComplete ManifestNotAhead
PROPERTIES FirstSourceKept LockReleased
