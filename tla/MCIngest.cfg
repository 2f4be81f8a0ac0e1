SPECIFICATION FairSpec
CONSTANTS
    x = x
    y = y
    z = z
    b = b
    h = h
    NoHeader = NoHeader
    Lines = {x, y, z, h}
    Sources = {"log", "table", "broken"}
    Schemas <- MCSchemas
    Instants = {1, 2}
    Records <- MCRecords
    Procs = {p1}
    NoProc = NoProc
    NoManifest = NoManifest
    MaxCommands = 3
INVARIANTS TypeOK ManifestCurrent
PROPERTIES IngestIsAtomic
