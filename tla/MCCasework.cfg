SPECIFICATION Spec
CONSTANTS
    e = e
    v = v
    a = a
    b = b
    h = h
    Procs = {p, q}
    EvidenceItems = {e}
    Events = {v}
    Entities = {a, b}
    Hypotheses = {h}
    Relationships <- MCRelationships
    Assertions <- MCAssertions
    Cited <- MCCited
    Earlier <- MCEarlier
    NoManifest = NoManifest
    Torn = Torn
    MaxCommands = 3
SYMMETRY MCSymmetry
INVARIANTS TypeOK ReferencesResolve ChangesKept ManifestCurrent
PROPERTIES RowsKept IntactCaseMatches
