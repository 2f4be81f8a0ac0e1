SPECIFICATION Spec
CONSTANTS
    l1 = l1
    l2 = l2
    l3 = l3
    l4 = l4
    A = A
    B = B
    NoValue = NoValue
    NoProc = NoProc
    NoReview = NoReview
    NoFinding = NoFinding
    Procs = {p, q}
    Reviews = {reviewed, dismissed}
    SourceIds = {A, B}
    MaxCommands = 4
    Lines <- MCLines
    Claims <- MCClaims
    ClaimOf <- MCClaimOf
    Attribute <- MCAttribute
    Earlier <- MCEarlier
    Params <- MCParams
SYMMETRY MCSymmetry
VIEW MCView
INVARIANTS ContradictionsStand ThresholdsNeverMatter
PROPERTIES ReviewKept TrackIsWhole
