SPECIFICATION Spec
CONSTANTS
    a = a  b = b  v = v  w = w  n = n  m = m  h = h
    s1 = s1  s2 = s2  d1 = d1  d2 = d2  d3 = d3
    p1 = p1  p2 = p2  f1 = f1  f2 = f2
    NoSource = NoSource
    NoFile = NoFile  Broken = Broken  NoManifest = NoManifest
    NoProc = NoProc
    Procs = {p1, p2}
    Dirs = {d1, d2, d3}
    Files = {f1, f2}
    Archives = {f2}
    Given = f1
    MaxDeclared = 4
    MaxContent = 2
    MaxMember = 5
    MaxCommands = 2
    Rank <- MCRank
    Size <- MCSize
    Packages <- MCPackages
    Demo <- MCDemo
    Earlier <- MCEarlier
SYMMETRY MCSymmetry
VIEW MCView
INVARIANTS ResolutionExact CasesClosed IdsSurvive
PROPERTIES ImportIsWhole
