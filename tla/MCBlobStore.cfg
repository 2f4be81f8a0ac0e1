SPECIFICATION Spec
CONSTANTS
    Writers = {w1, w2, w3}
    Digests = {d1, d2}
    Inodes = {i1, i2, i3, i4}
    NoInode = NoInode
    NChunks = 2
    MaxCrashes = 1
SYMMETRY Symmetry
INVARIANTS TypeOK UncontendedSound SettledIntact
PROPERTY StoredOnce
