----------------------------- MODULE MCBlobStore -----------------------------
EXTENDS BlobStore, TLC

\* The writers, the digests and the inodes of a digest are interchangeable.
Symmetry == Permutations(Writers) \cup Permutations(Digests) \cup Permutations(Inodes)
=============================================================================
