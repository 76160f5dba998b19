--------------------------- MODULE MCFileChannel ---------------------------
EXTENDS FileChannel, TLC

Symmetry == Permutations(Paths) \cup Permutations(Shas) \cup Permutations(Ops)
=============================================================================
