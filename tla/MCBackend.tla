------------------------------ MODULE MCBackend ------------------------------
EXTENDS Backend, TLC
CONSTANTS i1, i2, i3, o1, w1, c1, c2, u1, k1, k2, s1, e1, e2, h1, h2
Symmetry == Permutations(Ids) \cup Permutations(Connections)
=============================================================================
