------------------------------ MODULE MCFamilies ------------------------------
EXTENDS Families, TLC

CONSTANTS u1, u2, u3, f1, f2, i1, i2, h1, h2

Symmetry == Permutations({h1, h2}) \cup Permutations({u1, u2}) \cup Permutations({i1, i2})
=============================================================================
