------------------------------ MODULE MCSessions ------------------------------
EXTENDS Sessions, TLC

CONSTANTS u1, u2, f1, f2, d1, t1, t2, t3, h1, h2

\* u2 manages the first family of u1.
MCMemberOf == [u \in Users |-> IF u = u1 THEN {f1, f2} ELSE {f1}]
MCManagers == (Users \ {u1}) \X {f1}

Symmetry == Permutations({h1, h2}) \cup Permutations({t1, t2, t3})
=============================================================================
