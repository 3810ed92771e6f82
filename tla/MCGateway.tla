------------------------------ MODULE MCGateway ------------------------------
EXTENDS Gateway, TLC

CONSTANTS lamp, plug, scene, on, none, a, b

\* The plug belongs to a device; a scene has none.
Owners == [e \in Entities |-> IF e = scene THEN NoDevice ELSE lamp]

Connections == Permutations(Admins)
=============================================================================
