--------------------------- MODULE MCInitialImport ---------------------------
(* Instances of InitialImport. *)
EXTENDS InitialImport, TLC

CONSTANTS cat, prod, own, rem, h1, h2, h3, here, d1, u1, a, b

MCUserOf == [d \in Devices |-> u1]
MCParent == [x \in Rows |-> IF x = prod THEN cat ELSE NoRow]
\* own is a category the family makes for itself, with the name of cat.
MCLabel == [x \in Rows |-> "name"]

Backup == [rows |-> {cat, prod}, reuse |-> {}, history |-> {h1, h2}, workspace |-> here]
\* The same backup, its category mapped to the one the family has.
Mapped == [rows |-> {prod}, reuse |-> {cat}, history |-> {h1}, workspace |-> here]
\* What Mapped leaves, and a reminder with a value the database refuses.
Rest == [rows |-> {}, reuse |-> {}, history |-> {h2, h3}, workspace |-> here]
Spoilt == [rows |-> {rem}, reuse |-> {}, history |-> {}, workspace |-> here]
MCManifests == {Backup, Mapped, Rest, Spoilt}
MCUnstorable == {Spoilt}

\* Another family may have the id of the product, or this one its own category.
SmallFamily ==
    /\ ImportInit
    /\ \A x \in Rows :
         \/ row[x] = "none"
         \/ x = prod /\ row[x] = "elsewhere" /\ row[own] = "none"
         \/ x = own /\ row[x] = "live"

SmallFamilySpec == SmallFamily /\ [][ImportNext]_vars

\* Connections are alike.
Alike == Permutations(Handlers)
=============================================================================
