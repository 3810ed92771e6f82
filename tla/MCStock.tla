-------------------------------- MODULE MCStock --------------------------------
(* One family with three products, as two stories: milk is bought, edited,      *)
(* eaten and thrown away; soap and softener are taken by a washing machine.     *)
EXTENDS Linkage

CONSTANTS milk, soap, softener, washing, standard, w, r1, r2, n1

Named(o, kind, p, take) ==
    [operation |-> <<o>>, kind |-> kind, product |-> p, quantity |-> 0, take |-> take]

One(i, n) == [j \in {i} |-> n]

\* Milk comes in twice, is taken across two batches, by name from both, and is
\* discarded; two restocks of one batch together are more than the column holds.
MilkCommands ==
    {Named("r1", "restock", milk, One(1, 1)), Named("r2", "restock", milk, One(2, 2)),
     Named("r3", "restock", milk, One(1, 3)),
     [Named("c", "consume_fefo", milk, <<>>) EXCEPT !.quantity = 2],
     Named("a", "consume_allocated", milk, [j \in {1, 2} |-> 1]),
     Named("d", "discard", milk, One(2, 1))}

\* Soap is bought between two runs of the machine.
SoapCommands == {Named("s", "restock", soap, One(2, 1))}

MCCommands == MilkCommands \cup SoapCommands

SoapOrBoth == {[p \in Products |-> IF p = soap THEN 1 ELSE 0],
               [p \in Products |-> IF p = milk THEN 0 ELSE 1]}

TwoLoads == {[g \in Groups |-> 2]}

OneLoad == {[g \in Groups |-> 1]}

\* The commands of the other story were refused before this one begins.
Undecided(S) == outcome = [c \in Commands |-> IF c \in S THEN "none" ELSE "rejected"]

\* Soap and softener are deleted, so no group can be saved: nothing runs.
MilkInit ==
    /\ AutomationInit
    /\ \A r \in Rules : ~rule[r].saved
    /\ today = 0
    /\ products = {milk}
    /\ stock = [i \in Batches |-> NoBatch]
    /\ records = {}
    /\ published = [i \in Batches |-> [quantity |-> 0, version |-> 0]]
    /\ Undecided(MilkCommands)

Bought(n, e) ==
    [NoBatch EXCEPT !.exists = TRUE, !.live = TRUE, !.product = soap, !.expiry = e,
                    !.quantity = n, !.initial = n, !.version = 2]

\* The family has bought soap twice: one piece to be used today and two that keep.
\* The rules of Installed watch the machine.
StockedInit(Installed) ==
    /\ group \in [Groups -> GroupChoices]
    /\ recipe \in [Recipes -> RecipeChoices]
    /\ rule = [r \in Rules |-> NewRule(r \in Installed)]
    /\ NoRuns
    /\ today = 0
    /\ products = Products \ {milk}
    /\ stock = [i \in Batches |-> IF i = 1 THEN Bought(1, 0) ELSE Bought(2, NoExpiry)]
    /\ records = {[operation |-> <<"s1">>, batch |-> 1, change |-> 1],
                  [operation |-> <<"s2">>, batch |-> 2, change |-> 2]}
    /\ published = [i \in Batches |-> [quantity |-> i, version |-> 2]]
    /\ Undecided(SoapCommands)

StockSpec == (MilkInit \/ StockedInit({r1})) /\ [][LinkageNext]_vars

TwoRulesSpec == StockedInit({r1, r2}) /\ [][LinkageNext]_vars
================================================================================
