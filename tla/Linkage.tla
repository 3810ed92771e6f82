-------------------------------- MODULE Linkage --------------------------------
(***************************************************************************)
(* Consumables of appliances, one family: an appliance run that completes  *)
(* becomes a suggestion to take what a recipe needs, and a member confirms *)
(* or ignores it.  The stock is that of Inventory, whose commands and      *)
(* edits go on between the steps.  Every handler is one SERIALIZABLE       *)
(* transaction and so one action.                                          *)
(***************************************************************************)
EXTENDS Inventory

CONSTANTS
    Groups, Recipes,     \* ids of consumable groups and recipes
    Rules,               \* ids of linkage rules
    Entities,            \* appliances
    RunIds,              \* run tokens the appliances' events carry
    GroupChoices,        \* contents a group may be saved with
    RecipeChoices        \* contents a recipe may be saved with

States == {"running", "completed"}

\* The operation id of a deduction comes from the database and is no command's.
ASSUME LinkageAssumption ==
    /\ Recipes # {} /\ Entities # {} /\ IsFiniteSet(Groups)
    /\ \A c \in Commands : c.operation \notin Rules \X RunIds
    /\ GroupChoices \subseteq [Products -> Nat]
    /\ RecipeChoices \subseteq [Groups -> Nat]

VARIABLES
    group,        \* items of a group: how much of a product; all zero before it is saved
    recipe,       \* groups of a recipe, with a quantity; all zero before it is saved
    rule,         \* ha_linkage_rules
    run,          \* ha_appliance_runs, by rule and run token
    suggestion,   \* ha_linkage_suggestions with their purchase suggestions
    deductions,   \* ha_linkage_deductions
    refusedRules  \* new rules whose creation was answered with "not found"

linkageVars == <<group, recipe, rule, run, suggestion, deductions, refusedRules>>

vars == <<inventoryVars, linkageVars>>

Rule == [saved : BOOLEAN, enabled : BOOLEAN, entity : Entities, recipe : Recipes, start : States]

Suggestion == [status : {"none", "pending", "insufficient_stock", "deducted", "ignored"},
               recipe : Recipes, purchases : [Products -> Nat]]

Nothing == [p \in Products |-> 0]

LinkageTypeOK ==
    /\ group \in [Groups -> {Nothing} \cup GroupChoices]
    /\ recipe \in [Recipes -> {[g \in Groups |-> 0]} \cup RecipeChoices]
    /\ rule \in [Rules -> Rule]
    /\ run \in [Rules \X RunIds -> {"none"} \cup States]
    /\ suggestion \in [Rules \X RunIds -> Suggestion]
    /\ \A d \in deductions : d.of \in Rules \X RunIds /\ d.batch \in Batches
                             /\ d.quantity \in 1 .. MaxQuantity
    /\ refusedRules \subseteq Rules

\* A rule as it is installed, if it is.
NewRule(saved) ==
    [saved |-> saved, enabled |-> saved, entity |-> CHOOSE e \in Entities : TRUE,
     recipe |-> CHOOSE c \in Recipes : TRUE, start |-> "running"]

\* No appliance has run yet.
NoRuns ==
    /\ run = [k \in Rules \X RunIds |-> "none"]
    /\ suggestion = [k \in Rules \X RunIds |->
         [status |-> "none", recipe |-> CHOOSE c \in Recipes : TRUE, purchases |-> Nothing]]
    /\ deductions = {}
    /\ refusedRules = {}

\* CreateLinkageRule never succeeds, so the rules a family has were installed before.
AutomationInit ==
    /\ group = [g \in Groups |-> Nothing]
    /\ recipe = [c \in Recipes |-> [g \in Groups |-> 0]]
    /\ \E installed \in SUBSET Rules : rule = [r \in Rules |-> NewRule(r \in installed)]
    /\ NoRuns

LinkageInit == InventoryInit /\ AutomationInit

-----------------------------------------------------------------------------
(* Configuration, by owners and admins *)

\* A group has at least one item, and its products exist.
SaveConsumableGroup(g, items) ==
    /\ items # Nothing
    /\ \A p \in Products : items[p] > 0 => p \in products
    /\ group' = [group EXCEPT ![g] = items]
    /\ UNCHANGED <<inventoryVars, recipe, rule, run, suggestion, deductions, refusedRules>>

SaveConsumableRecipe(c, groups) ==
    /\ \E g \in Groups : groups[g] > 0
    /\ \A g \in Groups : groups[g] > 0 => group[g] # Nothing
    /\ recipe' = [recipe EXCEPT ![c] = groups]
    /\ UNCHANGED <<inventoryVars, group, rule, run, suggestion, deductions, refusedRules>>

RuleReferencesLive(c) == \E g \in Groups : recipe[c][g] > 0

SaveLinkageRule(r, entity, c, start, enabled) ==
    /\ rule[r].saved
    /\ RuleReferencesLive(c)
    /\ rule' = [rule EXCEPT ![r] = [saved |-> TRUE, enabled |-> enabled, entity |-> entity,
                                    recipe |-> c, start |-> start]]
    /\ UNCHANGED <<inventoryVars, group, recipe, run, suggestion, deductions, refusedRules>>

\* A new rule comes without an id.  The service gives it one, and the repository
\* looks for the rule under that id.
CreateLinkageRule(r, c) ==
    /\ ~rule[r].saved /\ r \notin refusedRules
    /\ RuleReferencesLive(c)
    /\ refusedRules' = refusedRules \cup {r}
    /\ UNCHANGED <<inventoryVars, group, recipe, rule, run, suggestion, deductions>>

-----------------------------------------------------------------------------
(* What a recipe needs and what there is *)

\* Mutant: the quantity of a group in the recipe is taken for one.
RequiredOnce(c, p) ==
    SumFunction([g \in Groups |-> IF recipe[c][g] > 0 THEN group[g][p] ELSE 0])

Required(c, p) == SumFunction([g \in Groups |-> recipe[c][g] * group[g][p]])

Usable(p) ==
    {i \in Batches : /\ stock[i].live /\ stock[i].product = p /\ stock[i].status = "active"
                     /\ stock[i].quantity > 0 /\ ~Expired(stock[i], today)}

Available(p) == QuantityOf(stock, Usable(p))

\* calculatePurchaseSuggestions looks at products that are not deleted.
PurchasesFor(c) ==
    [p \in Products |-> IF p \in products /\ Available(p) < Required(c, p)
                        THEN Required(c, p) - Available(p) ELSE 0]

\* lockRequiredBatches looks at deleted products as well.
Lockable(c) == \A p \in Products : Available(p) >= Required(c, p)

-----------------------------------------------------------------------------
(* Events.  A duplicate changes nothing but the audit log; an event for which *)
(* no rule is enabled, or that completes a run that never began, is refused.  *)

\* The query has no order: if several rules are enabled for the entity, any of
\* them is the one the event is for.
RuleFor(entity, r) == rule[r].saved /\ rule[r].enabled /\ rule[r].entity = entity

StartRun(entity, state, n) ==
    \E r \in Rules :
        /\ RuleFor(entity, r)
        /\ state = rule[r].start
        /\ run[<<r, n>>] = "none"
        /\ run' = [run EXCEPT ![<<r, n>>] = "running"]
        /\ UNCHANGED <<inventoryVars, group, recipe, rule, suggestion, deductions, refusedRules>>

\* Mutant: a repeated completion counts again.
CompletableAgain(r, n) == run[<<r, n>>] # "none"

Completable(r, n) == run[<<r, n>>] = "running"

CreateSuggestion(r, n) ==
    LET purchases == PurchasesFor(rule[r].recipe)
    IN suggestion' = [suggestion EXCEPT ![<<r, n>>] =
         [status |-> IF purchases = Nothing THEN "pending" ELSE "insufficient_stock",
          recipe |-> rule[r].recipe, purchases |-> purchases]]

CompleteRun(entity, state, n) ==
    \E r \in Rules :
        /\ RuleFor(entity, r)
        /\ state # rule[r].start
        /\ Completable(r, n)
        /\ run' = [run EXCEPT ![<<r, n>>] = "completed"]
        /\ CreateSuggestion(r, n)
        /\ UNCHANGED <<inventoryVars, group, recipe, rule, deductions, refusedRules>>

-----------------------------------------------------------------------------
(* Decisions *)

Open(k) == suggestion[k].status \in {"pending", "insufficient_stock"}

\* Mutant: what has been deducted may still be ignored.
IgnorableDeducted(k) == suggestion[k].status \in {"pending", "insufficient_stock", "deducted"}

Ignorable(k) == suggestion[k].status \in {"pending", "insufficient_stock"}

Ignore(k) ==
    /\ Ignorable(k)
    /\ suggestion' = [suggestion EXCEPT ![k].status = "ignored"]
    /\ UNCHANGED <<inventoryVars, group, recipe, rule, run, deductions, refusedRules>>

\* Confirmed, but the stock has changed since: only the purchases are renewed.
MarkInsufficient(k) ==
    LET c == suggestion[k].recipe
    IN
    /\ Open(k)
    /\ PurchasesFor(c) # Nothing \/ ~Lockable(c)
    /\ suggestion' = [suggestion EXCEPT ![k].status = "insufficient_stock",
                                        ![k].purchases = PurchasesFor(c)]
    /\ UNCHANGED <<inventoryVars, group, recipe, rule, run, deductions, refusedRules>>

\* Every batch is of one product, so the loops over products and batches give
\* one amount for each batch.
TakenFor(c) ==
    [i \in Batches |->
       Allocate(stock, Usable(stock[i].product), Required(c, stock[i].product))[i]]

Deducted(b, take) ==
    [b EXCEPT !.quantity = @ - take, !.version = @ + 1,
              !.status = IF b.quantity = take THEN "used_up" ELSE "active"]

RecordDeduction(k, take) ==
    records' = records \cup
      {[operation |-> k, batch |-> i, change |-> -take[i]] : i \in {j \in Batches : take[j] > 0}}

Deduct(k) ==
    LET c == suggestion[k].recipe
        take == TakenFor(c)
        touched == {i \in Batches : take[i] > 0}
        rows == [i \in Batches |-> IF i \in touched THEN Deducted(stock[i], take[i]) ELSE stock[i]]
    IN
    /\ Open(k)
    /\ PurchasesFor(c) = Nothing /\ Lockable(c)
    /\ touched # {}
    /\ stock' = rows
    /\ RecordDeduction(k, take)
    /\ deductions' = deductions \cup
         {[of |-> k, batch |-> i, quantity |-> take[i]] : i \in touched}
    /\ Publish(rows, touched)
    /\ suggestion' = [suggestion EXCEPT ![k].status = "deducted", ![k].purchases = Nothing]
    /\ UNCHANGED <<today, products, outcome, group, recipe, rule, run, refusedRules>>

-----------------------------------------------------------------------------
Configure ==
    \/ \E g \in Groups, items \in GroupChoices : SaveConsumableGroup(g, items)
    \/ \E c \in Recipes, groups \in RecipeChoices : SaveConsumableRecipe(c, groups)
    \/ \E r \in Rules, e \in Entities, c \in Recipes, s \in States, on \in BOOLEAN :
          SaveLinkageRule(r, e, c, s, on)
    \/ \E r \in Rules, c \in Recipes : CreateLinkageRule(r, c)

ProcessEvent ==
    \E e \in Entities, s \in States, n \in RunIds : StartRun(e, s, n) \/ CompleteRun(e, s, n)

ResolveLinkageSuggestion ==
    \E k \in Rules \X RunIds : Ignore(k) \/ MarkInsufficient(k) \/ Deduct(k)

LinkageNext ==
    \/ InventoryNext /\ UNCHANGED linkageVars
    \/ Configure
    \/ ProcessEvent
    \/ ResolveLinkageSuggestion

LinkageSpec == LinkageInit /\ [][LinkageNext]_vars

-----------------------------------------------------------------------------
(* Properties *)

\* Stock is accounted for: whatever commands, edits, deletions, refusals and
\* appliance runs come in between, the quantity of every batch is the sum of its
\* records, the log tells a device that quantity, also of the second and later
\* batches of one command or deduction, and no stock hides behind a status under
\* which no query looks for it.
StockIsAccounted ==
    /\ InventoryTypeOK /\ LinkageTypeOK
    /\ StockMatchesRecords
    /\ LogCarriesStock
    /\ NoHiddenStock

\* A suggestion is deducted exactly if stock was taken for it, and its
\* deductions and the stock history tell the same story, however its product,
\* its batches and the recipe were edited since.
DeductionsTellTheStory ==
    \A k \in Rules \X RunIds :
        LET own == {d \in deductions : d.of = k}
        IN /\ suggestion[k].status = "deducted" <=> own # {}
           /\ {[operation |-> k, batch |-> d.batch, change |-> -d.quantity] : d \in own}
                = {r \in records : r.operation = k}

\* A confirmation takes of each product exactly what the recipe needs at that
\* moment, out of usable stock, and nothing of any other product.
DeductedAsRequired ==
    [][\A k \in Rules \X RunIds :
          suggestion[k].status # "deducted" /\ suggestion'[k].status = "deducted" =>
             \A p \in Products :
                Available(p) - Available(p)' =
                  SumFunction([g \in Groups |-> recipe[suggestion[k].recipe][g] * group[g][p]])]_vars

\* What a member has decided stays decided: duplicates of the events, repeated
\* confirmations and edits of the rule do not open it again.
DecidedIsFinal ==
    [][\A k \in Rules \X RunIds :
          suggestion[k].status \in {"deducted", "ignored"} => suggestion'[k] = suggestion[k]]_vars

\* One run of an appliance takes consumables at most once.
OneDeductionPerRun ==
    \A j, k \in Rules \X RunIds :
        /\ suggestion[j].status = "deducted" /\ suggestion[k].status = "deducted"
        /\ j[2] = k[2] /\ rule[j[1]].entity = rule[k[1]].entity
        => j = k

================================================================================
