SPECIFICATION TwoRulesSpec
CONSTANTS
    milk = milk  soap = soap  softener = softener
    washing = washing  standard = standard  w = w  r1 = r1  r2 = r2  n1 = n1
    NoExpiry = NoExpiry
    Products = {milk, soap, softener}
    Batches = {1, 2}
    MaxDay = 1
    MaxQuantity = 3
    MaxVersion = 3
    Saved = {milk}
    Commands <- MCCommands
    Groups = {washing}
    Recipes = {standard}
    Rules = {r1, r2}
    Entities = {w}
    RunIds = {n1}
    GroupChoices <- SoapOrBoth
    RecipeChoices <- OneLoad
INVARIANT OneDeductionPerRun
CHECK_DEADLOCK FALSE
