------------------------------- MODULE Inventory -------------------------------
(***************************************************************************)
(* The batches of one family: inventory commands that devices push, and    *)
(* the ordinary edits of a batch row that go on beside them.  Every action *)
(* is one SERIALIZABLE transaction of a push (SyncServer says which change *)
(* is decided how often); the handler that decides a command a second time *)
(* answers from the ledger and is not modelled again here.                 *)
(***************************************************************************)
EXTENDS Stock

CONSTANTS
    Commands,      \* inventory commands devices may send
    MaxVersion,    \* bound: no edit or deletion of a row beyond this version
    Saved          \* bound: the products that are created or revived

Kinds == {"consume_fefo", "consume_allocated", "restock", "discard"}

\* "take" holds the allocations of a command that names batches; restock and
\* discard name exactly one.
ASSUME CommandsAssumption ==
    /\ \A c, d \in Commands : c.operation = d.operation => c = d
    /\ \A c \in Commands :
        /\ c.kind \in Kinds /\ c.product \in Products /\ c.quantity \in Int
        /\ DOMAIN c.take \subseteq Batches /\ c.take \in [DOMAIN c.take -> Int]
        /\ c.kind \in {"restock", "discard"} => Cardinality(DOMAIN c.take) = 1
        /\ c.kind = "consume_allocated" => DOMAIN c.take # {}

VARIABLES
    today,       \* the calendar day in the family's time zone
    products,    \* products that exist and are not deleted
    stock,       \* product_batches
    records,     \* consumption_records
    published,   \* quantity and version of a batch in the last log entry about it
    outcome      \* outcome[c]: the decision on command c

inventoryVars == <<today, products, stock, records, published, outcome>>

InventoryTypeOK ==
    /\ today \in 0 .. MaxDay
    /\ products \subseteq Products
    /\ stock \in [Batches -> Batch]
    /\ \A r \in records : r.batch \in Batches /\ r.change \in -MaxQuantity .. MaxQuantity
    /\ published \in [Batches -> [quantity : 0 .. MaxQuantity, version : Nat]]
    /\ outcome \in [Commands -> {"none", "accepted", "rejected"}]

InventoryInit ==
    /\ today = 0
    /\ products = Products
    /\ stock = [i \in Batches |-> NoBatch]
    /\ records = {}
    /\ published = [i \in Batches |-> [quantity |-> 0, version |-> 0]]
    /\ outcome = [c \in Commands |-> "none"]

-----------------------------------------------------------------------------
(* What is written to change_log about batches: an entry carries the row of *)
(* one batch, or the quantity and version of every batch of a command.      *)

\* Mutant: an entry of a command tells of its first batch only.
PublishFirst(rows, touched) ==
    LET first == CHOOSE i \in touched : \A j \in touched : i <= j
    IN published' = [published EXCEPT
         ![first] = [quantity |-> rows[first].quantity, version |-> rows[first].version]]

Publish(rows, touched) ==
    published' = [i \in Batches |->
      IF i \in touched THEN [quantity |-> rows[i].quantity, version |-> rows[i].version]
      ELSE published[i]]

-----------------------------------------------------------------------------
(* Edits of rows *)

\* A new row: quantity and status come from the column defaults, because a
\* payload must not carry a quantity.
InsertBatch(i, p, expiry) ==
    /\ ~stock[i].exists
    /\ p \in products
    /\ stock' = [stock EXCEPT ![i] = [NoBatch EXCEPT !.exists = TRUE, !.live = TRUE,
                                      !.product = p, !.expiry = expiry, !.version = 1]]
    /\ Publish(stock', {i})
    /\ UNCHANGED <<today, products, records, outcome>>

\* An edit of the current version; it also revives a deleted row.
EditBatch(i, p, expiry) ==
    /\ stock[i].exists /\ stock[i].version < MaxVersion
    /\ p \in products
    /\ stock' = [stock EXCEPT ![i].product = p, ![i].expiry = expiry,
                              ![i].live = TRUE, ![i].version = @ + 1]
    /\ Publish(stock', {i})
    /\ UNCHANGED <<today, products, records, outcome>>

DeleteBatch(i) ==
    /\ stock[i].exists /\ stock[i].version < MaxVersion
    /\ stock' = [stock EXCEPT ![i].live = FALSE, ![i].version = @ + 1]
    /\ Publish(stock', {i})
    /\ UNCHANGED <<today, products, records, outcome>>

\* DeleteEntity of a product leaves its batches alone.
DeleteProduct(p) ==
    /\ p \in products
    /\ products' = products \ {p}
    /\ UNCHANGED <<today, stock, records, published, outcome>>

\* An entity change creates a product, or revives a deleted one.
SaveProduct(p) ==
    /\ p \in Saved \ products
    /\ products' = products \cup {p}
    /\ UNCHANGED <<today, stock, records, published, outcome>>

\* Nothing changes the time zone of a family once it exists, so its calendar only
\* goes forward.
NextDay ==
    /\ today < MaxDay
    /\ today' = today + 1
    /\ UNCHANGED <<products, stock, records, published, outcome>>

-----------------------------------------------------------------------------
(* Commands *)

Delta(c, amount) == IF c.kind = "restock" THEN amount ELSE -amount

Target(c) == CHOOSE i \in DOMAIN c.take : TRUE

\* validateInventoryDependencies: the product of a FEFO command, the batches a
\* command names.
DependenciesLive(c) ==
    /\ c.kind = "consume_fefo" => c.product \in products
    /\ c.kind # "consume_fefo" => \A i \in DOMAIN c.take : stock[i].live

EnoughFor(c) ==
    c.quantity > 0 /\ QuantityOf(stock, Candidates(stock, c.product, today)) >= c.quantity

\* Mutant: batches that have expired may be named.
AllocatableExpired(c) ==
    \A i \in DOMAIN c.take :
        c.take[i] > 0 /\ stock[i].status # "discarded" /\ stock[i].quantity >= c.take[i]

\* validateAllocated.
Allocatable(c) ==
    \A i \in DOMAIN c.take :
        /\ c.take[i] > 0 /\ stock[i].status # "discarded" /\ stock[i].quantity >= c.take[i]
        /\ ~Expired(stock[i], today)

Restockable(c) == c.take[Target(c)] > 0 /\ stock[Target(c)].status # "discarded"

\* A batch is discarded as a whole, also an empty one.
Discardable(c) ==
    stock[Target(c)].status # "discarded" /\ c.take[Target(c)] = stock[Target(c)].quantity

\* validateCommand and plan: the command can be carried out as it stands.
Plannable(c) ==
    \/ c.kind = "consume_fefo" /\ EnoughFor(c)
    \/ c.kind = "consume_allocated" /\ Allocatable(c)
    \/ c.kind = "restock" /\ Restockable(c)
    \/ c.kind = "discard" /\ Discardable(c)

\* The amounts of a plan, zero where it does not touch a batch.
Amounts(c) ==
    IF c.kind = "consume_fefo"
    THEN Allocate(stock, Candidates(stock, c.product, today), c.quantity)
    ELSE [i \in Batches |-> IF i \in DOMAIN c.take THEN c.take[i] ELSE 0]

\* The batches a plan changes; discarding an empty batch changes its status.
Touched(c, amounts) ==
    {i \in Batches : amounts[i] > 0 \/ (c.kind = "discard" /\ i = Target(c))}

AfterCommand(c, amounts) ==
    [i \in Batches |-> IF i \in Touched(c, amounts)
                       THEN AfterChange(stock[i], Delta(c, amounts[i]), c.kind = "discard")
                       ELSE stock[i]]

\* INTEGER columns: a value beyond the range is an error of the statement.
InRange(rows) == \A i \in Batches : rows[i].quantity <= MaxQuantity /\ rows[i].initial <= MaxQuantity

Executable(c) ==
    /\ DependenciesLive(c)
    /\ Plannable(c)
    /\ InRange(AfterCommand(c, Amounts(c)))

\* Mutant: no record is written for an allocation after the first.
RecordFirst(c, amounts) ==
    LET first == CHOOSE i \in Touched(c, amounts) : \A j \in Touched(c, amounts) : i <= j
    IN {[operation |-> c.operation, batch |-> first, change |-> Delta(c, amounts[first])]}

\* AppendConsumptionRecord for every allocation.
RecordsOf(c, amounts) ==
    {[operation |-> c.operation, batch |-> i, change |-> Delta(c, amounts[i])] :
        i \in Touched(c, amounts)}

Execute(c) ==
    LET amounts == Amounts(c)
        rows == AfterCommand(c, amounts)
    IN
    /\ outcome[c] = "none"
    /\ Executable(c)
    /\ stock' = rows
    /\ records' = records \cup RecordsOf(c, amounts)
    /\ Publish(rows, Touched(c, amounts))
    /\ outcome' = [outcome EXCEPT ![c] = "accepted"]
    /\ UNCHANGED <<today, products>>

\* Refused or in conflict: what the transaction wrote is rolled back to the
\* savepoint, and the decision is stored.
Reject(c) ==
    /\ outcome[c] = "none"
    /\ ~Executable(c)
    /\ outcome' = [outcome EXCEPT ![c] = "rejected"]
    /\ UNCHANGED <<today, products, stock, records, published>>

InventoryNext ==
    \/ \E i \in Batches, p \in Products, e \in 0 .. MaxDay \cup {NoExpiry} :
          InsertBatch(i, p, e) \/ EditBatch(i, p, e)
    \/ \E i \in Batches : DeleteBatch(i)
    \/ \E p \in Products : DeleteProduct(p) \/ SaveProduct(p)
    \/ NextDay
    \/ \E c \in Commands : Execute(c) \/ Reject(c)

InventorySpec == InventoryInit /\ [][InventoryNext]_inventoryVars

-----------------------------------------------------------------------------
(* Properties *)

ChangeOf(i, S) == SumFunction([r \in {s \in S : s.batch = i} |-> r.change])

\* The quantity of a batch is the sum of the changes recorded for it, and
\* initial_quantity the sum of what was ever put in, whatever commands, edits,
\* deletions and refusals come in between.
StockMatchesRecords ==
    \A i \in Batches :
        /\ stock[i].quantity = ChangeOf(i, records)
        /\ stock[i].initial = ChangeOf(i, {r \in records : r.change > 0})

\* A device that replays the log has the quantity and version of every batch,
\* also of the second and later batches of one command.
LogCarriesStock ==
    \A i \in Batches : published[i] = [quantity |-> stock[i].quantity,
                                       version |-> stock[i].version]

\* A discarded or used up batch is empty: stock never hides behind a status
\* under which the queries do not look for it.
NoHiddenStock == \A i \in Batches : stock[i].quantity > 0 => stock[i].status = "active"

\* An accepted consumption takes exactly what was asked for, from however many
\* batches; a refused one leaves no record.
TakenAsAsked ==
    \A c \in Commands :
        LET own == {r \in records : r.operation = c.operation}
            asked == IF c.kind = "consume_fefo" THEN c.quantity
                     ELSE SumFunction(c.take)
        IN IF outcome[c] = "accepted"
           THEN SumFunction([r \in own |-> r.change]) = Delta(c, asked) /\ own # {}
           ELSE own = {}

\* The loop of allocateFEFO takes first what expires first, and uses a batch on
\* its last day, for every need the stock can meet.
AllocationIsFEFO ==
    \A p \in Products :
        LET S == {i \in Batches : /\ stock[i].live /\ stock[i].product = p
                                  /\ stock[i].status # "discarded" /\ stock[i].quantity > 0
                                  /\ stock[i].expiry \in {NoExpiry} \cup today .. MaxDay}
        IN \A need \in 1 .. QuantityOf(stock, S) :
              /\ Candidates(stock, p, today) = S
              /\ IsFEFO(stock, S, need, Allocate(stock, Candidates(stock, p, today), need))

\* No step takes from a batch that has expired, and the only way out of an
\* expired batch is to discard all of it.
ExpiredOnlyDiscarded ==
    [][\A i \in Batches :
          /\ stock[i].expiry # NoExpiry /\ stock[i].expiry < today
          /\ stock'[i].quantity < stock[i].quantity
          => stock'[i].quantity = 0 /\ stock'[i].status = "discarded"]_inventoryVars
================================================================================
