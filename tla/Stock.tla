--------------------------------- MODULE Stock ---------------------------------
(***************************************************************************)
(* Batches of a product and the order in which stock is taken from them:   *)
(* first expired, first out.  The operators are used by the inventory      *)
(* commands of devices and by the deductions for appliance runs.           *)
(***************************************************************************)
EXTENDS Integers, FiniteSets, Folds, Functions

CONSTANTS
    Products,
    Batches,       \* batch ids; their order is the order of numbers
    NoExpiry,      \* expiry_date IS NULL
    MaxDay,        \* bound on the calendar
    MaxQuantity    \* the largest INTEGER of the database

ASSUME StockAssumption ==
    /\ Batches \subseteq Nat /\ IsFiniteSet(Batches) /\ Products # {}
    /\ MaxDay \in Nat /\ MaxQuantity \in Nat
    /\ NoExpiry \notin Nat

\* The statuses batches get here; only an import, which is not modelled here, may
\* bring the fourth one of the schema, "expired".
Statuses == {"active", "used_up", "discarded"}

Batch == [exists : BOOLEAN, live : BOOLEAN, product : Products,
          expiry : 0 .. MaxDay \cup {NoExpiry}, quantity : 0 .. MaxQuantity,
          initial : 0 .. MaxQuantity, version : Nat, status : Statuses]

NoBatch == [exists |-> FALSE, live |-> FALSE, product |-> CHOOSE p \in Products : TRUE,
            expiry |-> NoExpiry, quantity |-> 0, initial |-> 0, version |-> 0,
            status |-> "active"]

\* A batch may still be used on its last day.
Expired(b, today) == b.expiry # NoExpiry /\ b.expiry < today

\* The batches allocateFEFO considers.
Candidates(stock, p, today) ==
    {i \in Batches : /\ stock[i].live /\ stock[i].product = p
                     /\ stock[i].status # "discarded" /\ stock[i].quantity > 0
                     /\ ~Expired(stock[i], today)}

\* Mutant: batches without a date come first.
BeforeNullsFirst(stock, i, j) ==
    LET e == stock[i].expiry
        f == stock[j].expiry
    IN \/ e = NoExpiry /\ f # NoExpiry
       \/ e # NoExpiry /\ f # NoExpiry /\ e < f
       \/ e = f /\ i < j

\* ORDER BY expiry_date ASC NULLS LAST, id.
Before(stock, i, j) ==
    LET e == stock[i].expiry
        f == stock[j].expiry
    IN \/ e # NoExpiry /\ f = NoExpiry
       \/ e # NoExpiry /\ f # NoExpiry /\ e < f
       \/ e = f /\ i < j

Smaller(a, b) == IF a < b THEN a ELSE b

QuantityOf(stock, S) == SumFunction([i \in S |-> stock[i].quantity])

\* The batch of T whose turn comes last.
Last(stock, T) == CHOOSE i \in T : \A j \in T \ {i} : Before(stock, j, i)

\* The loop over the sorted candidates: take what is left of the need.  A batch is
\* visited when all that come before it have been.
Allocate(stock, S, need) ==
    LET visit(i, left) ==
          LET amount == Smaller(stock[i].quantity, left.remaining)
          IN [remaining |-> left.remaining - amount,
              take |-> [left.take EXCEPT ![i] = amount]]
    IN MapThenFoldSet(visit, [remaining |-> need, take |-> [i \in Batches |-> 0]],
                      LAMBDA i : i, LAMBDA T : Last(stock, T), S).take

\* applyBatchChangeSQL.
AfterChange(b, delta, discard) ==
    [b EXCEPT !.quantity = @ + delta,
              !.initial = (IF @ < b.quantity THEN b.quantity ELSE @)
                            + (IF delta > 0 THEN delta ELSE 0),
              !.status = IF discard THEN "discarded"
                         ELSE IF b.quantity + delta = 0 THEN "used_up" ELSE "active",
              !.version = @ + 1]

\* What "first expired, first out" demands of an allocation, without a loop and
\* without the order of the code: a batch that keeps for ever has its last day
\* after the calendar.
IsFEFO(stock, S, need, take) ==
    LET lastDay(i) == IF stock[i].expiry = NoExpiry THEN MaxDay + 1 ELSE stock[i].expiry
        sooner(i, j) == lastDay(i) < lastDay(j) \/ (lastDay(i) = lastDay(j) /\ i < j)
    IN /\ \A i \in Batches : take[i] \in 0 .. (IF i \in S THEN stock[i].quantity ELSE 0)
       /\ SumFunction(take) = need
       /\ \A i, j \in S : sooner(i, j) /\ take[j] > 0 => take[i] = stock[i].quantity
================================================================================
