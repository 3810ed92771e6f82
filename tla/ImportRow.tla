------------------------------- MODULE ImportRow -------------------------------
(***************************************************************************)
(* One row of a manifest on its way into the database: the validation the  *)
(* preflight makes, the values the insert computes from the JSON object,   *)
(* and the constraints of the tables as of migration 0008.                 *)
(*                                                                         *)
(* Optional texts are absent, empty, a word the field takes or another;    *)
(* names are so many characters with so many blanks around them.           *)
(***************************************************************************)
EXTENDS Integers

CONSTANTS MaxInt,        \* the largest 32-bit integer
          CategoryLimit, NameLimit,   \* characters of a name
          MaxName        \* bound on the characters of a name in a manifest

Absent == [present |-> FALSE, value |-> 0, whole |-> TRUE]

\* JSON numbers: up to one beyond the range, with and without a fraction.
Numbers == {Absent} \cup
    [present : {TRUE}, value : (-MaxInt - 2)..(MaxInt + 1), whole : BOOLEAN]

Texts == {"absent", "empty", "known", "other"}

Statuses == {"active", "used_up", "expired", "discarded"}
HistoryTypes == {"intake", "restock", "consume", "discard", "adjust"}

BatchRows == [entity : {"product_batches"}, product : BOOLEAN, initial : Numbers,
              quantity : Numbers, status : Statuses \cup {"other"},
              source : Texts, precision : Texts, ordered : BOOLEAN]

HistoryRows == [entity : {"history"}, product : BOOLEAN, occurred : BOOLEAN,
                type : HistoryTypes \cup {"adjustment", "other"}, quantity : Numbers,
                zone : Texts]

NamedRows == [entity : {"categories", "products", "shopping_items"},
              letters : 0..MaxName, blanks : 0..1, threshold : Numbers,
              reuse : BOOLEAN, color : BOOLEAN]

ReminderRows == [entity : {"reminder_settings"}, threshold : Numbers, days : Numbers,
                 opened : BOOLEAN]

-----------------------------------------------------------------------------
(* Validation *)

ImportInteger(n) == n.present /\ n.whole /\ n.value >= -MaxInt - 1 /\ n.value <= MaxInt

\* Of a field that is there: numbers are 32-bit integers.
ValidField(n) == n.present => ImportInteger(n)

ValidName(r) ==
    /\ r.letters >= 1
    /\ r.letters <= IF r.entity = "categories" THEN CategoryLimit ELSE NameLimit

Positive(n) == n.present => n.value > 0

NotNegative(n) == n.present => n.value >= 0

ValidReuse(r) == ~(r.entity = "categories" /\ r.reuse /\ r.color)

\* Mutant: the state of the stock is not looked at.
LooseBatch(r) ==
    /\ r.product
    /\ ImportInteger(r.initial) /\ ImportInteger(r.quantity)
    /\ r.quantity.value <= r.initial.value
    /\ r.status \in Statuses
    /\ r.source # "other" /\ r.precision # "other"
    /\ r.ordered

ValidBatch(r) ==
    /\ r.product
    /\ ImportInteger(r.initial) /\ ImportInteger(r.quantity)
    /\ r.initial.value >= 0 /\ r.quantity.value >= 0
    /\ r.quantity.value <= r.initial.value
    /\ r.status \in Statuses
    /\ r.status = "active" => r.quantity.value # 0
    /\ r.status \in {"used_up", "discarded"} => r.quantity.value = 0
    /\ r.source # "other" /\ r.precision # "other"
    /\ r.ordered

ValidHistory(r) ==
    /\ r.product /\ r.occurred /\ ImportInteger(r.quantity)
    /\ r.quantity.value = 0 => r.type = "discard"
    /\ r.type \in {"intake", "restock"} => r.quantity.value >= 0
    /\ r.type \in {"consume", "discard"} => r.quantity.value <= 0
    /\ r.type # "other"
    /\ r.zone # "other"

Valid(r) ==
    \/ /\ r.entity = "product_batches"
       /\ ValidField(r.initial) /\ ValidField(r.quantity) /\ ValidBatch(r)
    \/ r.entity = "history" /\ ValidField(r.quantity) /\ ValidHistory(r)
    \/ /\ r.entity \in {"categories", "products", "shopping_items"}
       /\ ValidField(r.threshold) /\ ValidName(r) /\ Positive(r.threshold) /\ ValidReuse(r)
    \/ /\ r.entity = "reminder_settings"
       /\ ValidField(r.threshold) /\ ValidField(r.days)
       /\ Positive(r.threshold) /\ NotNegative(r.days) /\ ~r.opened

-----------------------------------------------------------------------------
(* What is inserted, and what the tables take *)

\* An empty text becomes NULL, unless the column has an expression of its own.
Inserted(text) == IF text = "absent" THEN "known" ELSE text

StoredType(t) == IF t = "adjustment" THEN "adjust" ELSE t

BatchTaken(r) ==
    /\ r.initial.value >= 0 /\ r.quantity.value >= 0
    /\ r.status \in Statuses
    /\ Inserted(r.source) = "known" /\ Inserted(r.precision) = "known"

HistoryTaken(r) ==
    \/ StoredType(r.type) \in {"intake", "restock"} /\ r.quantity.value > 0
    \/ StoredType(r.type) = "consume" /\ r.quantity.value < 0
    \/ StoredType(r.type) = "discard" /\ r.quantity.value <= 0
    \/ StoredType(r.type) = "adjust" /\ r.quantity.value # 0

NameTaken(r) ==
    LET length == r.letters + r.blanks IN
    /\ length >= 1
    /\ r.entity = "categories" => length <= CategoryLimit
    /\ r.entity # "categories" => length <= NameLimit

ReminderTaken(r) ==
    /\ r.days.present => r.days.value >= 0
    /\ r.threshold.present => r.threshold.value > 0

Taken(r) ==
    \/ r.entity = "product_batches" /\ BatchTaken(r)
    \/ r.entity = "history" /\ HistoryTaken(r)
    \* A category that is reused is not inserted.
    \/ /\ r.entity \in {"categories", "products", "shopping_items"}
       /\ (r.entity = "categories" /\ r.reuse) \/ NameTaken(r)
    \/ r.entity = "reminder_settings" /\ ReminderTaken(r)

-----------------------------------------------------------------------------
(* Properties *)

AnyRow == BatchRows \cup HistoryRows \cup NamedRows \cup ReminderRows

\* Without empty words, and without blanks around its name.
Plain(r) ==
    /\ r.entity = "product_batches" => "empty" \notin {r.source, r.precision}
    /\ r.entity \in {"categories", "products", "shopping_items"} => r.blanks = 0

\* What Go checks of a plain row and what SQL checks, written twice, say the same.
PlainIsStored == \A r \in AnyRow : Plain(r) /\ Valid(r) => Taken(r)
=============================================================================
