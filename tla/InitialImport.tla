----------------------------- MODULE InitialImport -----------------------------
(***************************************************************************)
(* /sync/import: a device hands a backup over to its family.               *)
(*                                                                         *)
(* Preflight freezes the manifest under its import id; a confirmation that *)
(* names the checkpoint and the fingerprint of the frozen plan writes all  *)
(* of it in one READ COMMITTED transaction.  The steps of that transaction *)
(* are interleaved here with everything it does not hold a lock against.   *)
(* The family's plans are under one advisory lock, taken by whoever        *)
(* prepares or confirms; a transaction that waits for it holds nothing     *)
(* that another one needs, so taking it, the check of the identity (FOR    *)
(* SHARE) before it and the reading of the plan after it are one step.     *)
(*                                                                         *)
(* A business row is where it is: nowhere, live, deleted or in another     *)
(* family.  A fingerprint is the manifest it is the digest of.             *)
(***************************************************************************)
EXTENDS Naturals, FiniteSets

CONSTANTS
    Users, Devices,
    Admins,       \* owner and admins of the family; nothing changes a role
    UserOf,       \* the user of each device
    Workspaces,
    Rows,         \* ids of categories, products, batches, items and reminders
    Categories, Reminders,
    NoRow,
    Parent,       \* the category of a product, the product of a batch, or NoRow
    Label,        \* the name of a category, the product a reminder is for
    Archive,      \* ids of rows of old stock history
    Imports,      \* import ids
    Manifests,    \* backups, as they are sent
    Unsupported,  \* those of them ValidateImport refuses
    Unstorable,   \* those only a constraint of the database refuses
    NoManifest, NoUser, NoOffer,
    Handlers,     \* connections serving confirmations
    Limit,        \* rows per page of the history
    MaxCheckpoint,\* bound on the checkpoints that are drawn
    MaxLog,       \* bound on the change log that others write
    MaxInt, CategoryLimit, NameLimit, MaxName   \* of ImportRow

Row == INSTANCE ImportRow

ASSUME DevicesAssumption ==
    /\ UserOf \in [Devices -> Users] /\ NoUser \notin Users
    /\ Admins \subseteq Users
ASSUME RowsAssumption ==
    /\ Parent \in [Rows -> Rows \cup {NoRow}] /\ NoRow \notin Rows
    /\ Categories \subseteq Rows /\ Reminders \subseteq Rows
    /\ Rows \cap Archive = {}
\* A manifest inserts rows, reuses categories and appends to the archive.
ASSUME ManifestsAssumption ==
    /\ Manifests \subseteq [rows : SUBSET Rows, reuse : SUBSET Categories,
                            history : SUBSET Archive, workspace : Workspaces]
    /\ \A m \in Manifests : IsFiniteSet(m.rows) /\ IsFiniteSet(m.history)
    /\ NoManifest \notin Manifests
ASSUME BoundsAssumption ==
    /\ Limit \in Nat \ {0} /\ MaxCheckpoint \in Nat /\ MaxLog \in Nat
    /\ MaxInt \in Nat /\ CategoryLimit \in Nat /\ NameLimit \in Nat /\ MaxName \in Nat

VARIABLES
    row,          \* row[x]: where row x is
    archive,      \* imported_stock_history: the cursor of a row, 0: not there
    high,         \* MAX(cursor) of the archive, of which nothing is deleted
    plan,         \* sync_import_plans by import id
    drawn,        \* how many checkpoints were drawn
    log,          \* the cursor of the family's change log
    current,      \* users whose current family this is
    revoked,      \* revoked devices
    bootstrapped, \* <<device, workspace>> with a confirmed joining bootstrap
    unsettled,    \* devices with open conflicts or receipts being processed
    handler,      \* handler[h]: the confirmation a connection works on
    offers,       \* prepared receipts that were answered
    receipts,     \* completed receipts that were answered
    withdrawn,    \* checkpoints of plans that a later preflight deleted
    written,      \* written[x][i]: how often import i wrote row x
    reader        \* a device that pages through the history

planVars == <<plan, drawn, withdrawn>>
answerVars == <<offers, receipts>>
dataVars == <<row, archive, high, log, written>>
scopeVars == <<current, revoked, bootstrapped, unsettled>>
vars == <<planVars, answerVars, dataVars, scopeVars, handler, reader>>

Plan == [state : {"none", "prepared", "completed"}, user : Users \cup {NoUser},
         manifest : Manifests \cup {NoManifest}, checkpoint : Nat,
         log : Nat, archive : Nat]

Offer == [import : Imports, manifest : Manifests, checkpoint : Nat]

Receipt == [import : Imports, manifest : Manifests, log : Nat, archive : Nat]

Free == [at |-> "idle", offer |-> NoOffer]

Handler == [at : {"open", "lock", "recheck", "write"}, device : Devices,
            offer : Offer]

StoreTypeOK ==
    /\ row \in [Rows -> {"none", "live", "deleted", "elsewhere"}]
    /\ archive \in [Archive -> Nat] /\ high \in Nat
    /\ plan \in [Imports -> Plan]
    /\ drawn \in Nat /\ log \in Nat
    /\ current \in SUBSET Users /\ revoked \in SUBSET Devices
    /\ bootstrapped \in SUBSET (Devices \X Workspaces) /\ unsettled \in SUBSET Devices
    /\ handler \in [Handlers -> {Free} \cup Handler]
    /\ offers \in SUBSET Offer /\ receipts \in SUBSET Receipt /\ withdrawn \in SUBSET Nat
    /\ written \in [Rows \cup Archive -> [Imports -> Nat]]

NoPlan == [state |-> "none", user |-> NoUser, manifest |-> NoManifest,
           checkpoint |-> 0, log |-> 0, archive |-> 0]

\* Two live categories never share a name, nor two reminders their product.
LabelsAreUnique ==
    \A K \in {Categories, Reminders} : \A x, y \in K :
        row[x] = "live" /\ row[y] = "live" /\ Label[x] = Label[y] => x = y

\* A family that has not imported yet; it may have rows.
ImportInit ==
    /\ row \in [Rows -> {"none", "live", "deleted", "elsewhere"}] /\ LabelsAreUnique
    /\ archive = [x \in Archive |-> 0] /\ high = 0
    /\ plan = [i \in Imports |-> NoPlan]
    /\ drawn = 0 /\ log = 0
    /\ current = Users /\ revoked = {}
    /\ bootstrapped = {} /\ unsettled = {}
    /\ handler = [h \in Handlers |-> Free]
    /\ offers = {} /\ receipts = {} /\ withdrawn = {}
    /\ written = [x \in Rows \cup Archive |-> [i \in Imports |-> 0]]
    /\ reader = [after |-> 0, until |-> 0, got |-> {}]

-----------------------------------------------------------------------------
(* Who may import, and under which locks *)

At(h, step) == handler[h].at = step
Go(h, step) == handler' = [handler EXCEPT ![h].at = step]
Leave(h) == handler' = [handler EXCEPT ![h] = Free]

\* Past "open" a handler holds the identity it checked, the import lock and the
\* plan; past "lock" it holds the tables.
Holding == {h \in Handlers : handler[h].at \in {"lock", "recheck", "write"}}
LockFree == Holding = {}

\* Mutant: the tables are not locked.
AlwaysFree == TRUE

TablesFree == \A h \in Handlers : handler[h].at \notin {"recheck", "write"}

Held(d) == \E h \in Holding : handler[h].device = d
HeldUser(u) == \E h \in Holding : UserOf[handler[h].device] = u

\* The service looks at the token's device before the repository does.
ImportScope(d) == d \notin revoked /\ UserOf[d] \in current \cap Admins

ImportIdentity(d) == d \notin revoked /\ UserOf[d] \in current \cap Admins

\* Members may read receipts and history.
ReadIdentity(d) == d \notin revoked /\ UserOf[d] \in current

-----------------------------------------------------------------------------
(* What stands against a manifest *)

NotBootstrapped(d, m) == <<d, m.workspace>> \notin bootstrapped

Unsettled(d) == d \in unsettled

ReuseMismatch(m) == \E x \in m.reuse : row[x] # "live"

\* An id that exists in any family, deleted or not; for history, in this one.
Overlap(m) == (\E x \in m.rows : row[x] # "none") \/ (\E x \in m.history : archive[x] # 0)

NameTaken(m) == \E x \in m.rows \cap Categories : \E y \in Categories :
                    row[y] = "live" /\ Label[y] = Label[x]

MissingDependency(m) ==
    \E x \in m.rows : /\ Parent[x] # NoRow
                      /\ Parent[x] \notin m.rows \cup m.reuse
                      /\ row[Parent[x]] # "live"

NameRepeated(m) == \E x, y \in (m.rows \cup m.reuse) \cap Categories :
                       x # y /\ Label[x] = Label[y]

ScopeTaken(m) == \E x \in m.rows \cap Reminders : \E y \in Reminders :
                     Label[x] = Label[y] /\ (row[y] = "live" \/ (y \in m.rows /\ y # x))

Blocked(d, m, settled) ==
    \/ ~settled \/ NotBootstrapped(d, m) \/ Unsettled(d)
    \/ ReuseMismatch(m) \/ Overlap(m) \/ NameTaken(m) \/ MissingDependency(m)
    \/ NameRepeated(m) \/ ScopeTaken(m)

-----------------------------------------------------------------------------
(* Preflight, one transaction under the import lock *)

\* readImportPlan and the fingerprint: the id is new, or it is the user's and
\* stands for this manifest.
SamePlan(d, i, m) ==
    plan[i].state # "none" => plan[i].user = UserOf[d] /\ plan[i].manifest = m

MayPrepare(d, i, m) ==
    /\ m \notin Unsupported
    /\ ImportIdentity(d) /\ LockFree /\ SamePlan(d, i, m)

OfferOf(i) == [import |-> i, manifest |-> plan[i].manifest, checkpoint |-> plan[i].checkpoint]

ReceiptOf(i) == [import |-> i, manifest |-> plan[i].manifest,
                 log |-> plan[i].log, archive |-> plan[i].archive]

PreflightDone(d, i, m) ==
    /\ MayPrepare(d, i, m) /\ plan[i].state = "completed"
    /\ receipts' = receipts \cup {ReceiptOf(i)}
    /\ UNCHANGED <<planVars, dataVars, scopeVars, handler, offers, reader>>

\* DELETE ... WHERE state = 'prepared'
DropPrepared(i) ==
    IF plan[i].state = "prepared"
    THEN /\ plan' = [plan EXCEPT ![i] = NoPlan]
         /\ withdrawn' = withdrawn \cup {plan[i].checkpoint}
    ELSE UNCHANGED <<plan, withdrawn>>

PreflightBlocked(d, i, m, settled) ==
    /\ MayPrepare(d, i, m) /\ plan[i].state # "completed"
    /\ Blocked(d, m, settled)
    /\ DropPrepared(i)
    /\ UNCHANGED <<drawn, answerVars, dataVars, scopeVars, handler, reader>>

Prepared(u, m, c) ==
    [state |-> "prepared", user |-> u, manifest |-> m, checkpoint |-> c,
     log |-> 0, archive |-> 0]

\* A prepared plan keeps its checkpoint; the answer may be lost.
PreflightReady(d, i, m, settled, answered) ==
    /\ MayPrepare(d, i, m) /\ plan[i].state # "completed"
    /\ ~Blocked(d, m, settled)
    /\ IF plan[i].state = "prepared"
       THEN UNCHANGED <<plan, drawn>>
       ELSE /\ drawn < MaxCheckpoint
            /\ drawn' = drawn + 1
            /\ plan' = [plan EXCEPT ![i] = Prepared(UserOf[d], m, drawn + 1)]
    /\ offers' = IF answered
                 THEN offers \cup {[import |-> i, manifest |-> m, checkpoint |-> plan'[i].checkpoint]}
                 ELSE offers
    /\ UNCHANGED <<withdrawn, receipts, dataVars, scopeVars, handler, reader>>

\* GET /sync/import/{id}: how a device recovers a lost answer.
GetReceipt(d, i) ==
    /\ ReadIdentity(d) /\ plan[i].state # "none" /\ plan[i].user = UserOf[d]
    /\ IF plan[i].state = "completed"
       THEN receipts' = receipts \cup {ReceiptOf(i)} /\ UNCHANGED offers
       ELSE offers' = offers \cup {OfferOf(i)} /\ UNCHANGED receipts
    /\ UNCHANGED <<planVars, dataVars, scopeVars, handler, reader>>

-----------------------------------------------------------------------------
(* Confirmation *)

Import(h) == handler[h].offer.import
Manifest(h) == plan[Import(h)].manifest

Start(h, d, o) ==
    /\ At(h, "idle") /\ o \in offers /\ ImportScope(d)
    /\ handler' = [handler EXCEPT ![h] = [at |-> "open", device |-> d, offer |-> o]]
    /\ UNCHANGED <<planVars, answerVars, dataVars, scopeVars, reader>>

\* Mutant: the checkpoint is not compared.
MatchesManifest(h) == handler[h].offer.manifest = Manifest(h)

Matches(h) ==
    /\ handler[h].offer.checkpoint = plan[Import(h)].checkpoint
    /\ handler[h].offer.manifest = Manifest(h)

Confirmable(h) ==
    /\ ImportIdentity(handler[h].device)
    /\ plan[Import(h)].state # "none" /\ plan[Import(h)].user = UserOf[handler[h].device]
    /\ Matches(h)

\* FORBIDDEN, NOT_FOUND or IMPORT_CHECKPOINT_STALE.
Refuse(h) ==
    /\ At(h, "open") /\ LockFree /\ ~Confirmable(h)
    /\ Leave(h)
    /\ UNCHANGED <<planVars, answerVars, dataVars, scopeVars, reader>>

Done(h) == plan[Import(h)].state = "completed"

Repeat(h) ==
    /\ At(h, "open") /\ LockFree /\ Confirmable(h) /\ Done(h)
    /\ receipts' = receipts \cup {ReceiptOf(Import(h))}
    /\ Leave(h)
    /\ UNCHANGED <<planVars, offers, dataVars, scopeVars, reader>>

Open(h) ==
    /\ At(h, "open") /\ LockFree /\ Confirmable(h) /\ ~Done(h)
    /\ Go(h, "lock")
    /\ UNCHANGED <<planVars, answerVars, dataVars, scopeVars, reader>>

\* LOCK TABLE ... IN SHARE ROW EXCLUSIVE MODE
LockTables(h) ==
    /\ At(h, "lock")
    /\ Go(h, "recheck")
    /\ UNCHANGED <<planVars, answerVars, dataVars, scopeVars, reader>>

\* IMPORT_BLOCKED leaves the plan: only a preflight withdraws it.
Recheck(h) ==
    /\ At(h, "recheck")
    /\ IF Blocked(handler[h].device, Manifest(h), TRUE) THEN Leave(h) ELSE Go(h, "write")
    /\ UNCHANGED <<planVars, answerVars, dataVars, scopeVars, reader>>

Insert(m) == [x \in Rows |-> IF x \in m.rows THEN "live" ELSE row[x]]

\* The archive's cursors grow in commit order: a trigger holds a lock from the
\* allocation of one on.
Appended(m) ==
    \E f \in [m.history -> (high + 1)..(high + Cardinality(m.history))] :
        /\ \A x, y \in m.history : f[x] = f[y] => x = y
        /\ high' = high + Cardinality(m.history)
        /\ archive' = [x \in Archive |-> IF x \in m.history THEN f[x] ELSE archive[x]]

\* Mutant: the receipt is stored, the plan stays prepared.
ReceiptOnly(h) == [plan EXCEPT ![Import(h)].log = log', ![Import(h)].archive = high']

PlanAfter(h) == [plan EXCEPT ![Import(h)].state = "completed",
                             ![Import(h)].log = log',
                             ![Import(h)].archive = high']

\* A CHECK the validation does not know fails the whole transaction.
WriteRefused(h) ==
    /\ At(h, "write") /\ Manifest(h) \in Unstorable
    /\ Leave(h)
    /\ UNCHANGED <<planVars, answerVars, dataVars, scopeVars, reader>>

\* The rows, their changes, the archive and the receipt commit together; the
\* answer may be lost.
Write(h, answered) ==
    /\ At(h, "write") /\ Manifest(h) \notin Unstorable
    /\ row' = Insert(Manifest(h))
    /\ log' = log + Cardinality(Manifest(h).rows)
    /\ Appended(Manifest(h))
    /\ written' = [x \in Rows \cup Archive |->
                     IF x \in Manifest(h).rows \cup Manifest(h).history
                     THEN [written[x] EXCEPT ![Import(h)] = @ + 1] ELSE written[x]]
    /\ plan' = PlanAfter(h)
    /\ receipts' = IF answered
                   THEN receipts \cup {[import |-> Import(h), manifest |-> Manifest(h),
                                        log |-> log', archive |-> high']}
                   ELSE receipts
    /\ Leave(h)
    /\ UNCHANGED <<drawn, withdrawn, offers, scopeVars, reader>>

\* The connection is lost or a statement fails: the transaction rolls back.
Lose(h) ==
    /\ ~At(h, "idle")
    /\ Leave(h)
    /\ UNCHANGED <<planVars, answerVars, dataVars, scopeVars, reader>>

-----------------------------------------------------------------------------
(* Everybody else *)

\* An entity upsert: it brings a deleted row back, too.  Only a row that is not
\* there at all fails the foreign key of a child.
Put(x) ==
    /\ TablesFree /\ log < MaxLog /\ row[x] \in {"none", "deleted"}
    /\ Parent[x] # NoRow => row[Parent[x]] \in {"live", "deleted"}
    /\ \A K \in {Categories, Reminders} :
         x \in K => \A y \in K : row[y] = "live" => Label[y] # Label[x]
    /\ row' = [row EXCEPT ![x] = "live"]
    /\ log' = log + 1
    /\ UNCHANGED <<planVars, answerVars, archive, high, written, scopeVars, handler, reader>>

Remove(x) ==
    /\ TablesFree /\ log < MaxLog /\ row[x] = "live"
    /\ row' = [row EXCEPT ![x] = "deleted"]
    /\ log' = log + 1
    /\ UNCHANGED <<planVars, answerVars, archive, high, written, scopeVars, handler, reader>>

\* Creating or joining another family makes that one current; rows locked FOR
\* SHARE are not changed.
SwitchFamily(u) ==
    /\ u \in current /\ ~HeldUser(u)
    /\ current' = current \ {u}
    /\ UNCHANGED <<planVars, answerVars, dataVars, revoked, bootstrapped, unsettled,
                   handler, reader>>

Revoke(d) ==
    /\ d \notin revoked /\ ~Held(d)
    /\ revoked' = revoked \cup {d}
    /\ UNCHANGED <<planVars, answerVars, dataVars, current, bootstrapped, unsettled,
                   handler, reader>>

\* A bootstrap is confirmed, or a new attempt replaces a confirmed one.
Bootstrap(d, w) ==
    /\ bootstrapped' = IF <<d, w>> \in bootstrapped THEN bootstrapped \ {<<d, w>>}
                       ELSE {p \in bootstrapped : p[1] # d} \cup {<<d, w>>}
    /\ UNCHANGED <<planVars, answerVars, dataVars, current, revoked, unsettled, handler, reader>>

\* Conflicts open and are resolved, receipts are reserved and settled: nothing of
\* an import holds a lock against that.
Sync(d) ==
    /\ unsettled' = IF d \in unsettled THEN unsettled \ {d} ELSE unsettled \cup {d}
    /\ UNCHANGED <<planVars, answerVars, dataVars, current, revoked, bootstrapped, handler, reader>>

-----------------------------------------------------------------------------
(* Paging through the archive *)

Until == IF reader.until = 0 THEN high ELSE reader.until

Waiting == {x \in Archive : archive[x] > reader.after /\ archive[x] <= Until}

\* The first Limit of the rows that are waiting, by cursor.
Page == {x \in Waiting : Cardinality({y \in Waiting : archive[y] < archive[x]}) < Limit}

HasMore == Page # Waiting

\* Mutant: every page ends where the run of pages will end.
EndOfRun == Until

\* The last row of a full page; the fixed end once nothing more waits.
NextCursor == IF HasMore THEN CHOOSE n \in {archive[x] : x \in Page} :
                                \A x \in Page : archive[x] <= n
              ELSE Until

ReadPage ==
    /\ reader' = [after |-> NextCursor,
                  until |-> IF HasMore THEN Until ELSE 0,
                  got |-> reader.got \cup Page]
    /\ UNCHANGED <<planVars, answerVars, dataVars, scopeVars, handler>>

-----------------------------------------------------------------------------

Preflight(d, i, m) ==
    \/ PreflightDone(d, i, m)
    \/ \E settled \in BOOLEAN :
         \/ PreflightBlocked(d, i, m, settled)
         \/ \E answered \in BOOLEAN : PreflightReady(d, i, m, settled, answered)

Confirm(h) ==
    \/ Refuse(h) \/ Repeat(h) \/ Open(h) \/ LockTables(h) \/ Recheck(h)
    \/ WriteRefused(h) \/ \E answered \in BOOLEAN : Write(h, answered)

ImportNext ==
    \/ \E d \in Devices, i \in Imports :
         GetReceipt(d, i) \/ \E m \in Manifests : Preflight(d, i, m)
    \/ \E h \in Handlers :
         \/ \E d \in Devices, o \in offers : Start(h, d, o)
         \/ Confirm(h) \/ Lose(h)
    \/ \E x \in Rows : Put(x) \/ Remove(x)
    \/ \E u \in Users : SwitchFamily(u)
    \/ \E d \in Devices : Revoke(d) \/ Sync(d) \/ \E w \in Workspaces : Bootstrap(d, w)
    \/ ReadPage

ImportSpec == ImportInit /\ [][ImportNext]_vars

-----------------------------------------------------------------------------
(* Properties *)

Contents(m) == m.rows \cup m.history

\* "Different import ids, even a second phone with the same backup, are blocked;
\* neither quantities nor history are repeated": however often a confirmation is
\* repeated after a lost answer, and whoever else brings the same backup, a row
\* is written by one import at most, and once.
WrittenOnce ==
    \A x \in Rows \cup Archive : \A i, j \in Imports :
        written[x][i] > 0 /\ written[x][j] > 0 => i = j /\ written[x][i] = 1

\* A completed import has written exactly what was frozen, any other nothing.
AllOrNothing ==
    \A i \in Imports, x \in Rows \cup Archive :
        written[x][i] > 0 <=> plan[i].state = "completed" /\ x \in Contents(plan[i].manifest)

\* The receipt is permanent: whoever asks, and however late, is told the same.
ReceiptsAreTrue ==
    \A r \in receipts : plan[r.import].state = "completed" /\ r = ReceiptOf(r.import)

\* "Rechecking can revoke a prepared plan, never leave a stale confirmation
\* capability": a transaction that is past its checks carries out the plan its
\* checkpoint and fingerprint were given for, and no preflight withdrew that.
WithdrawnStaysWithdrawn ==
    \A h \in Holding : /\ handler[h].offer = OfferOf(Import(h))
                       /\ handler[h].offer.checkpoint \notin withdrawn

\* At the moment rows are written the importer administers the family on a device
\* that is not revoked, nothing that was there is touched and nothing refers to a
\* row that is not live.
WritesAreSound ==
    [][\A i \in Imports :
         plan[i].state # "completed" /\ plan'[i].state = "completed" =>
           /\ plan'[i].user \in current \cap Admins
           /\ \E d \in Devices \ revoked : UserOf[d] = plan'[i].user
           /\ \A x \in plan'[i].manifest.rows :
                /\ row[x] = "none"
                /\ Parent[x] # NoRow => row'[Parent[x]] = "live"]_vars

\* A device that follows the pages has every row up to its cursor, whatever is
\* imported between two pages.
NothingSkipped ==
    /\ reader \in [after : Nat, until : Nat, got : SUBSET Archive]
    /\ \A x \in Archive : archive[x] > 0 /\ archive[x] <= reader.after => x \in reader.got

\* "Preflight saves only plans that can be confirmed": while a plan is prepared, no
\* row is in it that validation takes and the tables refuse, but for empty words
\* and blanks around a name.
PreparedIsStorable == (\E i \in Imports : plan[i].state = "prepared") => Row!PlainIsStored

\* An import happens once, as a whole and as its receipts tell, and no two rows of
\* one label come of it, whatever is lost, repeated or changed in between.
ImportIsSound ==
    /\ StoreTypeOK
    /\ WrittenOnce /\ AllOrNothing
    /\ ReceiptsAreTrue
    /\ LabelsAreUnique
=============================================================================
