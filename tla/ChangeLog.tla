------------------------------ MODULE ChangeLog ------------------------------
(***************************************************************************)
(* The change log of the NAS and the devices that pull it.                 *)
(*                                                                         *)
(* change_log.cursor is an identity column: one sequence for all families, *)
(* advanced outside transactions.  Every write path (sync push, direct     *)
(* inventory command, Home Assistant deduction, initial import, conflict   *)
(* resolution) inserts into it from a transaction of its own, and a device *)
(* reads "cursor > mine ORDER BY cursor LIMIT n" in another.  A row with a *)
(* small cursor that becomes visible after a device moved past it is lost  *)
(* to that device for ever, so migration 0005 makes a statement trigger    *)
(* take one advisory lock before the sequence is touched.                  *)
(*                                                                         *)
(* An action is one SQL statement of a writer, one read of the server, or  *)
(* one local transaction of the pulling device.                            *)
(***************************************************************************)
EXTENDS Naturals, FiniteSets

CONSTANTS
    Families,
    Writers,    \* database connections that write
    Readers,    \* devices that pull
    FamilyOf,   \* the family of each device
    NoWriter,   \* nobody holds the advisory lock
    MaxCursor,  \* bound on the identity sequence
    PageLimit   \* "limit" of a pull request

ASSUME FamiliesAssumption == Families # {}
ASSUME FamilyOfAssumption == FamilyOf \in [Readers -> Families]
ASSUME NoWriterAssumption == NoWriter \notin Writers
ASSUME MaxCursorAssumption == MaxCursor \in Nat
ASSUME PageLimitAssumption == PageLimit \in Nat \ {0}

VARIABLES
    sequence,   \* last value the identity sequence handed out
    visible,    \* visible[f]: cursors of the committed rows of family f
    txn,        \* txn[w]: phase, family and uncommitted rows of a transaction
    cursorLock, \* holder of the "cursor-order" advisory lock
    pullCursor, \* pullCursor[r]: pullCursor of the device's SyncState
    applied,    \* applied[r]: cursors whose effect the device has stored
    reply       \* reply[r]: the answer the device waits for or works on;
                \* "stored" while its next change has an effect and no receipt

vars == <<sequence, visible, txn, cursorLock, pullCursor, applied, reply>>

serverVars == <<sequence, visible, txn, cursorLock>>
deviceVars == <<pullCursor, applied, reply>>

Cursors == 1 .. MaxCursor

NoReply == [kind |-> "none", changes |-> {}, next |-> 0, stored |-> FALSE]
Page(changes, next) == [NoReply EXCEPT !.kind = "page", !.changes = changes, !.next = next]

Idle == [phase |-> "idle", family |-> CHOOSE f \in Families : TRUE, rows |-> {}]
Open(f) == [phase |-> "open", family |-> f, rows |-> {}]

Reply == [kind : {"none", "page", "snapshot"},
          changes : SUBSET Cursors,
          next : 0 .. MaxCursor,
          stored : BOOLEAN]

Transaction == [phase : {"idle", "open", "appending", "barred"},
                family : Families,
                rows : SUBSET Cursors]

TypeOK ==
    /\ sequence \in 0 .. MaxCursor
    /\ visible \in [Families -> SUBSET Cursors]
    /\ txn \in [Writers -> Transaction]
    /\ cursorLock \in Writers \cup {NoWriter}
    /\ pullCursor \in [Readers -> 0 .. MaxCursor]
    /\ applied \in [Readers -> SUBSET Cursors]
    /\ reply \in [Readers -> Reply]

Init ==
    /\ sequence = 0
    /\ visible = [f \in Families |-> {}]
    /\ txn = [w \in Writers |-> Idle]
    /\ cursorLock = NoWriter
    /\ pullCursor = [r \in Readers |-> 0]
    /\ applied = [r \in Readers |-> {}]
    /\ reply = [r \in Readers |-> NoReply]

-----------------------------------------------------------------------------
(* Writers *)

Begin(w, f) ==
    /\ txn[w].phase = "idle"
    /\ txn' = [txn EXCEPT ![w] = Open(f)]
    /\ UNCHANGED <<sequence, visible, cursorLock, deviceVars>>

\* Mutant: the trigger of migration 0005 is missing.
AcquireCursorLockMissing(w) ==
    /\ txn[w].phase = "open"
    /\ txn' = [txn EXCEPT ![w].phase = "appending"]
    /\ UNCHANGED <<sequence, visible, cursorLock, deviceVars>>

\* The BEFORE INSERT trigger waits here until no other transaction holds the
\* advisory lock.  It runs before the row, hence before the sequence.
AcquireCursorLock(w) ==
    /\ txn[w].phase = "open"
    /\ cursorLock = NoWriter
    /\ cursorLock' = w
    /\ txn' = [txn EXCEPT ![w].phase = "appending"]
    /\ UNCHANGED <<sequence, visible, deviceVars>>

\* INSERT ... RETURNING cursor.  An import appends many rows under one lock.
InsertRow(w) ==
    /\ txn[w].phase = "appending"
    /\ sequence < MaxCursor
    /\ sequence' = sequence + 1
    /\ txn' = [txn EXCEPT ![w].rows = @ \cup {sequence + 1}]
    /\ UNCHANGED <<visible, cursorLock, deviceVars>>

ReleaseLockOf(w) == cursorLock' = IF cursorLock = w THEN NoWriter ELSE cursorLock

\* Mutant: the refused change leaves its rows in the transaction.
RollbackKeepingRows(w) ==
    /\ txn[w].phase = "appending"
    /\ txn' = [txn EXCEPT ![w].phase = "barred"]
    /\ ReleaseLockOf(w)
    /\ UNCHANGED <<sequence, visible, deviceVars>>

\* ROLLBACK TO SAVEPOINT after a failed change: the rows and the lock taken
\* since the savepoint are gone, the sequence is not wound back, and the
\* transaction goes on to record the refusal without appending again.
RollbackToSavepoint(w) ==
    /\ txn[w].phase = "appending"
    /\ txn' = [txn EXCEPT ![w].phase = "barred", ![w].rows = {}]
    /\ ReleaseLockOf(w)
    /\ UNCHANGED <<sequence, visible, deviceVars>>

Commit(w) ==
    /\ txn[w].phase # "idle"
    /\ visible' = [visible EXCEPT ![txn[w].family] = @ \cup txn[w].rows]
    /\ txn' = [txn EXCEPT ![w] = Idle]
    /\ ReleaseLockOf(w)
    /\ UNCHANGED <<sequence, deviceVars>>

\* An error, a serialization failure or a lost connection.
Rollback(w) ==
    /\ txn[w].phase # "idle"
    /\ txn' = [txn EXCEPT ![w] = Idle]
    /\ ReleaseLockOf(w)
    /\ UNCHANGED <<sequence, visible, deviceVars>>

-----------------------------------------------------------------------------
(* Readers *)

After(S, c) == {d \in S : c < d}

\* The first PageLimit elements of S beyond c; next is the last of them, or c.
IsPage(S, c, changes, next) ==
    /\ changes = {d \in S : c < d /\ d <= next}
    /\ IF Cardinality(After(S, c)) <= PageLimit
         THEN changes = After(S, c)
         ELSE Cardinality(changes) = PageLimit

\* Mutant: the LIMIT cuts the page, nextCursor is taken from the whole log.
PullToEnd(r) ==
    /\ reply[r].kind = "none"
    /\ LET rows == visible[FamilyOf[r]] IN
       \E last, next \in {pullCursor[r]} \cup After(rows, pullCursor[r]) :
       \E changes \in SUBSET rows :
          /\ IsPage(rows, pullCursor[r], changes, last)
          /\ \A c \in rows : c <= next
          /\ reply' = [reply EXCEPT ![r] = Page(changes, next)]
    /\ UNCHANGED <<serverVars, pullCursor, applied>>

\* One autocommit SELECT: the page sees exactly the rows committed now.
Pull(r) ==
    /\ reply[r].kind = "none"
    /\ LET rows == visible[FamilyOf[r]] IN
       \E next \in {pullCursor[r]} \cup After(rows, pullCursor[r]) :
       \E changes \in SUBSET rows :
          /\ IsPage(rows, pullCursor[r], changes, next)
          /\ reply' = [reply EXCEPT ![r] = Page(changes, next)]
    /\ UNCHANGED <<serverVars, pullCursor, applied>>

\* Entity rows and MAX(cursor) come from one REPEATABLE READ snapshot.
ReadBootstrap(r) ==
    /\ reply[r].kind = "none"
    /\ LET rows == visible[FamilyOf[r]] IN
       \E next \in {0} \cup rows :
          /\ \A c \in rows : c <= next
          /\ reply' = [reply EXCEPT
               ![r] = [NoReply EXCEPT !.kind = "snapshot", !.changes = rows, !.next = next]]
    /\ UNCHANGED <<serverVars, pullCursor, applied>>

\* Mutant: a page does not keep the order of the log (ORDER BY cursor is lost).
NextInAnyOrder(r, c) ==
    /\ reply[r].kind = "page"
    /\ c \in reply[r].changes

\* Changes of a page are applied in order: c is the one whose turn it is.
NextChange(r, c) ==
    /\ reply[r].kind = "page"
    /\ c \in reply[r].changes
    /\ \A d \in reply[r].changes : c <= d

\* The receipt of a change and the cursor are written together.
Recorded(r, c) ==
    /\ reply' = [reply EXCEPT ![r].changes = @ \ {c}, ![r].stored = FALSE]
    /\ pullCursor' = [pullCursor EXCEPT ![r] = IF @ < c THEN c ELSE @]

\* An entity change: its effect is one local transaction, the receipt another.  A
\* device that stops in between receives the change again and stores it again.
StoreEffect(r) ==
    /\ ~reply[r].stored
    /\ \E c \in Cursors :
          /\ NextChange(r, c)
          /\ applied' = [applied EXCEPT ![r] = @ \cup {c}]
          /\ reply' = [reply EXCEPT ![r].stored = TRUE]
    /\ UNCHANGED <<serverVars, pullCursor>>

RecordReceipt(r) ==
    /\ reply[r].stored
    /\ \E c \in Cursors : NextChange(r, c) /\ Recorded(r, c)
    /\ UNCHANGED <<serverVars, applied>>

\* An inventory command: the effect, the receipt and the cursor in one transaction.
ApplyCommand(r) ==
    /\ ~reply[r].stored
    /\ \E c \in Cursors :
          /\ NextChange(r, c)
          /\ applied' = [applied EXCEPT ![r] = @ \cup {c}]
          /\ Recorded(r, c)
    /\ UNCHANGED serverVars

\* Mutant: the state is saved with nextCursor even if changes are left.
FinishPageEarly(r) ==
    /\ reply[r].kind = "page"
    /\ pullCursor' = [pullCursor EXCEPT ![r] = reply[r].next]
    /\ reply' = [reply EXCEPT ![r] = NoReply]
    /\ UNCHANGED <<serverVars, applied>>

\* The whole page is applied: saveState with max(nextCursor, pullCursor).
FinishPage(r) ==
    /\ reply[r].kind = "page"
    /\ reply[r].changes = {}
    /\ pullCursor' =
         [pullCursor EXCEPT ![r] = IF @ < reply[r].next THEN reply[r].next ELSE @]
    /\ reply' = [reply EXCEPT ![r] = NoReply]
    /\ UNCHANGED <<serverVars, applied>>

\* A snapshot is stored in one local transaction, and only when the device
\* has not moved past it.
ApplySnapshot(r) ==
    /\ reply[r].kind = "snapshot"
    /\ pullCursor[r] <= reply[r].next
    /\ applied' = [applied EXCEPT ![r] = @ \cup reply[r].changes]
    /\ pullCursor' = [pullCursor EXCEPT ![r] = reply[r].next]
    /\ reply' = [reply EXCEPT ![r] = NoReply]
    /\ UNCHANGED serverVars

\* A lost response, a crash of the app, or a change that has to wait behind a
\* local edit (SyncRemoteChangeDeferred): what was applied stays applied.
DropReply(r) ==
    /\ reply[r].kind # "none"
    /\ reply' = [reply EXCEPT ![r] = NoReply]
    /\ UNCHANGED <<serverVars, pullCursor, applied>>

-----------------------------------------------------------------------------
Write(w) ==
    \/ \E f \in Families : Begin(w, f)
    \/ AcquireCursorLock(w)
    \/ InsertRow(w)
    \/ RollbackToSavepoint(w)
    \/ Commit(w)
    \/ Rollback(w)

Read(r) ==
    \/ Pull(r)
    \/ ReadBootstrap(r)
    \/ StoreEffect(r)
    \/ RecordReceipt(r)
    \/ ApplyCommand(r)
    \/ FinishPage(r)
    \/ ApplySnapshot(r)
    \/ DropReply(r)

Next ==
    \/ \E w \in Writers : Write(w)
    \/ \E r \in Readers : Read(r)

Spec == Init /\ [][Next]_vars

\* A request ends, by its answer or by the timeout of the HTTP client; the
\* foreground scheduler pulls again and again; and a page that keeps arriving
\* is some day processed.
PullFairness ==
    \A r \in Readers :
        /\ WF_vars(ApplySnapshot(r) \/ DropReply(r))
        /\ SF_vars(Pull(r))
        /\ SF_vars(StoreEffect(r) \/ ApplyCommand(r))
        /\ SF_vars(RecordReceipt(r))
        /\ SF_vars(FinishPage(r))

FairSpec == Spec /\ PullFairness

-----------------------------------------------------------------------------
(* Properties *)

\* A device that stands at a cursor has stored every change of its family up
\* to that cursor: no pull page and no snapshot ever skips a change, although
\* cursors are allocated before their transactions commit.
NoSkippedChange ==
    \A r \in Readers :
        {c \in visible[FamilyOf[r]] : c <= pullCursor[r]} \subseteq applied[r]

\* The order in which rows become visible to a family is the cursor order,
\* for every pair of transactions (purpose of migration 0005).
CommitOrderIsCursorOrder ==
    [][\A f \in Families :
         \A c \in visible'[f] \ visible[f], d \in visible[f] : d < c]_vars

\* Every committed change eventually reaches every device of the family, even
\* if replies keep getting lost and other devices keep writing.
EventuallyDelivered ==
    \A r \in Readers : \A c \in Cursors :
        (c \in visible[FamilyOf[r]]) ~> (c \in applied[r])

\* The log and its readers implement the feed the sync model promises: what a
\* device has stored is always a prefix of what was committed, never a row of
\* a rolled-back or open transaction, and committed rows are only appended.
Feed == INSTANCE FamilyFeed WITH feed <- visible, got <- applied

FeedSpec == Feed!Spec

-----------------------------------------------------------------------------
(* The inductive invariant behind NoSkippedChange and FeedSpec *)

\* Only the holder of the advisory lock has uncommitted rows.
LockInv ==
    \A w \in Writers :
        /\ txn[w].phase = "appending" <=> cursorLock = w
        /\ txn[w].phase # "appending" => txn[w].rows = {}

\* Uncommitted rows lie beyond every row committed to any family, and the
\* sequence beyond both.
PendingInv ==
    /\ \A f \in Families : visible[f] \subseteq 1 .. sequence
    /\ \A w \in Writers :
         /\ txn[w].rows \subseteq 1 .. sequence
         /\ \A c \in txn[w].rows, f \in Families : \A d \in visible[f] : d < c

\* Cursors a device knows of are cursors of committed rows (or 0).
KnownCursorInv ==
    \A r \in Readers :
        /\ pullCursor[r] \in {0} \cup visible[FamilyOf[r]]
        /\ reply[r].next \in {0} \cup visible[FamilyOf[r]]

\* An answer in flight holds all the device still lacks up to reply.next.
ReplyInv ==
    \A r \in Readers :
        /\ reply[r].changes \subseteq visible[FamilyOf[r]]
        /\ \A c \in reply[r].changes : c <= reply[r].next
        /\ reply[r].kind = "page" =>
             \A c \in reply[r].changes : pullCursor[r] < c
        /\ reply[r].kind # "none" =>
             \A c \in visible[FamilyOf[r]] :
                c <= reply[r].next => c \in applied[r] \cup reply[r].changes
        /\ reply[r].stored => \A c \in Cursors : NextChange(r, c) => c \in applied[r]

\* A device has stored a prefix of its family's rows that reaches its cursor; it
\* is ahead of the cursor between an effect and its receipt.
AppliedInv ==
    \A r \in Readers :
        /\ applied[r] \subseteq visible[FamilyOf[r]]
        /\ \A c \in applied[r], d \in visible[FamilyOf[r]] : d < c => d \in applied[r]
        /\ \A c \in visible[FamilyOf[r]] : c <= pullCursor[r] => c \in applied[r]

\* The conjunction every step preserves: a device has all up to its cursor and no
\* gap, answers in flight are complete, uncommitted rows are beyond all.
CursorInv ==
    /\ TypeOK
    /\ LockInv
    /\ PendingInv
    /\ KnownCursorInv
    /\ ReplyInv
    /\ AppliedInv
=============================================================================
