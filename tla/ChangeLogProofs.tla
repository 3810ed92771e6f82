--------------------------- MODULE ChangeLogProofs ---------------------------
(***************************************************************************)
(* For every set of families, connections and devices, every bound of the  *)
(* sequence and every page size: the change log never hides a change from  *)
(* a device, commits in cursor order, and implements FamilyFeed.           *)
(***************************************************************************)
EXTENDS ChangeLog, TLAPS

ConstantAssumptions ==
    /\ Families # {}
    /\ FamilyOf \in [Readers -> Families]
    /\ NoWriter \notin Writers
    /\ MaxCursor \in Nat
    /\ PageLimit \in Nat \ {0}

LEMMA Constants == ConstantAssumptions
BY FamiliesAssumption, FamilyOfAssumption, NoWriterAssumption,
   MaxCursorAssumption, PageLimitAssumption DEF ConstantAssumptions

-----------------------------------------------------------------------------
(* Type correctness *)

LEMMA IdleIsTransaction ==
    Idle \in Transaction /\ \A f \in Families : Open(f) \in Transaction
BY Constants DEF Idle, Open, Transaction, ConstantAssumptions

LEMMA TypeInit == Init => TypeOK
BY Constants, IdleIsTransaction
   DEF Init, TypeOK, Reply, NoReply, Cursors, ConstantAssumptions

\* A statement or the end of a writer's transaction keeps the types.
LEMMA TypeWrite ==
    ASSUME TypeOK, NEW w \in Writers, Write(w)
    PROVE  TypeOK'
<1> USE Constants DEF TypeOK, ConstantAssumptions, deviceVars, ReleaseLockOf
<1>1. CASE \E f \in Families : Begin(w, f)
  BY <1>1, IdleIsTransaction DEF Begin
<1>2. CASE AcquireCursorLock(w)
  BY <1>2 DEF AcquireCursorLock, Transaction
<1>3. CASE InsertRow(w)
  <2>1. sequence + 1 \in Cursors
    BY <1>3 DEF InsertRow, Cursors
  <2>2. sequence' \in 0 .. MaxCursor
    BY <1>3 DEF InsertRow
  <2>3. txn' \in [Writers -> Transaction]
    BY <1>3, <2>1 DEF InsertRow, Transaction
  <2>4. QED
    BY <1>3, <2>2, <2>3 DEF InsertRow
<1>4. CASE RollbackToSavepoint(w)
  BY <1>4 DEF RollbackToSavepoint, Transaction
<1>5. CASE Commit(w)
  <2>1. visible' \in [Families -> SUBSET Cursors]
    BY <1>5 DEF Commit, Transaction
  <2>2. txn' \in [Writers -> Transaction]
    BY <1>5, IdleIsTransaction DEF Commit
  <2>3. QED
    BY <1>5, <2>1, <2>2 DEF Commit
<1>6. CASE Rollback(w)
  BY <1>6, IdleIsTransaction DEF Rollback
<1>7. QED
  BY <1>1, <1>2, <1>3, <1>4, <1>5, <1>6, Write(w) DEF Write

\* A receipt leaves the rest of the page and a cursor of the log.
LEMMA RecordedType ==
    ASSUME TypeOK, NEW r \in Readers, NEW c \in Cursors, Recorded(r, c)
    PROVE  reply' \in [Readers -> Reply] /\ pullCursor' \in [Readers -> 0 .. MaxCursor]
<1>1. reply' \in [Readers -> Reply]
  BY DEF TypeOK, Recorded, Reply
<1>2. c \in 0 .. MaxCursor
  BY Constants DEF Cursors, ConstantAssumptions
<1>3. QED
  BY <1>1, <1>2 DEF TypeOK, Recorded

\* A read of the server or a local step of a device keeps the types.
LEMMA TypeRead ==
    ASSUME TypeOK, NEW r \in Readers, Read(r)
    PROVE  TypeOK'
<1> USE Constants DEF TypeOK, ConstantAssumptions, serverVars, Cursors
<1>0. FamilyOf[r] \in Families /\ visible[FamilyOf[r]] \subseteq 1 .. MaxCursor
  OBVIOUS
<1>1. CASE Pull(r)
  <2>1. PICK next \in {pullCursor[r]} \cup After(visible[FamilyOf[r]], pullCursor[r]),
             changes \in SUBSET visible[FamilyOf[r]] :
          reply' = [reply EXCEPT ![r] = Page(changes, next)]
    BY <1>1 DEF Pull
  <2>2. next \in 0 .. MaxCursor /\ changes \in SUBSET (1 .. MaxCursor)
    BY <1>0, <2>1 DEF After
  <2>3. reply' \in [Readers -> Reply]
    BY <2>1, <2>2 DEF Reply, Page, NoReply
  <2>4. QED
    BY <1>1, <2>3 DEF Pull
<1>2. CASE ReadBootstrap(r)
  <2>1. PICK next \in {0} \cup visible[FamilyOf[r]] :
          reply' = [reply EXCEPT ![r] = [NoReply EXCEPT
             !.kind = "snapshot", !.changes = visible[FamilyOf[r]], !.next = next]]
    BY <1>2 DEF ReadBootstrap
  <2>2. next \in 0 .. MaxCursor
    BY <1>0, <2>1
  <2>3. reply' \in [Readers -> Reply]
    BY <1>0, <2>1, <2>2 DEF Reply, NoReply
  <2>4. QED
    BY <1>2, <2>3 DEF ReadBootstrap
<1>3. CASE StoreEffect(r)
  <2>1. PICK c \in Cursors : /\ applied' = [applied EXCEPT ![r] = @ \cup {c}]
                             /\ reply' = [reply EXCEPT ![r].stored = TRUE]
    BY <1>3 DEF StoreEffect
  <2>2. reply' \in [Readers -> Reply]
    BY <2>1 DEF Reply
  <2>3. applied' \in [Readers -> SUBSET Cursors]
    BY <2>1
  <2>4. QED
    BY <1>3, <2>2, <2>3 DEF StoreEffect
<1>4. CASE RecordReceipt(r)
  BY <1>4, RecordedType DEF RecordReceipt
<1>5. CASE ApplyCommand(r)
  BY <1>5, RecordedType DEF ApplyCommand
<1>6. CASE FinishPage(r)
  BY <1>6 DEF FinishPage, Reply, NoReply
<1>7. CASE ApplySnapshot(r)
  BY <1>7 DEF ApplySnapshot, Reply, NoReply
<1>8. CASE DropReply(r)
  BY <1>8 DEF DropReply, Reply, NoReply
<1>9. QED
  BY <1>1, <1>2, <1>3, <1>4, <1>5, <1>6, <1>7, <1>8, Read(r) DEF Read

LEMMA TypeStep == TypeOK /\ [Next]_vars => TypeOK'
<1>1. CASE Next
  BY <1>1, TypeWrite, TypeRead DEF Next
<1>2. CASE UNCHANGED vars
  BY <1>2 DEF TypeOK, vars
<1>3. QED
  BY <1>1, <1>2

\* The variables of the change log always have their types.
THEOREM TypeCorrect == Spec => []TypeOK
BY TypeInit, TypeStep, PTL DEF Spec
-----------------------------------------------------------------------------
(* The cursor invariant *)

DeviceInv == KnownCursorInv /\ ReplyInv /\ AppliedInv

LEMMA CursorInit == Init => CursorInv
<1> SUFFICES ASSUME Init PROVE CursorInv
  OBVIOUS
<1> USE Constants DEF Init, ConstantAssumptions
<1>1. TypeOK
  BY TypeInit
<1>2. LockInv /\ PendingInv
  BY DEF LockInv, PendingInv, Idle
<1>3. KnownCursorInv /\ ReplyInv /\ AppliedInv
  BY DEF KnownCursorInv, ReplyInv, AppliedInv, NoReply
<1>4. QED
  BY <1>1, <1>2, <1>3 DEF CursorInv

\* As long as nothing commits and no device moves, the devices' part holds.
LEMMA DeviceInvStable ==
    ASSUME DeviceInv, UNCHANGED <<visible, pullCursor, applied, reply>>
    PROVE  DeviceInv'
BY DEF DeviceInv, KnownCursorInv, ReplyInv, AppliedInv, NextChange

\* Commit publishes rows that lie beyond whatever any device knows of.
LEMMA CommitDeviceInv ==
    ASSUME CursorInv, NEW w \in Writers, Commit(w)
    PROVE  DeviceInv'
<1> DEFINE f == txn[w].family
           rows == txn[w].rows
<1> USE Constants DEF ConstantAssumptions
<1>1. /\ f \in Families
      /\ rows \subseteq 1 .. MaxCursor
      /\ \A g \in Families : visible[g] \subseteq 1 .. MaxCursor
      /\ visible' = [visible EXCEPT ![f] = @ \cup rows]
      /\ visible \in [Families -> SUBSET Cursors]
      /\ UNCHANGED <<pullCursor, applied, reply>>
  BY DEF CursorInv, TypeOK, Transaction, Cursors, Commit, deviceVars
<1>2. \A c \in rows, g \in Families : \A d \in visible[g] : d < c
  BY DEF CursorInv, PendingInv
<1>3. SUFFICES ASSUME NEW r \in Readers
               PROVE  /\ pullCursor[r] \in {0} \cup visible'[FamilyOf[r]]
                      /\ reply[r].next \in {0} \cup visible'[FamilyOf[r]]
                      /\ reply[r].changes \subseteq visible'[FamilyOf[r]]
                      /\ \A c \in reply[r].changes : c <= reply[r].next
                      /\ reply[r].kind = "page" =>
                           \A c \in reply[r].changes : pullCursor[r] < c
                      /\ reply[r].kind # "none" =>
                           \A c \in visible'[FamilyOf[r]] :
                              c <= reply[r].next =>
                                 c \in applied[r] \cup reply[r].changes
                      /\ applied[r] \subseteq visible'[FamilyOf[r]]
                      /\ \A c \in applied[r], d \in visible'[FamilyOf[r]] :
                           d < c => d \in applied[r]
                      /\ \A c \in visible'[FamilyOf[r]] :
                           c <= pullCursor[r] => c \in applied[r]
  BY <1>1 DEF DeviceInv, KnownCursorInv, ReplyInv, AppliedInv, CursorInv, NextChange
<1> DEFINE mine == visible[FamilyOf[r]]
<1>4. /\ FamilyOf[r] \in Families
      /\ mine \subseteq 1 .. MaxCursor
      /\ visible'[FamilyOf[r]] = IF FamilyOf[r] = f THEN mine \cup rows ELSE mine
  BY <1>1
<1>5. /\ pullCursor[r] \in {0} \cup mine
      /\ reply[r].next \in {0} \cup mine
  BY DEF CursorInv, KnownCursorInv
<1>6. \A c \in rows : pullCursor[r] < c /\ reply[r].next < c
  BY <1>1, <1>2, <1>4, <1>5
<1>7. /\ reply[r].changes \subseteq mine
      /\ \A c \in reply[r].changes : c <= reply[r].next
      /\ reply[r].kind = "page" => \A c \in reply[r].changes : pullCursor[r] < c
      /\ reply[r].kind # "none" =>
           \A c \in mine : c <= reply[r].next => c \in applied[r] \cup reply[r].changes
  BY DEF CursorInv, ReplyInv
<1>8. /\ applied[r] \subseteq mine
      /\ \A c \in applied[r], d \in mine : d < c => d \in applied[r]
      /\ \A c \in mine : c <= pullCursor[r] => c \in applied[r]
  BY DEF CursorInv, AppliedInv
<1>9. /\ \A c \in rows : ~(c <= pullCursor[r]) /\ ~(c <= reply[r].next)
      /\ \A c \in rows, d \in applied[r] : ~(c < d)
  BY <1>1, <1>2, <1>4, <1>5, <1>6, <1>8
<1> HIDE DEF f, rows, mine
<1>10. /\ applied[r] \subseteq visible'[FamilyOf[r]]
       /\ \A c \in applied[r], d \in visible'[FamilyOf[r]] : d < c => d \in applied[r]
       /\ \A c \in visible'[FamilyOf[r]] : c <= pullCursor[r] => c \in applied[r]
  BY <1>4, <1>8, <1>9
<1>11. QED
  BY <1>4, <1>5, <1>7, <1>9, <1>10

\* The holder of the lock is the only transaction with uncommitted rows, and
\* they stay beyond all committed ones.
LEMMA WriterInvStep ==
    ASSUME CursorInv, NEW w \in Writers, Write(w)
    PROVE  LockInv' /\ PendingInv'
<1> USE Constants DEF ConstantAssumptions
<1>1. /\ TypeOK /\ LockInv /\ PendingInv
      /\ sequence \in Nat
      /\ \A v \in Writers : txn[v].family \in Families
      /\ \A g \in Families : visible[g] \subseteq 1 .. sequence
  BY DEF CursorInv, TypeOK, PendingInv, Transaction
<1>2. CASE \E f \in Families : Begin(w, f)
  BY <1>1, <1>2 DEF Begin, TypeOK, LockInv, PendingInv, Open, deviceVars
<1>3. CASE AcquireCursorLock(w)
  BY <1>1, <1>3 DEF AcquireCursorLock, TypeOK, LockInv, PendingInv, Transaction
<1>4. CASE InsertRow(w)
  <2>1. LockInv'
    BY <1>1, <1>4 DEF InsertRow, TypeOK, LockInv, Transaction
  <2>2. \A v \in Writers : v # w => txn'[v] = txn[v]
    BY <1>1, <1>4 DEF InsertRow, TypeOK
  <2>3. txn'[w].rows = txn[w].rows \cup {sequence + 1}
    BY <1>1, <1>4 DEF InsertRow, TypeOK, Transaction
  <2>4. sequence' = sequence + 1 /\ visible' = visible
    BY <1>4 DEF InsertRow
  <2>5. \A f \in Families : visible'[f] \subseteq 1 .. sequence'
    BY <1>1, <2>4
  <2>6. ASSUME NEW v \in Writers
        PROVE  /\ txn'[v].rows \subseteq 1 .. sequence'
               /\ \A c \in txn'[v].rows, f \in Families : \A d \in visible'[f] : d < c
    <3>1. /\ txn[v].rows \subseteq 1 .. sequence
          /\ \A c \in txn[v].rows, f \in Families : \A d \in visible[f] : d < c
      BY <1>1 DEF PendingInv
    <3>2. CASE v = w
      BY <1>1, <2>3, <2>4, <3>1, <3>2
    <3>3. CASE v # w
      BY <1>1, <2>2, <2>4, <3>1, <3>3
    <3>4. QED
      BY <3>2, <3>3
  <2>7. QED
    BY <2>1, <2>5, <2>6 DEF PendingInv
<1>5. CASE RollbackToSavepoint(w)
  BY <1>1, <1>5
     DEF RollbackToSavepoint, ReleaseLockOf, TypeOK, LockInv, PendingInv, Transaction
<1>6. CASE Commit(w)
  <2>1. LockInv'
    BY <1>1, <1>6 DEF Commit, ReleaseLockOf, TypeOK, LockInv, Idle
  <2>2. /\ sequence' = sequence
        /\ txn' = [txn EXCEPT ![w] = Idle]
        /\ visible' = [visible EXCEPT ![txn[w].family] = @ \cup txn[w].rows]
    BY <1>6 DEF Commit
  <2>3. \A f \in Families : visible'[f] \subseteq 1 .. sequence'
    BY <1>1, <2>2 DEF PendingInv, TypeOK
  <2>4. ASSUME NEW v \in Writers
        PROVE  /\ txn'[v].rows \subseteq 1 .. sequence'
               /\ \A c \in txn'[v].rows, f \in Families : \A d \in visible'[f] : d < c
    <3>1. CASE v = w
      BY <1>1, <2>2, <3>1 DEF TypeOK, Idle
    <3>2. CASE v # w
      <4>1. txn'[v] = txn[v]
        BY <1>1, <2>2, <3>2 DEF TypeOK
      <4>2. CASE txn[w].phase = "appending"
        <5>1. txn[v].rows = {}
          BY <1>1, <3>2, <4>2 DEF LockInv
        <5>2. QED
          BY <4>1, <5>1
      <4>3. CASE txn[w].phase # "appending"
        <5>1. txn[w].rows = {}
          BY <1>1, <4>3 DEF LockInv
        <5>2. visible' = visible
          BY <1>1, <2>2, <5>1 DEF TypeOK
        <5>3. QED
          BY <1>1, <2>2, <4>1, <5>2 DEF PendingInv
      <4>4. QED
        BY <4>2, <4>3
    <3>3. QED
      BY <3>1, <3>2
  <2>5. QED
    BY <2>1, <2>3, <2>4 DEF PendingInv
<1>7. CASE Rollback(w)
  BY <1>1, <1>7 DEF Rollback, ReleaseLockOf, TypeOK, LockInv, PendingInv, Idle
<1>8. QED
  BY <1>2, <1>3, <1>4, <1>5, <1>6, <1>7, Write(w) DEF Write

\* What a device and the answer it works on must satisfy, with "mine" the
\* committed rows of its family.
DeviceOK(mine, cursor, done, answer) ==
    /\ cursor \in {0} \cup mine
    /\ answer.next \in {0} \cup mine
    /\ answer.changes \subseteq mine
    /\ \A c \in answer.changes : c <= answer.next
    /\ answer.kind = "page" => \A c \in answer.changes : cursor < c
    /\ answer.kind # "none" =>
         \A c \in mine : c <= answer.next => c \in done \cup answer.changes
    /\ answer.stored =>
         \A c \in Cursors :
            /\ answer.kind = "page" /\ c \in answer.changes
            /\ \A d \in answer.changes : c <= d
            => c \in done
    /\ done \subseteq mine
    /\ \A c \in done, d \in mine : d < c => d \in done
    /\ \A c \in mine : c <= cursor => c \in done

LEMMA DeviceInvIsDeviceOK ==
    DeviceInv <=> \A r \in Readers :
        DeviceOK(visible[FamilyOf[r]], pullCursor[r], applied[r], reply[r])
BY DEF DeviceInv, DeviceOK, KnownCursorInv, ReplyInv, AppliedInv, NextChange

LEMMA DeviceInvIsDeviceOKPrime ==
    DeviceInv' <=> \A r \in Readers :
        DeviceOK(visible'[FamilyOf[r]], pullCursor'[r], applied'[r], reply'[r])
BY DEF DeviceInv, DeviceOK, KnownCursorInv, ReplyInv, AppliedInv, NextChange

\* The change whose turn it is: all before it is stored, so it may be stored, and
\* once it is the cursor may stand there.
LEMMA NextChangeIsNext ==
    ASSUME NEW r \in Readers, NEW c \in Cursors, NextChange(r, c),
           NEW mine \in SUBSET Nat, DeviceOK(mine, pullCursor[r], applied[r], reply[r])
    PROVE  /\ c \in mine /\ c <= reply[r].next /\ pullCursor[r] < c
           /\ \A d \in mine : d < c => d \in applied[r]
           /\ \A d \in reply[r].changes \ {c} : c < d
<1>1. /\ reply[r].kind = "page" /\ c \in reply[r].changes
      /\ \A d \in reply[r].changes : c <= d
  BY DEF NextChange
<1>2. /\ reply[r].changes \subseteq mine
      /\ reply[r].next \in {0} \cup mine
      /\ c <= reply[r].next /\ pullCursor[r] < c
  BY <1>1 DEF DeviceOK
<1>3. ASSUME NEW d \in mine, d < c
      PROVE  d \in applied[r]
  <2>0. /\ mine \subseteq Nat /\ 0 \in Nat
        /\ d \in mine /\ c \in mine /\ reply[r].next \in {0} \cup mine
    BY <1>1, <1>2
  <2>1. d \in Nat /\ c \in Nat /\ reply[r].next \in Nat
    BY <2>0, Zenon
  <2>2. d <= reply[r].next /\ ~(c <= d)
    BY <1>2, <1>3, <2>1
  <2>3. QED
    BY <1>1, <2>2 DEF DeviceOK
<1>4. ASSUME NEW d \in reply[r].changes \ {c}
      PROVE  c < d
  <2>1. d \in Nat /\ c \in Nat /\ c <= d /\ d # c
    BY <1>1, <1>2
  <2>2. QED
    BY <2>1
<1>5. QED
  BY <1>1, <1>2, <1>3, <1>4

\* A receipt of a change that is stored takes the cursor to it.
LEMMA RecordedKeeps ==
    ASSUME TypeOK, NEW r \in Readers, NEW c \in Cursors, NextChange(r, c), Recorded(r, c),
           NEW mine \in SUBSET Nat, Cursors \subseteq Nat,
           DeviceOK(mine, pullCursor[r], applied[r], reply[r]),
           applied'[r] = applied[r] \cup {c}
    PROVE  DeviceOK(mine, pullCursor'[r], applied'[r], reply'[r])
<1>1. /\ c \in mine /\ c <= reply[r].next /\ pullCursor[r] < c
      /\ \A d \in mine : d < c => d \in applied[r]
      /\ \A d \in reply[r].changes \ {c} : c < d
      /\ reply[r].kind = "page"
  BY NextChangeIsNext DEF NextChange
<1>2. /\ reply'[r].kind = "page" /\ reply'[r].changes = reply[r].changes \ {c}
      /\ reply'[r].next = reply[r].next /\ reply'[r].stored = FALSE
      /\ pullCursor'[r] = c
  BY <1>1 DEF TypeOK, Recorded, Reply
<1>3. ASSUME NEW d \in mine, d <= c
      PROVE  d \in applied'[r]
  <2>1. mine \subseteq Nat /\ c \in mine
    BY <1>1
  <2>2. d \in Nat /\ c \in Nat
    BY <2>1, Zenon
  <2>3. d < c \/ d = c
    BY <1>3, <2>2
  <2>4. QED
    BY <1>1, <2>3
<1>4. \A x \in applied'[r], d \in mine : d < x => d \in applied'[r]
  <2>1. \A x \in applied[r], d \in mine : d < x => d \in applied[r]
    BY DEF DeviceOK
  <2>2. QED
    BY <1>1, <2>1
<1>5. /\ applied'[r] \subseteq mine
      /\ \A d \in mine : d <= reply'[r].next => d \in applied'[r] \cup reply'[r].changes
  BY <1>1, <1>2 DEF DeviceOK
<1>6. QED
  BY <1>1, <1>2, <1>3, <1>4, <1>5 DEF DeviceOK

\* A read of the server, or a local transaction of a device, moves a device
\* along the committed rows of its family without leaving one out.
LEMMA ReaderInvStep ==
    ASSUME CursorInv, NEW r \in Readers, Read(r)
    PROVE  LockInv' /\ PendingInv' /\ DeviceInv'
<1> USE Constants DEF ConstantAssumptions
<1> DEFINE mine == visible[FamilyOf[r]]
<1>1. UNCHANGED serverVars
  BY Read(r) DEF Read, Pull, ReadBootstrap, StoreEffect, RecordReceipt,
                 ApplyCommand, FinishPage, ApplySnapshot, DropReply
<1>2. LockInv' /\ PendingInv'
  BY <1>1 DEF CursorInv, LockInv, PendingInv, serverVars
<1>3. /\ TypeOK
      /\ pullCursor \in [Readers -> 0 .. MaxCursor]
      /\ applied \in [Readers -> SUBSET Cursors]
      /\ reply \in [Readers -> Reply]
      /\ mine \in SUBSET Nat
      /\ pullCursor[r] \in Nat
      /\ reply[r].next \in Nat
      /\ Cursors \subseteq Nat
  BY DEF CursorInv, TypeOK, Cursors, Reply
<1>4. \A q \in Readers :
        DeviceOK(visible[FamilyOf[q]], pullCursor[q], applied[q], reply[q])
  BY DeviceInvIsDeviceOK DEF CursorInv, DeviceInv
<1>5. /\ visible' = visible
      /\ \A q \in Readers : q # r => /\ pullCursor'[q] = pullCursor[q]
                                     /\ applied'[q] = applied[q]
                                     /\ reply'[q] = reply[q]
  BY <1>1, <1>3, Read(r)
     DEF Read, Pull, ReadBootstrap, StoreEffect, RecordReceipt, ApplyCommand,
         Recorded, FinishPage, ApplySnapshot, DropReply, serverVars
<1>6. SUFFICES DeviceOK(mine, pullCursor'[r], applied'[r], reply'[r])
  BY <1>2, <1>4, <1>5, DeviceInvIsDeviceOKPrime
<1>7. DeviceOK(mine, pullCursor[r], applied[r], reply[r])
  BY <1>4
<1> HIDE DEF mine
<1>8. CASE Pull(r)
  <2>1. PICK next \in {pullCursor[r]} \cup After(mine, pullCursor[r]),
             changes \in SUBSET mine :
          /\ IsPage(mine, pullCursor[r], changes, next)
          /\ reply' = [reply EXCEPT ![r] = Page(changes, next)]
    BY <1>8 DEF Pull, mine
  <2>2. /\ reply'[r].kind = "page" /\ reply'[r].changes = changes
        /\ reply'[r].next = next /\ reply'[r].stored = FALSE
    BY <1>3, <2>1 DEF Page, NoReply
  <2>3. pullCursor'[r] = pullCursor[r] /\ applied'[r] = applied[r]
    BY <1>8 DEF Pull
  <2>4. changes = {d \in mine : pullCursor[r] < d /\ d <= next}
    BY <2>1 DEF IsPage
  <2>5. next \in {0} \cup mine
    BY <1>7, <2>1 DEF After, DeviceOK
  <2>6. \A c \in mine : c <= next => c \in applied[r] \cup changes
    <3>1. \A c \in mine : c <= pullCursor[r] \/ pullCursor[r] < c
      BY <1>3
    <3>2. QED
      BY <1>7, <2>4, <3>1 DEF DeviceOK
  <2>7. QED
    BY <1>7, <2>2, <2>3, <2>4, <2>5, <2>6 DEF DeviceOK
<1>9. CASE ReadBootstrap(r)
  <2>1. PICK next \in {0} \cup mine :
          /\ \A c \in mine : c <= next
          /\ reply' = [reply EXCEPT ![r] = [NoReply EXCEPT
               !.kind = "snapshot", !.changes = mine, !.next = next]]
    BY <1>9 DEF ReadBootstrap, mine
  <2>2. /\ reply'[r].kind = "snapshot" /\ reply'[r].changes = mine
        /\ reply'[r].next = next /\ reply'[r].stored = FALSE
    BY <1>3, <2>1 DEF NoReply
  <2>3. pullCursor'[r] = pullCursor[r] /\ applied'[r] = applied[r]
    BY <1>9 DEF ReadBootstrap
  <2>4. QED
    BY <1>7, <2>1, <2>2, <2>3 DEF DeviceOK
<1>10. CASE StoreEffect(r)
  <2>1. PICK c \in Cursors :
          /\ NextChange(r, c)
          /\ applied' = [applied EXCEPT ![r] = @ \cup {c}]
          /\ reply' = [reply EXCEPT ![r].stored = TRUE]
    BY <1>10 DEF StoreEffect
  <2>2. /\ applied'[r] = applied[r] \cup {c}
        /\ reply'[r].kind = reply[r].kind /\ reply'[r].changes = reply[r].changes
        /\ reply'[r].next = reply[r].next
        /\ pullCursor'[r] = pullCursor[r]
    BY <1>3, <1>10, <2>1 DEF StoreEffect, Reply
  <2>3. /\ c \in mine /\ c \in reply[r].changes
        /\ \A d \in mine : d < c => d \in applied[r]
        /\ \A d \in reply[r].changes \ {c} : c < d
    BY <1>3, <1>7, <2>1, NextChangeIsNext DEF NextChange
  <2>4. \A d \in Cursors : d \in reply[r].changes /\ (\A e \in reply[r].changes : d <= e)
                             => d = c
    <3>1. reply[r].changes \subseteq Nat /\ c \in Nat
      BY <1>3, <1>7, <2>3 DEF DeviceOK
    <3>2. ASSUME NEW d \in reply[r].changes, d <= c
          PROVE  d = c
      <4>1. d \in Nat /\ c \in Nat /\ (d # c => c < d)
        BY <2>3, <3>1
      <4>2. QED
        BY <3>2, <4>1
    <3>3. QED
      BY <2>3, <3>2
  <2>5. QED
    BY <1>7, <2>2, <2>3, <2>4 DEF DeviceOK
<1>11. CASE RecordReceipt(r)
  <2>1. PICK c \in Cursors : NextChange(r, c) /\ Recorded(r, c)
    BY <1>11 DEF RecordReceipt
  <2>2. c \in applied[r] /\ applied'[r] = applied[r]
    BY <1>7, <1>11, <2>1 DEF RecordReceipt, NextChange, DeviceOK
  <2>3. QED
    BY <1>3, <1>7, <2>1, <2>2, RecordedKeeps
<1>12. CASE ApplyCommand(r)
  <2>1. PICK c \in Cursors :
          /\ NextChange(r, c) /\ Recorded(r, c)
          /\ applied' = [applied EXCEPT ![r] = @ \cup {c}]
    BY <1>12 DEF ApplyCommand
  <2>2. applied'[r] = applied[r] \cup {c}
    BY <1>3, <2>1
  <2>3. QED
    BY <1>3, <1>7, <2>1, <2>2, RecordedKeeps
<1>13. CASE FinishPage(r)
  <2>1. /\ reply'[r] = NoReply
        /\ applied'[r] = applied[r]
        /\ reply[r].kind = "page" /\ reply[r].changes = {}
        /\ pullCursor'[r] = IF pullCursor[r] < reply[r].next
                              THEN reply[r].next ELSE pullCursor[r]
    BY <1>3, <1>13 DEF FinishPage
  <2>2. QED
    BY <1>7, <2>1 DEF NoReply, DeviceOK
<1>14. CASE ApplySnapshot(r)
  <2>1. /\ reply'[r] = NoReply
        /\ reply[r].kind = "snapshot"
        /\ applied'[r] = applied[r] \cup reply[r].changes
        /\ pullCursor'[r] = reply[r].next
    BY <1>3, <1>14 DEF ApplySnapshot
  <2>2. /\ applied'[r] \subseteq mine
        /\ \A d \in mine : d <= reply[r].next => d \in applied'[r]
    BY <1>7, <2>1 DEF DeviceOK
  <2>3. ASSUME NEW c \in applied'[r], NEW d \in mine, d < c
        PROVE  d \in applied'[r]
    <3>1. CASE c \in applied[r]
      BY <1>7, <2>1, <2>3, <3>1 DEF DeviceOK
    <3>2. CASE c \in reply[r].changes
      <4>1. c <= reply[r].next /\ c \in Nat /\ d \in Nat
        BY <1>3, <1>7, <3>2 DEF DeviceOK
      <4>2. d <= reply[r].next
        BY <1>3, <2>3, <4>1
      <4>3. QED
        BY <2>2, <4>2
    <3>3. QED
      BY <2>1, <2>3, <3>1, <3>2
  <2>4. QED
    BY <1>7, <2>1, <2>2, <2>3 DEF NoReply, DeviceOK
<1>15. CASE DropReply(r)
  <2>1. reply'[r] = NoReply /\ UNCHANGED <<pullCursor, applied>>
    BY <1>3, <1>15 DEF DropReply
  <2>2. QED
    BY <1>7, <2>1 DEF NoReply, DeviceOK
<1>16. QED
  BY <1>8, <1>9, <1>10, <1>11, <1>12, <1>13, <1>14, <1>15, Read(r) DEF Read

LEMMA CursorStep == CursorInv /\ [Next]_vars => CursorInv'
<1> SUFFICES ASSUME CursorInv, [Next]_vars
             PROVE  CursorInv'
  OBVIOUS
<1>1. TypeOK'
  BY TypeStep DEF CursorInv
<1>2. SUFFICES LockInv' /\ PendingInv' /\ DeviceInv'
  BY <1>1 DEF CursorInv, DeviceInv
<1>3. DeviceInv
  BY DEF CursorInv, DeviceInv
<1>4. ASSUME NEW w \in Writers, Write(w)
      PROVE  LockInv' /\ PendingInv' /\ DeviceInv'
  <2>1. CASE Commit(w)
    BY <1>4, <2>1, WriterInvStep, CommitDeviceInv
  <2>2. CASE ~Commit(w)
    <3>1. UNCHANGED <<visible, pullCursor, applied, reply>>
      BY <1>4, <2>2 DEF Write, Begin, AcquireCursorLock, InsertRow,
                        RollbackToSavepoint, Rollback, deviceVars
    <3>2. QED
      BY <1>3, <1>4, <3>1, WriterInvStep, DeviceInvStable
  <2>3. QED
    BY <2>1, <2>2
<1>5. ASSUME NEW r \in Readers, Read(r)
      PROVE  LockInv' /\ PendingInv' /\ DeviceInv'
  BY <1>5, ReaderInvStep
<1>6. CASE UNCHANGED vars
  BY <1>6, <1>3, DeviceInvStable DEF CursorInv, LockInv, PendingInv, vars
<1>7. QED
  BY <1>4, <1>5, <1>6 DEF Next

\* The inductive invariant holds in every state: uncommitted rows lie beyond
\* all committed ones, and each device has a prefix that reaches its cursor.
THEOREM CursorCorrect == Spec => []CursorInv
BY CursorInit, CursorStep, PTL DEF Spec

\* No pull page and no bootstrap snapshot ever skips a change, whatever the
\* interleaving of the writers' transactions.
THEOREM NoSkippedChangeCorrect == Spec => []NoSkippedChange
<1>1. CursorInv => NoSkippedChange
  BY DEF CursorInv, AppliedInv, NoSkippedChange
<1>2. QED
  BY <1>1, CursorCorrect, PTL

-----------------------------------------------------------------------------
(* Commit order and refinement *)

LEMMA CommitOrderStep ==
    ASSUME CursorInv, [Next]_vars
    PROVE  \A f \in Families :
             \A c \in visible'[f] \ visible[f], d \in visible[f] : d < c
<1>1. CASE \E w \in Writers : Commit(w)
  <2>1. PICK w \in Writers : Commit(w)
    BY <1>1
  <2>2. \A f \in Families : visible'[f] \ visible[f] \subseteq txn[w].rows
    BY <2>1 DEF Commit, CursorInv, TypeOK
  <2>3. QED
    BY <2>2 DEF CursorInv, PendingInv
<1>2. CASE ~(\E w \in Writers : Commit(w))
  <2>1. visible' = visible
    BY <1>2 DEF Next, Write, Read, vars, serverVars, Begin, AcquireCursorLock,
                InsertRow, RollbackToSavepoint, Rollback, Pull, ReadBootstrap,
                StoreEffect, RecordReceipt, ApplyCommand, FinishPage, ApplySnapshot,
                DropReply
  <2>2. QED
    BY <2>1
<1>3. QED
  BY <1>1, <1>2

\* Rows become visible to a family in cursor order: the promise of the lock
\* that migration 0005 adds.
THEOREM CommitOrderCorrect == Spec => CommitOrderIsCursorOrder
<1>1. CursorInv /\ [Next]_vars =>
        [\A f \in Families :
           \A c \in visible'[f] \ visible[f], d \in visible[f] : d < c]_vars
  BY CommitOrderStep
<1>2. QED
  BY <1>1, CursorCorrect, PTL DEF Spec, CommitOrderIsCursorOrder

\* The part of the device that moved is again a prefix of its family's rows.
LEMMA ExtendStep ==
    ASSUME TypeOK, AppliedInv', NEW r \in Readers, visible' = visible,
           NEW more, applied' = [applied EXCEPT ![r] = @ \cup more],
           TypeOK'
    PROVE  Feed!Extend(r)
<1> DEFINE part == applied'[r]
           mine == visible[FamilyOf[r]]
<1>1. part \in SUBSET mine /\ Feed!IsPrefix(part, mine)
  BY DEF AppliedInv, Feed!IsPrefix
<1>2. applied[r] \subseteq part /\ applied' = [applied EXCEPT ![r] = part]
  BY DEF TypeOK
<1>3. QED
  BY <1>1, <1>2 DEF Feed!Extend

\* The steps that store something on a device.
Stores(r) == StoreEffect(r) \/ ApplyCommand(r) \/ ApplySnapshot(r)

LEMMA FeedStep ==
    ASSUME CursorInv, CursorInv', [Next]_vars
    PROVE  [Feed!Next]_(Feed!vars)
<1>1. TypeOK /\ TypeOK' /\ AppliedInv' /\ PendingInv
  BY DEF CursorInv
<1>2. ASSUME NEW w \in Writers, Commit(w)
      PROVE  [Feed!Next]_(Feed!vars)
  <2> DEFINE f == txn[w].family
             batch == txn[w].rows
  <2>1. /\ f \in Families
        /\ batch \in SUBSET Cursors
        /\ visible' = [visible EXCEPT ![f] = @ \cup batch]
        /\ applied' = applied
    BY <1>1, <1>2 DEF Commit, TypeOK, Transaction, deviceVars
  <2>2. \A c \in batch, d \in visible[f] : d < c
    BY <1>1, <2>1 DEF PendingInv
  <2>3. CASE batch = {}
    BY <1>1, <2>1, <2>3 DEF Feed!vars, TypeOK
  <2>4. CASE batch # {}
    <3>1. Feed!Publish(f)
      BY <2>1, <2>2, <2>4 DEF Feed!Publish, Feed!Cursors, Cursors
    <3>2. QED
      BY <2>1, <3>1 DEF Feed!Next
  <2>5. QED
    BY <2>3, <2>4
<1>3. ASSUME NEW r \in Readers, Stores(r)
      PROVE  [Feed!Next]_(Feed!vars)
  <2>1. visible' = visible
    BY <1>3 DEF Stores, StoreEffect, ApplyCommand, ApplySnapshot, serverVars
  <2>2. \E more : applied' = [applied EXCEPT ![r] = @ \cup more]
    BY <1>3 DEF Stores, StoreEffect, ApplyCommand, ApplySnapshot
  <2>3. Feed!Extend(r)
    BY <1>1, <2>1, <2>2, ExtendStep
  <2>4. QED
    BY <2>3 DEF Feed!Next
<1>4. CASE /\ ~(\E w \in Writers : Commit(w))
           /\ ~(\E r \in Readers : Stores(r))
  <2>1. visible' = visible /\ applied' = applied
    BY <1>4 DEF Next, Write, Read, vars, serverVars, deviceVars, Begin,
                AcquireCursorLock, InsertRow, RollbackToSavepoint, Rollback,
                Stores, Pull, ReadBootstrap, RecordReceipt, FinishPage, DropReply
  <2>2. QED
    BY <2>1 DEF Feed!vars
<1>5. QED
  BY <1>2, <1>3, <1>4

\* The transactions, locks, pages and snapshots implement FamilyFeed: a
\* device always holds a prefix of what its family has committed.
THEOREM FeedRefinement == Spec => FeedSpec
<1>1. Init => Feed!Init
  BY DEF Init, Feed!Init
<1>2. CursorInv /\ CursorInv' /\ [Next]_vars => [Feed!Next]_(Feed!vars)
  BY FeedStep
<1>3. QED
  BY <1>1, <1>2, CursorCorrect, PTL DEF Spec, FeedSpec, Feed!Spec
=============================================================================
