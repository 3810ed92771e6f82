-------------------------- MODULE InitialImportProofs --------------------------
(***************************************************************************)
(* For every family, every set of backups and import ids and any number of *)
(* connections: a row is written by one import at most and once, imports   *)
(* are whole, receipts never change and a withdrawn plan is never carried  *)
(* out.                                                                    *)
(*                                                                         *)
(* Neither is inductive.  A transaction past its checks is alone, its plan *)
(* is still prepared and the one it was asked for (the import lock), its   *)
(* importer still may import (the share locks), and while it is about to   *)
(* write, what the recheck found still holds (the table locks); and what   *)
(* an import wrote is never nowhere again, so the recheck finds it.        *)
(***************************************************************************)
EXTENDS InitialImport, Integers, FiniteSetTheorems, TLAPS

\* A transaction past its checks still has what it checked.
HoldersAreCurrent ==
    \A h \in Holding :
        /\ ImportIdentity(handler[h].device)
        /\ plan[Import(h)].state = "prepared"
        /\ plan[Import(h)].user = UserOf[handler[h].device]
        /\ handler[h].offer = OfferOf(Import(h))

OneHolder == \A h, k \in Holding : h = k

Clear(m) ==
    /\ ~Overlap(m) /\ ~NameTaken(m) /\ ~MissingDependency(m)
    /\ ~NameRepeated(m) /\ ~ScopeTaken(m) /\ ~ReuseMismatch(m)

WritersAreClear == \A h \in Handlers : At(h, "write") => Clear(Manifest(h))

\* Checkpoints are drawn once; what they were drawn for is a manifest.
PlansAreFresh ==
    /\ \A i \in Imports : plan[i].state # "none" =>
         /\ plan[i].manifest \in Manifests /\ plan[i].user \in Users
         /\ plan[i].checkpoint <= drawn /\ plan[i].checkpoint \notin withdrawn
    /\ \A i, j \in Imports : i # j /\ plan[i].state # "none" /\ plan[j].state # "none" =>
         plan[i].checkpoint # plan[j].checkpoint
    /\ \A c \in withdrawn : c <= drawn

\* Nothing that was written is nowhere.
WrittenIsThere ==
    \A x \in Rows \cup Archive, i \in Imports : written[x][i] > 0 =>
        /\ x \in Rows => row[x] # "none"
        /\ x \in Archive => archive[x] # 0

Locks == HoldersAreCurrent /\ OneHolder /\ WritersAreClear

Outcome ==
    /\ PlansAreFresh /\ WrittenIsThere /\ WrittenOnce /\ AllOrNothing
    /\ ReceiptsAreTrue /\ LabelsAreUnique

IInv == StoreTypeOK /\ Locks /\ Outcome

-----------------------------------------------------------------------------
(* The initial state *)

LEMMA InitIInv == ImportInit => IInv
<1> SUFFICES ASSUME ImportInit PROVE IInv
  OBVIOUS
<1> USE DEF ImportInit
<1>1. StoreTypeOK
  BY DEF StoreTypeOK, Plan, NoPlan
<1>2. Holding = {}
  BY DEF Holding, Free
<1>3. Locks
  BY <1>2 DEF Locks, HoldersAreCurrent, OneHolder, WritersAreClear, At, Free
<1>4. Outcome
  <2>1. PlansAreFresh
    BY DEF PlansAreFresh, NoPlan
  <2>2. \A x \in Rows \cup Archive, i \in Imports : written[x][i] = 0
    OBVIOUS
  <2>3. WrittenIsThere /\ WrittenOnce
    BY <2>2 DEF WrittenIsThere, WrittenOnce
  <2>4. AllOrNothing
    BY <2>2 DEF AllOrNothing, NoPlan
  <2>5. ReceiptsAreTrue
    BY DEF ReceiptsAreTrue
  <2>6. LabelsAreUnique
    OBVIOUS
  <2> QED
    BY <2>1, <2>3, <2>4, <2>5, <2>6 DEF Outcome
<1> QED
  BY <1>1, <1>3, <1>4 DEF IInv

-----------------------------------------------------------------------------
(* Steps of a handler that write nothing *)

\* What handlers did is no part of the outcome.
LEMMA OutcomeStays ==
    ASSUME Outcome, UNCHANGED <<planVars, answerVars, dataVars>>
    PROVE  Outcome'
BY DEF Outcome, PlansAreFresh, WrittenIsThere, WrittenOnce, AllOrNothing, ReceiptsAreTrue,
       ReceiptOf, LabelsAreUnique, planVars, answerVars, dataVars

LEMMA LeaveKeeps ==
    ASSUME IInv, NEW h \in Handlers, Leave(h),
           UNCHANGED <<planVars, answerVars, dataVars, scopeVars>>
    PROVE  IInv'
<1>1. handler' \in [Handlers -> {Free} \cup Handler]
  BY DEF Leave, IInv, StoreTypeOK
<1>2. StoreTypeOK'
  BY <1>1 DEF IInv, StoreTypeOK, planVars, answerVars, dataVars, scopeVars
<1>3. \A k \in Handlers : handler'[k] = IF k = h THEN Free ELSE handler[k]
  BY DEF Leave, IInv, StoreTypeOK
<1>4. Holding' = Holding \ {h}
  BY <1>3 DEF Holding, Free
<1>5. HoldersAreCurrent'
  BY <1>3, <1>4 DEF IInv, Locks, HoldersAreCurrent, ImportIdentity, Import, OfferOf, planVars, scopeVars,
                    Holding
<1>6. OneHolder'
  BY <1>4 DEF IInv, Locks, OneHolder
<1>7. WritersAreClear'
  <2> SUFFICES ASSUME NEW k \in Handlers, At(k, "write")' PROVE Clear(Manifest(k))'
    BY DEF WritersAreClear
  <2>1. At(k, "write") /\ Manifest(k)' = Manifest(k)
    BY <1>3 DEF At, Free, Manifest, Import, planVars
  <2> QED
    BY <2>1 DEF IInv, Locks, WritersAreClear, Clear, Overlap, NameTaken, MissingDependency,
                NameRepeated, ScopeTaken, ReuseMismatch, dataVars
<1> QED
  BY <1>2, <1>5, <1>6, <1>7, OutcomeStays DEF IInv, Locks

\* A handler goes on to a step under the locks it has, or takes them.
LEMMA GoKeeps ==
    ASSUME IInv, NEW h \in Handlers, NEW step \in {"lock", "recheck", "write"}, Go(h, step),
           handler[h].at # "idle",
           h \in Holding \/ (LockFree /\ Confirmable(h) /\ ~Done(h)),
           step = "write" => Clear(Manifest(h)),
           UNCHANGED <<planVars, answerVars, dataVars, scopeVars>>
    PROVE  IInv'
<1>1. handler \in [Handlers -> {Free} \cup Handler] /\ handler[h] \in Handler
  BY DEF IInv, StoreTypeOK, Free
<1>2. \A k \in Handlers : handler'[k] = IF k = h THEN [handler[h] EXCEPT !.at = step] ELSE handler[k]
  BY <1>1 DEF Go
<1>3. /\ handler'[h] \in Handler /\ handler'[h].at = step
      /\ handler'[h].device = handler[h].device /\ handler'[h].offer = handler[h].offer
  BY <1>1, <1>2 DEF Handler
<1>4. handler' \in [Handlers -> {Free} \cup Handler]
  BY <1>1, <1>3 DEF Go
<1>5. StoreTypeOK'
  BY <1>4 DEF IInv, StoreTypeOK, planVars, answerVars, dataVars, scopeVars
<1>6. Holding' = Holding \cup {h} /\ Holding \subseteq {h}
  BY <1>2, <1>3 DEF Holding, LockFree, IInv, Locks, OneHolder
<1>7. Holding' = {h}
  BY <1>6
<1>8. HoldersAreCurrent'
  <2>1. /\ ImportIdentity(handler[h].device)
        /\ plan[Import(h)].state = "prepared"
        /\ plan[Import(h)].user = UserOf[handler[h].device]
        /\ handler[h].offer = OfferOf(Import(h))
    <3>1. CASE h \in Holding
      BY <3>1 DEF IInv, Locks, HoldersAreCurrent
    <3>2. CASE LockFree /\ Confirmable(h) /\ ~Done(h)
      <4>1. handler[h].offer \in Offer
        BY <1>1 DEF Handler
      <4>2. plan[Import(h)] \in Plan
        BY <4>1 DEF Import, Offer, IInv, StoreTypeOK
      <4>3. plan[Import(h)].state = "prepared"
        BY <3>2, <4>2 DEF Confirmable, Done, Plan
      <4>4. handler[h].offer = OfferOf(Import(h))
        BY <3>2, <4>1 DEF Confirmable, Matches, OfferOf, Import, Manifest, Offer
      <4> QED
        BY <3>2, <4>3, <4>4 DEF Confirmable
    <3> QED
      BY <3>1, <3>2
  <2> QED
    BY <1>3, <1>7, <2>1 DEF HoldersAreCurrent, ImportIdentity, Import, OfferOf, planVars, scopeVars
<1>9. OneHolder'
  BY <1>7 DEF OneHolder
<1>10. WritersAreClear'
  <2> SUFFICES ASSUME NEW k \in Handlers, At(k, "write")' PROVE Clear(Manifest(k))'
    BY DEF WritersAreClear
  <2>1. k = h /\ step = "write"
    BY <1>7, <1>3 DEF At, Holding
  <2>2. Manifest(h)' = Manifest(h)
    BY <1>3 DEF Manifest, Import, planVars
  <2> QED
    BY <2>1, <2>2 DEF Clear, Overlap, NameTaken, MissingDependency, NameRepeated, ScopeTaken,
                      ReuseMismatch, dataVars
<1> QED
  BY <1>5, <1>8, <1>9, <1>10, OutcomeStays DEF IInv, Locks

LEMMA StartKeeps ==
    ASSUME IInv, NEW h \in Handlers, NEW d \in Devices, NEW o \in offers, Start(h, d, o)
    PROVE  IInv'
<1> USE DEF Start
<1>1. [at |-> "open", device |-> d, offer |-> o] \in Handler
  BY DEF Handler, IInv, StoreTypeOK
<1>2. handler' \in [Handlers -> {Free} \cup Handler]
  BY <1>1 DEF IInv, StoreTypeOK
<1>3. StoreTypeOK'
  BY <1>2 DEF IInv, StoreTypeOK, planVars, answerVars, dataVars, scopeVars
<1>4. \A k \in Handlers : handler'[k] = IF k = h THEN [at |-> "open", device |-> d, offer |-> o] ELSE handler[k]
  BY DEF IInv, StoreTypeOK
<1>5. Holding' = Holding /\ h \notin Holding
  BY <1>4 DEF Holding, At
<1>6. \A k \in Holding : handler'[k] = handler[k] /\ k \in Handlers
  BY <1>4, <1>5 DEF Holding
<1>7. HoldersAreCurrent' /\ OneHolder'
  BY <1>5, <1>6 DEF IInv, Locks, HoldersAreCurrent, OneHolder, ImportIdentity, Import, OfferOf, planVars, scopeVars
<1>8. WritersAreClear'
  <2> SUFFICES ASSUME NEW k \in Handlers, At(k, "write")' PROVE Clear(Manifest(k))'
    BY DEF WritersAreClear
  <2>1. At(k, "write") /\ Manifest(k)' = Manifest(k)
    BY <1>4 DEF At, Manifest, Import, planVars
  <2> QED
    BY <2>1 DEF IInv, Locks, WritersAreClear, Clear, Overlap, NameTaken, MissingDependency,
                NameRepeated, ScopeTaken, ReuseMismatch, dataVars
<1> QED
  BY <1>3, <1>7, <1>8, OutcomeStays DEF IInv, Locks

-----------------------------------------------------------------------------
(* Plans and answers *)

\* While no transaction is past its checks the locks have nothing to protect.
LEMMA NobodyHolds ==
    ASSUME StoreTypeOK, LockFree, UNCHANGED handler
    PROVE  Locks'
<1>1. Holding' = {} /\ \A h \in Handlers : ~At(h, "write")'
  BY DEF LockFree, Holding, At
<1> QED
  BY <1>1 DEF Locks, HoldersAreCurrent, OneHolder, WritersAreClear

\* A plan that is there is well formed.
LEMMA PlanParts ==
    ASSUME IInv, NEW i \in Imports
    PROVE  /\ plan[i] \in Plan
           /\ plan[i].checkpoint \in Nat /\ plan[i].log \in Nat /\ plan[i].archive \in Nat
           /\ plan[i].state # "none" => /\ plan[i].manifest \in Manifests
                                        /\ OfferOf(i) \in Offer /\ ReceiptOf(i) \in Receipt
BY DEF IInv, StoreTypeOK, Outcome, PlansAreFresh, Plan, Offer, Receipt, OfferOf, ReceiptOf

LEMMA AnswerKeeps ==
    ASSUME IInv, NEW i \in Imports, plan[i].state # "none",
           \/ offers' = offers \cup {OfferOf(i)} /\ receipts' = receipts
           \/ offers' = offers /\ receipts' = receipts \cup {ReceiptOf(i)} /\ plan[i].state = "completed",
           UNCHANGED <<planVars, dataVars>>
    PROVE  /\ offers' \in SUBSET Offer /\ receipts' \in SUBSET Receipt
           /\ Outcome'
<1>1. offers' \in SUBSET Offer /\ receipts' \in SUBSET Receipt
  BY PlanParts DEF IInv, StoreTypeOK
<1>2. ReceiptsAreTrue'
  BY DEF IInv, Outcome, ReceiptsAreTrue, ReceiptOf, planVars
<1>3. (PlansAreFresh /\ WrittenIsThere /\ WrittenOnce /\ AllOrNothing /\ LabelsAreUnique)'
  BY DEF IInv, Outcome, PlansAreFresh, WrittenIsThere, WrittenOnce, AllOrNothing,
         LabelsAreUnique, planVars, dataVars
<1> QED
  BY <1>1, <1>2, <1>3 DEF Outcome

LEMMA LocksStay ==
    ASSUME Locks, UNCHANGED <<planVars, dataVars, scopeVars, handler>>
    PROVE  Locks'
<1>1. Holding' = Holding
  BY DEF Holding
<1>2. HoldersAreCurrent' /\ OneHolder'
  BY <1>1 DEF Locks, HoldersAreCurrent, OneHolder, Import, OfferOf, ImportIdentity, planVars, scopeVars
<1>3. WritersAreClear'
  <2> SUFFICES ASSUME NEW k \in Handlers, At(k, "write")' PROVE Clear(Manifest(k))'
    BY DEF WritersAreClear
  <2>1. At(k, "write") /\ Manifest(k)' = Manifest(k)
    BY DEF At, Manifest, Import, planVars
  <2> QED
    BY <2>1 DEF Locks, WritersAreClear, Clear, Overlap, NameTaken, MissingDependency,
                NameRepeated, ScopeTaken, ReuseMismatch, dataVars
<1> QED
  BY <1>2, <1>3 DEF Locks

LEMMA PreflightDoneKeeps ==
    ASSUME IInv, NEW d \in Devices, NEW i \in Imports, NEW m \in Manifests, PreflightDone(d, i, m)
    PROVE  IInv'
<1> USE DEF PreflightDone
<1>1. Locks'
  BY LocksStay DEF IInv
<1>2. offers' \in SUBSET Offer /\ receipts' \in SUBSET Receipt /\ Outcome'
  BY AnswerKeeps
<1> QED
  BY <1>1, <1>2 DEF IInv, StoreTypeOK, planVars, dataVars, scopeVars

LEMMA GetReceiptKeeps ==
    ASSUME IInv, NEW d \in Devices, NEW i \in Imports, GetReceipt(d, i)
    PROVE  IInv'
<1> USE DEF GetReceipt
<1>1. Locks'
  BY LocksStay DEF IInv
<1>2. offers' \in SUBSET Offer /\ receipts' \in SUBSET Receipt /\ Outcome'
  BY AnswerKeeps
<1> QED
  BY <1>1, <1>2 DEF IInv, StoreTypeOK, planVars, dataVars, scopeVars

LEMMA RepeatKeeps ==
    ASSUME IInv, NEW h \in Handlers, Repeat(h)
    PROVE  IInv'
<1> USE DEF Repeat
<1>1. Import(h) \in Imports
  BY DEF IInv, StoreTypeOK, Free, Handler, Offer, Import, At
<1>2. offers' \in SUBSET Offer /\ receipts' \in SUBSET Receipt /\ Outcome'
  BY <1>1, AnswerKeeps DEF Done
<1>3. \A k \in Handlers : handler'[k] = IF k = h THEN Free ELSE handler[k]
  BY DEF Leave, IInv, StoreTypeOK
<1>4. Holding' = {} /\ \A k \in Handlers : ~At(k, "write")'
  BY <1>3 DEF Holding, LockFree, Free, At
<1>5. Locks'
  BY <1>4 DEF Locks, HoldersAreCurrent, OneHolder, WritersAreClear
<1>6. handler' \in [Handlers -> {Free} \cup Handler]
  BY DEF Leave, IInv, StoreTypeOK
<1> QED
  BY <1>2, <1>5, <1>6 DEF IInv, StoreTypeOK, planVars, dataVars, scopeVars

LEMMA PreflightBlockedKeeps ==
    ASSUME IInv, NEW d \in Devices, NEW i \in Imports, NEW m \in Manifests,
           NEW settled \in BOOLEAN, PreflightBlocked(d, i, m, settled)
    PROVE  IInv'
<1> USE DEF PreflightBlocked
<1>1. Locks'
  BY NobodyHolds DEF IInv, MayPrepare
<1>2. CASE plan[i].state # "prepared"
  <2>1. UNCHANGED <<planVars, answerVars, dataVars, scopeVars, handler>>
    BY <1>2 DEF DropPrepared, planVars
  <2> QED
    BY <1>1, <2>1, OutcomeStays DEF IInv, StoreTypeOK, planVars, answerVars, dataVars, scopeVars
<1>3. CASE plan[i].state = "prepared"
  <2>1. /\ plan' = [plan EXCEPT ![i] = NoPlan]
        /\ withdrawn' = withdrawn \cup {plan[i].checkpoint}
    BY <1>3 DEF DropPrepared
  <2>2. NoPlan \in Plan
    BY DEF NoPlan, Plan
  <2>3. plan' \in [Imports -> Plan] /\ withdrawn' \in SUBSET Nat
    BY <2>1, <2>2, PlanParts DEF IInv, StoreTypeOK
  <2>4. StoreTypeOK'
    BY <2>3 DEF IInv, StoreTypeOK, answerVars, dataVars, scopeVars
  <2>5. \A j \in Imports : plan'[j] = IF j = i THEN NoPlan ELSE plan[j]
    BY <2>1 DEF IInv, StoreTypeOK
  <2>6. AllOrNothing' /\ WrittenIsThere' /\ WrittenOnce' /\ LabelsAreUnique'
    BY <1>3, <2>5 DEF IInv, Outcome, AllOrNothing, WrittenIsThere, WrittenOnce, LabelsAreUnique,
                      NoPlan, dataVars
  <2>7. ReceiptsAreTrue'
    <3>1. \A r \in receipts : r.import \in Imports /\ r.import # i
      BY <1>3 DEF IInv, StoreTypeOK, Receipt, Outcome, ReceiptsAreTrue
    <3> QED
      BY <2>5, <3>1 DEF IInv, Outcome, ReceiptsAreTrue, ReceiptOf, answerVars
  <2>8. PlansAreFresh'
    BY <1>3, <2>1, <2>5 DEF IInv, Outcome, PlansAreFresh, NoPlan
  <2> QED
    BY <1>1, <2>4, <2>6, <2>7, <2>8 DEF IInv, Outcome
<1> QED
  BY <1>2, <1>3

LEMMA NewPlan ==
    ASSUME NEW u \in Users, NEW m \in Manifests, NEW c \in Nat
    PROVE  /\ Prepared(u, m, c) \in Plan /\ Prepared(u, m, c).state = "prepared"
           /\ Prepared(u, m, c).user = u /\ Prepared(u, m, c).manifest = m
           /\ Prepared(u, m, c).checkpoint = c
BY DEF Prepared, Plan

LEMMA PreflightReadyKeeps ==
    ASSUME IInv, NEW d \in Devices, NEW i \in Imports, NEW m \in Manifests,
           NEW settled \in BOOLEAN, NEW answered \in BOOLEAN,
           PreflightReady(d, i, m, settled, answered)
    PROVE  IInv'
<1> USE DEF PreflightReady
<1>1. Locks'
  BY NobodyHolds DEF IInv, MayPrepare
<1>2. CASE plan[i].state = "prepared"
  <2>1. UNCHANGED planVars
    BY <1>2 DEF planVars
  <2>2. plan[i].manifest = m
    BY <1>2 DEF MayPrepare, SamePlan
  <2>3. CASE answered
    <3>1. offers' = offers \cup {OfferOf(i)} /\ receipts' = receipts
      BY <1>2, <2>1, <2>2, <2>3 DEF OfferOf, planVars
    <3>2. offers' \in SUBSET Offer /\ receipts' \in SUBSET Receipt /\ Outcome'
      BY <1>2, <2>1, <3>1, AnswerKeeps
    <3> QED
      BY <1>1, <2>1, <3>2 DEF IInv, StoreTypeOK, planVars, dataVars, scopeVars
  <2>4. CASE ~answered
    BY <1>1, <2>1, <2>4, OutcomeStays DEF IInv, StoreTypeOK, planVars, answerVars, dataVars, scopeVars
  <2> QED
    BY <2>3, <2>4
<1>3. CASE plan[i].state # "prepared"
  <2> DEFINE P == Prepared(UserOf[d], m, drawn + 1)
  <2>1. plan' = [plan EXCEPT ![i] = P] /\ drawn' = drawn + 1 /\ plan[i].state = "none"
    BY <1>3, PlanParts DEF Plan
  <2>2. /\ P \in Plan /\ P.state = "prepared" /\ P.user \in Users /\ P.manifest = m
        /\ P.checkpoint = drawn + 1 /\ drawn \in Nat
    <3>1. drawn + 1 \in Nat /\ drawn \in Nat /\ UserOf[d] \in Users
      BY DevicesAssumption DEF IInv, StoreTypeOK
    <3> QED
      BY <3>1, NewPlan
  <2> HIDE DEF P
  <2>3. \A j \in Imports : plan'[j] = IF j = i THEN P ELSE plan[j]
    BY <2>1 DEF IInv, StoreTypeOK
  <2>4. offers' \in SUBSET Offer
    <3>1. [import |-> i, manifest |-> m, checkpoint |-> plan'[i].checkpoint] \in Offer
      BY <2>2, <2>3 DEF Offer
    <3> QED
      BY <3>1 DEF IInv, StoreTypeOK
  <2>5. StoreTypeOK'
    BY <2>1, <2>2, <2>4 DEF IInv, StoreTypeOK, dataVars, scopeVars
  <2>6. AllOrNothing' /\ WrittenIsThere' /\ WrittenOnce' /\ LabelsAreUnique'
    BY <2>1, <2>2, <2>3 DEF IInv, Outcome, AllOrNothing, WrittenIsThere, WrittenOnce, LabelsAreUnique,
                      dataVars
  <2>7. ReceiptsAreTrue'
    <3>1. \A r \in receipts : r.import \in Imports /\ r.import # i
      BY <2>1 DEF IInv, StoreTypeOK, Receipt, Outcome, ReceiptsAreTrue
    <3> QED
      BY <2>3, <3>1 DEF IInv, Outcome, ReceiptsAreTrue, ReceiptOf
  <2>8. PlansAreFresh'
    <3>1. \A c \in withdrawn : c \in Nat /\ c <= drawn
      BY DEF IInv, StoreTypeOK, Outcome, PlansAreFresh
    <3>2. \A j \in Imports : plan[j].state # "none" => plan[j].checkpoint \in Nat /\ plan[j].checkpoint <= drawn
      BY PlanParts DEF IInv, Outcome, PlansAreFresh
    <3> QED
      BY <2>1, <2>2, <2>3, <3>1, <3>2 DEF IInv, Outcome, PlansAreFresh
  <2> QED
    BY <1>1, <2>5, <2>6, <2>7, <2>8 DEF IInv, Outcome
<1> QED
  BY <1>2, <1>3

-----------------------------------------------------------------------------
(* What others do *)

\* Everything but the rows and what depends on them stays.
LEMMA RowsKeep ==
    ASSUME IInv, TablesFree, row' \in [Rows -> {"none", "live", "deleted", "elsewhere"}],
           \A x \in Rows : row[x] # "none" => row'[x] # "none",
           LabelsAreUnique', log' = log + 1,
           UNCHANGED <<planVars, answerVars, archive, high, written, scopeVars, handler>>
    PROVE  IInv'
<1>1. StoreTypeOK'
  BY DEF IInv, StoreTypeOK, planVars, answerVars, scopeVars
<1>2. Locks'
  <2>1. Holding' = Holding /\ \A k \in Handlers : ~At(k, "write")'
    BY DEF Holding, TablesFree, At
  <2> QED
    BY <2>1 DEF IInv, Locks, HoldersAreCurrent, OneHolder, WritersAreClear, Import, OfferOf,
                ImportIdentity, planVars, scopeVars
<1>3. (PlansAreFresh /\ WrittenOnce /\ AllOrNothing /\ ReceiptsAreTrue)'
  BY DEF IInv, Outcome, PlansAreFresh, WrittenOnce, AllOrNothing, ReceiptsAreTrue, ReceiptOf,
         planVars, answerVars
<1>4. WrittenIsThere'
  BY DEF IInv, Outcome, WrittenIsThere
<1> QED
  BY <1>1, <1>2, <1>3, <1>4 DEF IInv, Outcome

LEMMA PutKeeps ==
    ASSUME IInv, NEW x \in Rows, Put(x)
    PROVE  IInv'
<1> USE DEF Put
<1>1. \A y \in Rows : row'[y] = IF y = x THEN "live" ELSE row[y]
  BY DEF IInv, StoreTypeOK
<1>2. LabelsAreUnique'
  <2> SUFFICES ASSUME NEW K \in {Categories, Reminders}, NEW y \in K, NEW z \in K,
                      row'[y] = "live", row'[z] = "live", Label[y] = Label[z]
               PROVE  y = z
    BY DEF LabelsAreUnique
  <2>1. y \in Rows /\ z \in Rows
    BY RowsAssumption
  <2> QED
    BY <1>1, <2>1 DEF IInv, Outcome, LabelsAreUnique
<1>3. row' \in [Rows -> {"none", "live", "deleted", "elsewhere"}]
  BY DEF IInv, StoreTypeOK
<1> QED
  BY <1>1, <1>2, <1>3, RowsKeep

LEMMA RemoveKeeps ==
    ASSUME IInv, NEW x \in Rows, Remove(x)
    PROVE  IInv'
<1> USE DEF Remove
<1>1. \A y \in Rows : row'[y] = IF y = x THEN "deleted" ELSE row[y]
  BY DEF IInv, StoreTypeOK
<1>2. LabelsAreUnique'
  BY <1>1, RowsAssumption DEF IInv, Outcome, LabelsAreUnique
<1>3. row' \in [Rows -> {"none", "live", "deleted", "elsewhere"}]
  BY DEF IInv, StoreTypeOK
<1> QED
  BY <1>1, <1>2, <1>3, RowsKeep

\* Who is not under a share lock may lose the right to import.
LEMMA ScopeKeeps ==
    ASSUME IInv, current' \in SUBSET Users, revoked' \in SUBSET Devices,
           bootstrapped' \in SUBSET (Devices \X Workspaces), unsettled' \in SUBSET Devices,
           \A h \in Holding : ImportIdentity(handler[h].device)',
           UNCHANGED <<planVars, answerVars, dataVars, handler>>
    PROVE  IInv'
<1>1. StoreTypeOK'
  BY DEF IInv, StoreTypeOK, planVars, answerVars, dataVars
<1>2. Holding' = Holding
  BY DEF Holding
<1>3. HoldersAreCurrent' /\ OneHolder'
  BY <1>2 DEF IInv, Locks, HoldersAreCurrent, OneHolder, ImportIdentity, Import, OfferOf, planVars
<1>4. WritersAreClear'
  <2> SUFFICES ASSUME NEW k \in Handlers, At(k, "write")' PROVE Clear(Manifest(k))'
    BY DEF WritersAreClear
  <2>1. At(k, "write") /\ Manifest(k)' = Manifest(k)
    BY DEF At, Manifest, Import, planVars
  <2> QED
    BY <2>1 DEF IInv, Locks, WritersAreClear, Clear, Overlap, NameTaken, MissingDependency,
                NameRepeated, ScopeTaken, ReuseMismatch, dataVars
<1> QED
  BY <1>1, <1>3, <1>4, OutcomeStays DEF IInv, Locks

LEMMA OthersKeep ==
    ASSUME IInv,
           \/ \E u \in Users : SwitchFamily(u)
           \/ \E d \in Devices : Revoke(d) \/ Sync(d) \/ \E w \in Workspaces : Bootstrap(d, w)
    PROVE  IInv'
<1>1. \A h \in Holding : ImportIdentity(handler[h].device)
  BY DEF IInv, Locks, HoldersAreCurrent
<1>2. ASSUME NEW u \in Users, SwitchFamily(u) PROVE IInv'
  <2>1. \A h \in Holding : ImportIdentity(handler[h].device)'
    BY <1>1, <1>2 DEF SwitchFamily, HeldUser, ImportIdentity
  <2> QED
    BY <1>2, <2>1, ScopeKeeps DEF SwitchFamily, IInv, StoreTypeOK
<1>3. ASSUME NEW d \in Devices, Revoke(d) PROVE IInv'
  <2>1. \A h \in Holding : ImportIdentity(handler[h].device)'
    BY <1>1, <1>3 DEF Revoke, Held, ImportIdentity
  <2> QED
    BY <1>3, <2>1, ScopeKeeps DEF Revoke, IInv, StoreTypeOK
<1>4. ASSUME NEW d \in Devices, Sync(d) PROVE IInv'
  <2>1. \A h \in Holding : ImportIdentity(handler[h].device)'
    BY <1>1, <1>4 DEF Sync, ImportIdentity
  <2> QED
    BY <1>4, <2>1, ScopeKeeps DEF Sync, IInv, StoreTypeOK
<1>5. ASSUME NEW d \in Devices, NEW w \in Workspaces, Bootstrap(d, w) PROVE IInv'
  <2>1. \A h \in Holding : ImportIdentity(handler[h].device)'
    BY <1>1, <1>5 DEF Bootstrap, ImportIdentity
  <2>2. bootstrapped' \in SUBSET (Devices \X Workspaces)
    BY <1>5 DEF Bootstrap, IInv, StoreTypeOK
  <2> QED
    BY <1>5, <2>1, <2>2, ScopeKeeps DEF Bootstrap, IInv, StoreTypeOK
<1> QED
  BY <1>2, <1>3, <1>4, <1>5

-----------------------------------------------------------------------------
(* The write *)

\* What the transaction at its last step knows.
LEMMA Ready ==
    ASSUME IInv, NEW h \in Handlers, At(h, "write")
    PROVE  /\ Import(h) \in Imports /\ Manifest(h) \in Manifests /\ Clear(Manifest(h))
           /\ plan[Import(h)].state = "prepared"
           /\ Holding = {h}
           /\ Manifest(h).rows \subseteq Rows /\ Manifest(h).history \subseteq Archive
           /\ Cardinality(Manifest(h).rows) \in Nat /\ Cardinality(Manifest(h).history) \in Nat
           /\ \A x \in Contents(Manifest(h)) : x \in Rows \cup Archive
           /\ \A x \in Contents(Manifest(h)), i \in Imports : ~(written[x][i] > 0)
<1>1. h \in Holding
  BY DEF Holding, At
<1>2. Import(h) \in Imports
  BY DEF IInv, StoreTypeOK, Free, Handler, Offer, Import, At
<1>3. plan[Import(h)].state = "prepared" /\ Manifest(h) \in Manifests
  BY <1>1, <1>2, PlanParts DEF IInv, Locks, HoldersAreCurrent, Manifest
<1>4. Clear(Manifest(h)) /\ Holding = {h}
  BY <1>1 DEF IInv, Locks, WritersAreClear, OneHolder
<1>5. /\ Manifest(h).rows \subseteq Rows /\ Manifest(h).history \subseteq Archive
      /\ IsFiniteSet(Manifest(h).rows) /\ IsFiniteSet(Manifest(h).history)
  BY <1>3, ManifestsAssumption
<1>6. Cardinality(Manifest(h).rows) \in Nat /\ Cardinality(Manifest(h).history) \in Nat
  BY <1>5, FS_CardinalityType
<1>7. \A x \in Contents(Manifest(h)) : x \in Rows \cup Archive
  BY <1>5 DEF Contents
<1>8. \A x \in Contents(Manifest(h)), i \in Imports : ~(written[x][i] > 0)
  <2> SUFFICES ASSUME NEW x \in Contents(Manifest(h)), NEW i \in Imports, written[x][i] > 0
               PROVE  FALSE
    OBVIOUS
  <2>1. /\ x \in Manifest(h).rows => row[x] = "none" /\ x \in Rows
        /\ x \in Manifest(h).history => archive[x] = 0 /\ x \in Archive
    BY <1>4, <1>5 DEF Clear, Overlap
  <2>2. (x \in Rows => row[x] # "none") /\ (x \in Archive => archive[x] # 0)
    BY <1>7 DEF IInv, Outcome, WrittenIsThere
  <2> QED
    BY <2>1, <2>2 DEF Contents
<1> QED
  BY <1>2, <1>3, <1>4, <1>5, <1>6, <1>7, <1>8

LEMMA WriteKeeps ==
    ASSUME IInv, NEW h \in Handlers, NEW answered \in BOOLEAN, Write(h, answered)
    PROVE  IInv'
<1> DEFINE m == Manifest(h)
           i == Import(h)
<1> USE DEF Write
<1>0. At(h, "write")
  OBVIOUS
<1>1. /\ i \in Imports /\ m \in Manifests /\ Clear(m) /\ plan[i].state = "prepared"
      /\ Holding = {h} /\ m.rows \subseteq Rows /\ m.history \subseteq Archive
      /\ Cardinality(m.rows) \in Nat /\ Cardinality(m.history) \in Nat
      /\ \A x \in Contents(m) : x \in Rows \cup Archive
      /\ \A x \in Contents(m), j \in Imports : ~(written[x][j] > 0)
  BY <1>0, Ready
<1>2. \A k \in Handlers : handler'[k] = IF k = h THEN Free ELSE handler[k]
  BY DEF Leave, IInv, StoreTypeOK
<1>3. handler' \in [Handlers -> {Free} \cup Handler]
  BY DEF Leave, IInv, StoreTypeOK
<1>4. Locks'
  <2>1. Holding' = {} /\ \A k \in Handlers : ~At(k, "write")'
    BY <1>1, <1>2 DEF Holding, Free, At
  <2> QED
    BY <2>1 DEF Locks, HoldersAreCurrent, OneHolder, WritersAreClear
<1>5. log' \in Nat /\ high' \in Nat /\ log \in Nat /\ high \in Nat
  BY <1>1 DEF Appended, IInv, StoreTypeOK
<1>6. /\ archive' \in [Archive -> Nat]
      /\ \A x \in Archive : /\ x \in m.history => archive'[x] # 0
                            /\ x \notin m.history => archive'[x] = archive[x]
  <2>1. PICK f \in [m.history -> (high + 1)..(high + Cardinality(m.history))] :
          archive' = [x \in Archive |-> IF x \in m.history THEN f[x] ELSE archive[x]]
    BY DEF Appended
  <2>2. \A x \in m.history : f[x] \in Nat /\ f[x] # 0
    BY <2>1, <1>5, <1>1
  <2> QED
    BY <2>1, <2>2, <1>1 DEF IInv, StoreTypeOK
<1>7. \A x \in Rows : row'[x] = IF x \in m.rows THEN "live" ELSE row[x]
  BY DEF Insert
<1>8. /\ \A j \in Imports : j # i => plan'[j] = plan[j]
      /\ plan'[i].state = "completed" /\ plan'[i].user = plan[i].user
      /\ plan'[i].manifest = m /\ plan'[i].checkpoint = plan[i].checkpoint
      /\ plan'[i].log = log' /\ plan'[i].archive = high' /\ plan'[i] \in Plan
  <2>1. plan[i] \in Plan /\ plan \in [Imports -> Plan]
    BY <1>1 DEF IInv, StoreTypeOK
  <2>2. plan' = PlanAfter(h)
    OBVIOUS
  <2> HIDE DEF i, Write
  <2>3. plan'[i] = [plan[i] EXCEPT !.state = "completed", !.log = log', !.archive = high']
    BY <1>1, <2>1, <2>2 DEF PlanAfter, i
  <2>4. \A j \in Imports : j # i => plan'[j] = plan[j]
    BY <2>1, <2>2 DEF PlanAfter, i
  <2>5. plan'[i].manifest = m
    BY <2>1, <2>3 DEF Plan, Manifest, i
  <2> QED
    BY <1>5, <2>1, <2>3, <2>4, <2>5 DEF Plan
<1>9. \A x \in Rows \cup Archive, j \in Imports :
        written'[x][j] = IF x \in Contents(m) /\ j = i THEN written[x][j] + 1 ELSE written[x][j]
  BY DEF IInv, StoreTypeOK, Contents
<1>10. written' \in [Rows \cup Archive -> [Imports -> Nat]]
  BY <1>1 DEF IInv, StoreTypeOK
<1>11. /\ receipts' \in SUBSET Receipt
       /\ \A r \in receipts' :
            r \in receipts \/ r = [import |-> i, manifest |-> m, log |-> log', archive |-> high']
  <2>1. [import |-> i, manifest |-> m, log |-> log', archive |-> high'] \in Receipt
    BY <1>1, <1>5 DEF Receipt
  <2> QED
    BY <2>1 DEF IInv, StoreTypeOK
<1>12. StoreTypeOK'
  <2>1. plan' \in [Imports -> Plan]
    BY <1>1, <1>8 DEF IInv, StoreTypeOK, PlanAfter
  <2>2. row' \in [Rows -> {"none", "live", "deleted", "elsewhere"}]
    BY DEF Insert, IInv, StoreTypeOK
  <2> QED
    BY <1>3, <1>5, <1>6, <1>10, <1>11, <2>1, <2>2 DEF IInv, StoreTypeOK, scopeVars
<1> HIDE DEF Write, m, i
<1>13. PlansAreFresh'
  <2>1. UNCHANGED <<drawn, withdrawn>>
    BY DEF Write
  <2> QED
    BY <1>1, <1>8, <2>1 DEF IInv, Outcome, PlansAreFresh
<1>14. WrittenIsThere'
  <2> SUFFICES ASSUME NEW x \in Rows \cup Archive, NEW j \in Imports, written'[x][j] > 0
               PROVE  (x \in Rows => row'[x] # "none") /\ (x \in Archive => archive'[x] # 0)
    BY DEF WrittenIsThere
  <2>1. CASE x \in Contents(m)
    <3>1. x \in m.rows \/ x \in m.history
      BY <2>1 DEF Contents
    <3>2. x \in m.rows => x \in Rows /\ x \notin Archive
      BY <1>1, RowsAssumption
    <3>3. x \in m.history => x \in Archive /\ x \notin Rows
      BY <1>1, RowsAssumption
    <3>4. x \in Rows => row'[x] # "none"
      BY <1>7, <3>1, <3>3
    <3>5. x \in Archive => archive'[x] # 0
      BY <1>6, <3>1, <3>2
    <3> QED
      BY <3>4, <3>5
  <2>2. CASE x \notin Contents(m)
    <3>1. x \notin m.rows /\ x \notin m.history
      BY <2>2 DEF Contents
    <3>2. written[x][j] > 0
      BY <1>9, <2>2
    <3>3. (x \in Rows => row[x] # "none") /\ (x \in Archive => archive[x] # 0)
      BY <3>2 DEF IInv, Outcome, WrittenIsThere
    <3>4. x \in Rows => row'[x] # "none"
      BY <1>7, <3>1, <3>3
    <3>5. x \in Archive => archive'[x] # 0
      BY <1>6, <3>1, <3>3
    <3> QED
      BY <3>4, <3>5
  <2> QED
    BY <2>1, <2>2
<1>15. \A x \in Contents(m), j \in Imports : written[x][j] = 0
  BY <1>1 DEF IInv, StoreTypeOK
<1>16. WrittenOnce'
  BY <1>1, <1>9, <1>15 DEF IInv, Outcome, WrittenOnce
<1>17. AllOrNothing'
  <2> SUFFICES ASSUME NEW j \in Imports, NEW x \in Rows \cup Archive
               PROVE  written'[x][j] > 0 <=> plan'[j].state = "completed" /\ x \in Contents(plan'[j].manifest)
    BY DEF AllOrNothing, Contents
  <2>0. written[x][j] > 0 <=> plan[j].state = "completed" /\ x \in Contents(plan[j].manifest)
    BY DEF IInv, Outcome, AllOrNothing
  <2>1. CASE j = i
    BY <1>1, <1>8, <1>9, <1>15, <2>0, <2>1
  <2>2. CASE j # i
    BY <1>8, <1>9, <2>0, <2>2
  <2> QED
    BY <2>1, <2>2
<1>18. ReceiptsAreTrue'
  <2>1. \A r \in receipts : r.import \in Imports /\ r.import # i
    BY <1>1 DEF IInv, StoreTypeOK, Receipt, Outcome, ReceiptsAreTrue
  <2>2. ASSUME NEW r \in receipts' PROVE plan'[r.import].state = "completed" /\ r = ReceiptOf(r.import)'
    <3>1. CASE r \in receipts
      BY <1>8, <2>1, <3>1 DEF IInv, Outcome, ReceiptsAreTrue, ReceiptOf
    <3>2. CASE r = [import |-> i, manifest |-> m, log |-> log', archive |-> high']
      BY <1>8, <3>2 DEF ReceiptOf
    <3> QED
      BY <1>11, <3>1, <3>2
  <2> QED
    BY <2>2 DEF ReceiptsAreTrue
<1>19. LabelsAreUnique'
  <2> SUFFICES ASSUME NEW K \in {Categories, Reminders}, NEW x \in K, NEW y \in K,
                      row'[x] = "live", row'[y] = "live", Label[x] = Label[y], x # y
               PROVE  FALSE
    BY DEF LabelsAreUnique
  <2>1. x \in Rows /\ y \in Rows
    BY RowsAssumption
  <2>2. ~(row[x] = "live" /\ row[y] = "live")
    BY DEF IInv, Outcome, LabelsAreUnique
  <2>3. CASE K = Categories
    BY <1>1, <1>7, <2>1, <2>2, <2>3 DEF Clear, NameTaken, NameRepeated
  <2>4. CASE K = Reminders
    BY <1>1, <1>7, <2>1, <2>2, <2>4 DEF Clear, ScopeTaken
  <2> QED
    BY <2>3, <2>4
<1> QED
  BY <1>4, <1>12, <1>13, <1>14, <1>16, <1>17, <1>18, <1>19 DEF IInv, Outcome

-----------------------------------------------------------------------------
(* The specification *)

LEMMA ConfirmKeeps ==
    ASSUME IInv, NEW h \in Handlers, Confirm(h) \/ Lose(h)
    PROVE  IInv'
<1>1. CASE Refuse(h) \/ WriteRefused(h) \/ Lose(h)
  BY <1>1, LeaveKeeps DEF Refuse, WriteRefused, Lose
<1>2. CASE Repeat(h)
  BY <1>2, RepeatKeeps
<1>3. CASE Open(h)
  <2>1. handler[h].at # "idle" /\ Go(h, "lock") /\ LockFree /\ Confirmable(h) /\ ~Done(h)
    BY <1>3 DEF Open, At
  <2> QED
    BY <1>3, <2>1, GoKeeps DEF Open
<1>4. CASE LockTables(h)
  <2>1. handler[h].at # "idle" /\ Go(h, "recheck") /\ h \in Holding
    BY <1>4 DEF LockTables, At, Holding
  <2> QED
    BY <1>4, <2>1, GoKeeps DEF LockTables
<1>5. CASE Recheck(h)
  <2>1. CASE Blocked(handler[h].device, Manifest(h), TRUE)
    BY <1>5, <2>1, LeaveKeeps DEF Recheck
  <2>2. CASE ~Blocked(handler[h].device, Manifest(h), TRUE)
    <3>1. handler[h].at # "idle" /\ Go(h, "write") /\ h \in Holding
      BY <1>5, <2>2 DEF Recheck, At, Holding
    <3>2. Clear(Manifest(h))
      BY <2>2 DEF Blocked, Clear
    <3> QED
      BY <1>5, <3>1, <3>2, GoKeeps DEF Recheck
  <2> QED
    BY <2>1, <2>2
<1>6. CASE \E answered \in BOOLEAN : Write(h, answered)
  BY <1>6, WriteKeeps
<1> QED
  BY <1>1, <1>2, <1>3, <1>4, <1>5, <1>6 DEF Confirm

LEMMA ReadPageKeeps ==
    ASSUME IInv, ReadPage
    PROVE  IInv'
<1>1. Locks' /\ Outcome'
  BY LocksStay, OutcomeStays DEF ReadPage, IInv
<1> QED
  BY <1>1 DEF ReadPage, IInv, StoreTypeOK, planVars, answerVars, dataVars, scopeVars

LEMMA StutterKeeps ==
    ASSUME IInv, UNCHANGED vars
    PROVE  IInv'
<1>1. Locks' /\ Outcome'
  BY LocksStay, OutcomeStays DEF IInv, vars
<1> QED
  BY <1>1 DEF vars, IInv, StoreTypeOK, planVars, answerVars, dataVars, scopeVars

LEMMA NextIInv == IInv /\ [ImportNext]_vars => IInv'
<1> SUFFICES ASSUME IInv, [ImportNext]_vars PROVE IInv'
  OBVIOUS
<1>1. ASSUME NEW d \in Devices, NEW i \in Imports, GetReceipt(d, i) PROVE IInv'
  BY <1>1, GetReceiptKeeps
<1>2. ASSUME NEW d \in Devices, NEW i \in Imports, NEW m \in Manifests, Preflight(d, i, m)
      PROVE  IInv'
  BY <1>2, PreflightDoneKeeps, PreflightBlockedKeeps, PreflightReadyKeeps DEF Preflight
<1>3. ASSUME NEW h \in Handlers, NEW d \in Devices, NEW o \in offers, Start(h, d, o) PROVE IInv'
  BY <1>3, StartKeeps
<1>4. ASSUME NEW h \in Handlers, Confirm(h) \/ Lose(h) PROVE IInv'
  BY <1>4, ConfirmKeeps
<1>5. ASSUME NEW x \in Rows, Put(x) \/ Remove(x) PROVE IInv'
  BY <1>5, PutKeeps, RemoveKeeps
<1>6. CASE \/ \E u \in Users : SwitchFamily(u)
           \/ \E d \in Devices : Revoke(d) \/ Sync(d) \/ \E w \in Workspaces : Bootstrap(d, w)
  BY <1>6, OthersKeep
<1>7. CASE ReadPage
  BY <1>7, ReadPageKeeps
<1>8. CASE UNCHANGED vars
  BY <1>8, StutterKeeps
<1> QED
  BY <1>1, <1>2, <1>3, <1>4, <1>5, <1>6, <1>7, <1>8 DEF ImportNext

LEMMA IInvHolds == ImportSpec => []IInv
BY InitIInv, NextIInv, PTL DEF ImportSpec

\* Every value the store, the handlers and the answers take has its type.
THEOREM StoreTypes == ImportSpec => []StoreTypeOK
<1>1. IInv => StoreTypeOK
  BY DEF IInv
<1> QED
  BY <1>1, IInvHolds, PTL

\* However many confirmations of however many imports race, are repeated or lose
\* their answer, a row of a backup is written once and by one of them.
THEOREM RowsAreWrittenOnce == ImportSpec => []WrittenOnce
<1>1. IInv => WrittenOnce
  BY DEF IInv, Outcome
<1> QED
  BY <1>1, IInvHolds, PTL

\* A completed import wrote the frozen manifest whole, any other import nothing.
THEOREM ImportsAreWhole == ImportSpec => []AllOrNothing
<1>1. IInv => AllOrNothing
  BY DEF IInv, Outcome
<1> QED
  BY <1>1, IInvHolds, PTL

\* A completed receipt that was answered is what any later answer says.
THEOREM ReceiptsStayTrue == ImportSpec => []ReceiptsAreTrue
<1>1. IInv => ReceiptsAreTrue
  BY DEF IInv, Outcome
<1> QED
  BY <1>1, IInvHolds, PTL

\* Live categories and reminders are told apart by their labels.
THEOREM LabelsStayUnique == ImportSpec => []LabelsAreUnique
<1>1. IInv => LabelsAreUnique
  BY DEF IInv, Outcome
<1> QED
  BY <1>1, IInvHolds, PTL

\* All of it, together: what a family has after any number of imports is sound.
THEOREM ImportsAreSound == ImportSpec => []ImportIsSound
<1>1. IInv => ImportIsSound
  BY DEF IInv, Outcome, ImportIsSound
<1> QED
  BY <1>1, IInvHolds, PTL

\* A confirmation past its checks carries out the plan it names, which no later
\* preflight withdrew.
THEOREM NoStaleConfirmation == ImportSpec => []WithdrawnStaysWithdrawn
<1>1. IInv => WithdrawnStaysWithdrawn
  <2> SUFFICES ASSUME IInv, NEW h \in Holding
               PROVE  /\ handler[h].offer = OfferOf(Import(h))
                      /\ handler[h].offer.checkpoint \notin withdrawn
    BY DEF WithdrawnStaysWithdrawn
  <2>1. h \in Handlers /\ At(h, handler[h].at) /\ handler[h].at # "idle"
    BY DEF Holding, At
  <2>2. Import(h) \in Imports
    BY <2>1 DEF IInv, StoreTypeOK, Free, Handler, Offer, Import
  <2>3. handler[h].offer = OfferOf(Import(h)) /\ plan[Import(h)].state = "prepared"
    BY DEF IInv, Locks, HoldersAreCurrent
  <2>4. OfferOf(Import(h)).checkpoint \notin withdrawn
    BY <2>2, <2>3 DEF OfferOf, IInv, Outcome, PlansAreFresh
  <2> QED
    BY <2>3, <2>4
<1> QED
  BY <1>1, IInvHolds, PTL

-----------------------------------------------------------------------------
(* What a write finds *)

Completes(i) == plan[i].state # "completed" /\ plan'[i].state = "completed"

Sound(i) ==
    /\ plan'[i].user \in current \cap Admins
    /\ \E d \in Devices \ revoked : UserOf[d] = plan'[i].user
    /\ \A x \in plan'[i].manifest.rows :
         /\ row[x] = "none"
         /\ Parent[x] # NoRow => row'[Parent[x]] = "live"

\* Only the write completes a plan.
LEMMA OthersCompleteNothing ==
    ASSUME IInv, [ImportNext]_vars, NEW i \in Imports, Completes(i)
    PROVE  \E h \in Handlers, answered \in BOOLEAN : Write(h, answered)
<1> SUFFICES ASSUME ~ \E h \in Handlers, answered \in BOOLEAN : Write(h, answered)
             PROVE  plan'[i] = plan[i] \/ plan'[i].state \in {"none", "prepared"}
  BY DEF Completes
<1>1. ASSUME NEW d \in Devices, NEW j \in Imports, NEW m \in Manifests, Preflight(d, j, m)
      PROVE  plan'[i] = plan[i] \/ plan'[i].state \in {"none", "prepared"}
  <2>1. CASE PreflightDone(d, j, m)
    BY <2>1 DEF PreflightDone, planVars
  <2>2. ASSUME NEW settled \in BOOLEAN, PreflightBlocked(d, j, m, settled)
        PROVE  plan'[i] = plan[i] \/ plan'[i].state \in {"none", "prepared"}
    BY <2>2 DEF PreflightBlocked, DropPrepared, NoPlan, IInv, StoreTypeOK
  <2>3. ASSUME NEW settled \in BOOLEAN, NEW answered \in BOOLEAN,
               PreflightReady(d, j, m, settled, answered)
        PROVE  plan'[i] = plan[i] \/ plan'[i].state \in {"none", "prepared"}
    BY <2>3 DEF PreflightReady, Prepared, IInv, StoreTypeOK
  <2> QED
    BY <1>1, <2>1, <2>2, <2>3 DEF Preflight
<1>2. ASSUME NEW h \in Handlers, Confirm(h) \/ Lose(h) PROVE plan'[i] = plan[i]
  BY <1>2 DEF Confirm, Refuse, Repeat, Open, LockTables, Recheck, WriteRefused, Lose, planVars
<1>3. ASSUME NEW d \in Devices, NEW j \in Imports, GetReceipt(d, j) PROVE plan'[i] = plan[i]
  BY <1>3 DEF GetReceipt, planVars
<1>4. ASSUME NEW h \in Handlers, NEW d \in Devices, NEW o \in offers, Start(h, d, o)
      PROVE  plan'[i] = plan[i]
  BY <1>4 DEF Start, planVars
<1>5. ASSUME NEW x \in Rows, Put(x) \/ Remove(x) PROVE plan'[i] = plan[i]
  BY <1>5 DEF Put, Remove, planVars
<1>6. CASE \/ \E u \in Users : SwitchFamily(u)
           \/ \E d \in Devices : Revoke(d) \/ Sync(d) \/ \E w \in Workspaces : Bootstrap(d, w)
           \/ ReadPage
  BY <1>6 DEF SwitchFamily, Revoke, Sync, Bootstrap, ReadPage, planVars
<1>7. CASE UNCHANGED vars
  BY <1>7 DEF vars, planVars
<1> QED
  BY <1>1, <1>2, <1>3, <1>4, <1>5, <1>6, <1>7 DEF ImportNext

LEMMA WriteIsSound ==
    ASSUME IInv, NEW h \in Handlers, NEW answered \in BOOLEAN, Write(h, answered),
           NEW i \in Imports, Completes(i)
    PROVE  Sound(i)
<1> DEFINE m == Manifest(h)
<1>0. At(h, "write") /\ h \in Holding
  BY DEF Write, At, Holding
<1>1. /\ Import(h) \in Imports /\ Clear(m) /\ m \in Manifests /\ m.rows \subseteq Rows
  BY <1>0, Ready
<1>2. ImportIdentity(handler[h].device) /\ plan[Import(h)].user = UserOf[handler[h].device]
  BY <1>0 DEF IInv, Locks, HoldersAreCurrent
<1>3. handler[h].device \in Devices
  BY <1>0 DEF IInv, StoreTypeOK, Free, Handler, At
<1>4. plan' = PlanAfter(h) /\ row' = Insert(m)
  BY DEF Write
<1>5. i = Import(h)
  BY <1>1, <1>4 DEF PlanAfter, Completes, IInv, StoreTypeOK
<1>6. plan'[i].user = plan[i].user /\ plan'[i].manifest = m
  BY <1>1, <1>4, <1>5 DEF PlanAfter, Manifest, IInv, StoreTypeOK, Plan
<1>7. ASSUME NEW x \in m.rows
      PROVE  row[x] = "none" /\ (Parent[x] # NoRow => row'[Parent[x]] = "live")
  <2>1. row[x] = "none"
    BY <1>1 DEF Clear, Overlap
  <2>2. ASSUME Parent[x] # NoRow PROVE row'[Parent[x]] = "live"
    <3>1. Parent[x] \in Rows
      BY <1>1, <2>2, RowsAssumption
    <3>2. row'[Parent[x]] = IF Parent[x] \in m.rows THEN "live" ELSE row[Parent[x]]
      BY <1>4, <3>1 DEF Insert
    <3>3. Parent[x] \in m.rows \/ row[Parent[x]] = "live"
      BY <1>1, <2>2 DEF Clear, MissingDependency, ReuseMismatch
    <3> QED
      BY <3>2, <3>3
  <2> QED
    BY <2>1, <2>2
<1> QED
  BY <1>2, <1>3, <1>5, <1>6, <1>7 DEF Sound, ImportIdentity

\* When the rows of an import are written its importer still administers the family
\* on a device that is not revoked, no row was there, and every reference is to a
\* live row: for any number of connections, whatever they wait for.
THEOREM EveryWriteIsSound == ImportSpec => WritesAreSound
<1>1. IInv /\ [ImportNext]_vars => [\A i \in Imports : Completes(i) => Sound(i)]_vars
  BY OthersCompleteNothing, WriteIsSound
<1> QED
  BY <1>1, IInvHolds, PTL DEF ImportSpec, WritesAreSound, Completes, Sound

-----------------------------------------------------------------------------
(* Paging *)

\* Every nonempty set of naturals has a smallest element ...
LEMMA SmallestOf ==
    ASSUME NEW S \in SUBSET Nat, S # {}
    PROVE  \E n \in S : \A m \in S : n <= m
<1>1. PICK n \in S : \A m \in S : ~(<<m, n>> \in OpToRel(<, Nat))
  BY NatLessThanWellFounded, WFMin
<1>2. \A m \in S : ~(m < n)
  BY <1>1 DEF OpToRel
<1> QED
  BY <1>2

\* ... and a largest one if it has a bound.
LEMMA LargestOf ==
    ASSUME NEW S \in SUBSET Nat, S # {}, NEW b \in Nat, \A s \in S : s <= b
    PROVE  \E n \in S : \A m \in S : m <= n
<1> DEFINE T == {k \in Nat : \A s \in S : s <= k}
<1>1. PICK k \in T : \A j \in T : k <= j
  BY SmallestOf
<1>2. SUFFICES ASSUME k \notin S PROVE FALSE
  BY <1>1
<1>3. k \in Nat /\ \A s \in S : s \in Nat /\ s < k
  BY <1>2
<1>4. k - 1 \in Nat
  <2>1. PICK s : s \in S
    OBVIOUS
  <2> QED
    BY <1>3, <2>1
<1>5. k - 1 \in T
  BY <1>3, <1>4
<1> QED
  BY <1>1, <1>3, <1>5

\* Cursors are given out upwards, and no reader is ahead of the last one.
ArchiveInv ==
    /\ \A x \in Archive : archive[x] <= high
    /\ IsFiniteSet({x \in Archive : archive[x] > 0})
    /\ reader.after <= high /\ reader.until <= high

ReaderInv == ArchiveInv /\ NothingSkipped

\* The facts of a page that the choice of the next cursor rests on.
LEMMA WaitingFacts ==
    ASSUME StoreTypeOK, ReaderInv
    PROVE  /\ Until \in Nat /\ Until <= high
           /\ IsFiniteSet(Waiting) /\ Page \subseteq Waiting /\ Waiting \subseteq Archive
           /\ \A x \in Archive : archive[x] \in Nat
           /\ \A x \in Waiting : archive[x] > reader.after /\ archive[x] <= Until
<1>1. /\ reader.until \in Nat /\ reader.after \in Nat /\ high \in Nat
      /\ reader.until <= high
      /\ \A x \in Archive : archive[x] \in Nat
  BY DEF StoreTypeOK, ReaderInv, ArchiveInv, NothingSkipped
<1>2. Until \in Nat /\ Until <= high
  BY <1>1 DEF Until
<1>3. Waiting \subseteq {x \in Archive : archive[x] > 0}
  BY <1>1 DEF Waiting
<1>4. IsFiniteSet(Waiting)
  BY <1>3, FS_Subset DEF ReaderInv, ArchiveInv
<1> QED
  BY <1>1, <1>2, <1>4 DEF Waiting, Page

\* A page is all that waits up to one of its cursors.
LEMMA PageIsDense ==
    ASSUME StoreTypeOK, ReaderInv, NEW x \in Waiting, NEW p \in Page, archive[x] <= archive[p]
    PROVE  x \in Page
<1> DEFINE Lower(z) == {y \in Waiting : archive[y] < archive[z]}
<1>1. /\ archive[x] \in Nat /\ archive[p] \in Nat
      /\ \A y \in Waiting : archive[y] \in Nat
      /\ IsFiniteSet(Waiting)
  BY WaitingFacts
<1>2. Lower(x) \in SUBSET Lower(p) /\ Lower(p) \in SUBSET Waiting /\ Lower(x) \in SUBSET Waiting
  BY <1>1
<1>3. Cardinality(Lower(p)) < Limit
  BY DEF Page
<1> HIDE DEF Lower
<1>4. IsFiniteSet(Lower(p)) /\ IsFiniteSet(Lower(x))
  BY <1>1, <1>2, FS_Subset
<1>5. /\ Cardinality(Lower(p)) \in Nat /\ Cardinality(Lower(x)) \in Nat
      /\ Cardinality(Lower(x)) <= Cardinality(Lower(p))
  BY <1>2, <1>4, FS_Subset, FS_CardinalityType
<1>6. Cardinality(Lower(x)) < Limit
  BY <1>3, <1>5, BoundsAssumption
<1> QED
  BY <1>6 DEF Page, Lower

\* If something waits, so does the row of the smallest cursor, and a page has it.
LEMMA PageIsNotEmpty ==
    ASSUME StoreTypeOK, ReaderInv, Waiting # {}
    PROVE  Page # {}
<1> DEFINE S == {archive[x] : x \in Waiting}
<1>1. \A y \in Waiting : archive[y] \in Nat
  BY WaitingFacts
<1>2. S \in SUBSET Nat /\ S # {}
  BY <1>1
<1>3. PICK n \in S : \A m \in S : n <= m
  BY <1>2, SmallestOf
<1>4. PICK x \in Waiting : n = archive[x]
  BY <1>3
<1>5. {y \in Waiting : archive[y] < archive[x]} = {}
  BY <1>1, <1>3, <1>4
<1>6. Cardinality({y \in Waiting : archive[y] < archive[x]}) < Limit
  BY <1>5, FS_EmptySet, BoundsAssumption
<1> QED
  BY <1>6 DEF Page

\* What the next cursor promises: it is no smaller than before and no larger than
\* the archive, and the rows up to it were on this page or on one before.
LEMMA CursorIsCovered ==
    ASSUME StoreTypeOK, ReaderInv
    PROVE  /\ NextCursor \in Nat /\ NextCursor <= high
           /\ \A x \in Archive : archive[x] > 0 /\ archive[x] <= NextCursor =>
                x \in reader.got \cup Page
<1>1. /\ Until \in Nat /\ Until <= high /\ high \in Nat /\ reader.after \in Nat
      /\ \A x \in Archive : archive[x] \in Nat
      /\ \A x \in Archive : archive[x] > 0 /\ archive[x] <= reader.after => x \in reader.got
  BY WaitingFacts DEF ReaderInv, NothingSkipped, StoreTypeOK
<1>2. CASE ~HasMore
  <2>1. NextCursor = Until /\ Page = Waiting
    BY <1>2 DEF NextCursor, HasMore
  <2> QED
    BY <1>1, <2>1 DEF Waiting
<1>3. CASE HasMore
  <2> DEFINE S == {archive[x] : x \in Page}
  <2>1. Page # {} /\ Page \subseteq Waiting /\ Waiting \subseteq Archive
    BY <1>3, PageIsNotEmpty, WaitingFacts DEF HasMore
  <2>2. S \in SUBSET Nat /\ S # {} /\ \A s \in S : s <= Until
    BY <1>1, <2>1, WaitingFacts
  <2>3. \E n \in S : \A m \in S : m <= n
    BY <1>1, <2>2, LargestOf
  <2>4. \E n \in S : \A x \in Page : archive[x] <= n
    BY <2>3
  <2>5. NextCursor \in S /\ \A x \in Page : archive[x] <= NextCursor
    BY <1>3, <2>4 DEF NextCursor
  <2>6. PICK p \in Page : NextCursor = archive[p]
    BY <2>5
  <2>7. NextCursor \in Nat /\ NextCursor <= Until
    BY <2>2, <2>5
  <2>8. ASSUME NEW x \in Archive, archive[x] > 0, archive[x] <= NextCursor
        PROVE  x \in reader.got \cup Page
    <3>1. CASE archive[x] <= reader.after
      BY <1>1, <2>8, <3>1
    <3>2. CASE archive[x] > reader.after
      <4>1. x \in Waiting
        BY <1>1, <2>7, <2>8, <3>2 DEF Waiting
      <4> QED
        BY <2>6, <2>8, <4>1, PageIsDense
    <3> QED
      BY <1>1, <3>1, <3>2
  <2> QED
    BY <1>1, <2>7, <2>8
<1> QED
  BY <1>2, <1>3

LEMMA PagingKeeps ==
    ASSUME StoreTypeOK, ReaderInv, ReadPage
    PROVE  ReaderInv'
<1>1. /\ reader'.after = NextCursor /\ reader'.got = reader.got \cup Page
      /\ reader'.until = (IF HasMore THEN Until ELSE 0)
      /\ archive' = archive /\ high' = high
  BY DEF ReadPage, dataVars
<1>2. /\ Until \in Nat /\ Until <= high /\ high \in Nat /\ reader.got \in SUBSET Archive
      /\ Page \subseteq Archive
  BY WaitingFacts DEF ReaderInv, NothingSkipped, StoreTypeOK
<1>3. reader'.until \in Nat /\ reader'.until <= high
  BY <1>1, <1>2
<1>4. NothingSkipped'
  <2>1. reader' \in [after : Nat, until : Nat, got : SUBSET Archive]
    BY <1>1, <1>2, <1>3, CursorIsCovered DEF ReadPage
  <2> QED
    BY <1>1, <2>1, CursorIsCovered DEF NothingSkipped
<1>5. ArchiveInv'
  BY <1>1, <1>3, CursorIsCovered DEF ReaderInv, ArchiveInv
<1> QED
  BY <1>4, <1>5 DEF ReaderInv

\* What an import appends gets cursors no reader has reached.
LEMMA AppendKeeps ==
    ASSUME IInv, ReaderInv, NEW h \in Handlers, NEW answered \in BOOLEAN, Write(h, answered)
    PROVE  ReaderInv'
<1> DEFINE m == Manifest(h)
           n == Cardinality(m.history)
<1>1. /\ m \in Manifests /\ m.history \subseteq Archive /\ n \in Nat
  BY Ready DEF Write
<1>2. IsFiniteSet(m.history)
  BY <1>1, ManifestsAssumption
<1>3. PICK f \in [m.history -> (high + 1) .. (high + n)] :
           /\ high' = high + n
           /\ archive' = [x \in Archive |-> IF x \in m.history THEN f[x] ELSE archive[x]]
  BY DEF Write, Appended
<1>4. /\ high \in Nat /\ reader' = reader
      /\ \A x \in Archive : archive[x] \in Nat /\ archive[x] <= high
      /\ reader.after \in Nat /\ reader.until \in Nat
      /\ reader.after <= high /\ reader.until <= high
      /\ reader \in [after : Nat, until : Nat, got : SUBSET Archive]
      /\ \A x \in Archive : archive[x] > 0 /\ archive[x] <= reader.after => x \in reader.got
  BY DEF Write, IInv, StoreTypeOK, ReaderInv, ArchiveInv, NothingSkipped
<1> HIDE DEF m, n
<1>5. \A x \in m.history : f[x] \in Nat /\ f[x] > high /\ f[x] <= high'
  BY <1>1, <1>3, <1>4
<1>6. \A x \in Archive : archive'[x] = IF x \in m.history THEN f[x] ELSE archive[x]
  BY <1>3
<1>7. \A x \in Archive : archive'[x] <= high'
  BY <1>1, <1>3, <1>4, <1>5, <1>6
<1>8. IsFiniteSet({x \in Archive : archive'[x] > 0})
  <2> DEFINE old == {x \in Archive : archive[x] > 0}
             new == {x \in Archive : archive'[x] > 0}
  <2>1. IsFiniteSet(old)
    BY DEF ReaderInv, ArchiveInv
  <2>2. IsFiniteSet(old \cup m.history)
    BY <1>2, <2>1, FS_Union
  <2>3. new \in SUBSET (old \cup m.history)
    BY <1>6
  <2> HIDE DEF old, new
  <2>4. IsFiniteSet(new)
    BY <2>2, <2>3, FS_Subset
  <2> QED
    BY <2>4 DEF new
<1>9. ArchiveInv'
  BY <1>1, <1>3, <1>4, <1>7, <1>8 DEF ArchiveInv
<1>10. NothingSkipped'
  BY <1>4, <1>5, <1>6 DEF NothingSkipped
<1> QED
  BY <1>9, <1>10 DEF ReaderInv

\* Every other step leaves the archive and the reader alone.
LEMMA ReaderStep ==
    ASSUME IInv, ReaderInv, [ImportNext]_vars
    PROVE  ReaderInv'
<1>1. CASE ReadPage
  BY <1>1, PagingKeeps DEF IInv
<1>2. ASSUME NEW h \in Handlers, NEW answered \in BOOLEAN, Write(h, answered)
      PROVE  ReaderInv'
  BY <1>2, AppendKeeps
<1>3. CASE UNCHANGED <<archive, high, reader>>
  BY <1>3 DEF ReaderInv, ArchiveInv, NothingSkipped
<1>4. ASSUME ImportNext, ~ReadPage,
             \A h \in Handlers, answered \in BOOLEAN : ~Write(h, answered)
      PROVE  UNCHANGED <<archive, high, reader>>
  <2>1. ASSUME NEW d \in Devices, NEW i \in Imports,
               GetReceipt(d, i) \/ \E m \in Manifests : Preflight(d, i, m)
        PROVE  UNCHANGED <<archive, high, reader>>
    BY <2>1 DEF GetReceipt, Preflight, PreflightDone, PreflightBlocked, PreflightReady, dataVars
  <2>2. ASSUME NEW h \in Handlers,
               (\E d \in Devices, o \in offers : Start(h, d, o)) \/ Confirm(h) \/ Lose(h)
        PROVE  UNCHANGED <<archive, high, reader>>
    BY <1>4, <2>2 DEF Start, Confirm, Refuse, Repeat, Open, LockTables, Recheck, WriteRefused, Lose,
                      dataVars
  <2>3. ASSUME NEW x \in Rows, Put(x) \/ Remove(x)
        PROVE  UNCHANGED <<archive, high, reader>>
    BY <2>3 DEF Put, Remove
  <2>4. CASE \/ \E u \in Users : SwitchFamily(u)
             \/ \E d \in Devices : Revoke(d) \/ Sync(d) \/ \E w \in Workspaces : Bootstrap(d, w)
    BY <2>4 DEF SwitchFamily, Revoke, Sync, Bootstrap, dataVars
  <2> QED
    BY <1>4, <2>1, <2>2, <2>3, <2>4 DEF ImportNext
<1>5. CASE UNCHANGED vars
  BY <1>3, <1>5 DEF vars, dataVars
<1> QED
  BY <1>1, <1>2, <1>3, <1>4, <1>5

LEMMA ReaderInit == ImportInit => ReaderInv
<1> SUFFICES ASSUME ImportInit PROVE ReaderInv
  OBVIOUS
<1>1. \A x \in Archive : archive[x] = 0
  BY DEF ImportInit
<1>2. high = 0 /\ reader = [after |-> 0, until |-> 0, got |-> {}]
  BY DEF ImportInit
<1>3. {x \in Archive : archive[x] > 0} = {}
  BY <1>1
<1> QED
  BY <1>1, <1>2, <1>3, FS_EmptySet DEF ReaderInv, ArchiveInv, NothingSkipped

\* A device that follows the pages of the archive has every row up to its cursor,
\* whatever is imported between two pages and wherever a page is cut.
THEOREM PagesSkipNothing == ImportSpec => []NothingSkipped
<1>1. ReaderInv => NothingSkipped
  BY DEF ReaderInv
<1> QED
  BY <1>1, InitIInv, NextIInv, ReaderInit, ReaderStep, PTL DEF ImportSpec

-----------------------------------------------------------------------------
(* Rows of a manifest *)

\* What a batch has to be for the validation is enough for its table.
LEMMA BatchIsStored ==
    ASSUME NEW r \in Row!BatchRows, Row!Plain(r), Row!Valid(r)
    PROVE  Row!Taken(r)
<1>1. r.entity = "product_batches" /\ r.source \in Row!Texts /\ r.precision \in Row!Texts
  BY DEF Row!BatchRows
<1>2. Row!ValidBatch(r) /\ r.source # "empty" /\ r.precision # "empty"
  BY <1>1 DEF Row!Valid, Row!Plain
<1>3. Row!Inserted(r.source) = "known" /\ Row!Inserted(r.precision) = "known"
  BY <1>1, <1>2 DEF Row!ValidBatch, Row!Texts, Row!Inserted
<1>4. Row!BatchTaken(r)
  BY <1>2, <1>3 DEF Row!ValidBatch, Row!BatchTaken
<1> QED
  BY <1>1, <1>4 DEF Row!Taken

\* A number that is there is an integer, also one out of range.
LEMMA NumberValues ==
    ASSUME NEW n \in Row!Numbers
    PROVE  n.value \in Int
<1>1. CASE n = Row!Absent
  BY <1>1 DEF Row!Absent
<1>2. CASE n \in [present : {TRUE}, value : (-MaxInt - 2)..(MaxInt + 1), whole : BOOLEAN]
  <2>1. n.value \in (-MaxInt - 2)..(MaxInt + 1)
    BY <1>2
  <2> QED
    BY <2>1, BoundsAssumption
<1> QED
  BY <1>1, <1>2 DEF Row!Numbers

\* The same of the stock history, whose adjustments have two names.
LEMMA HistoryIsStored ==
    ASSUME NEW r \in Row!HistoryRows, Row!Plain(r), Row!Valid(r)
    PROVE  Row!Taken(r)
<1>1. /\ r.entity = "history" /\ r.quantity \in Row!Numbers
      /\ r.type \in Row!HistoryTypes \cup {"adjustment", "other"}
  BY DEF Row!HistoryRows
<1>2. Row!ValidHistory(r) /\ r.quantity.value \in Int
  BY <1>1, NumberValues DEF Row!Valid
<1>3. /\ r.quantity.value = 0 => r.type = "discard"
      /\ r.type \in {"intake", "restock"} => r.quantity.value >= 0
      /\ r.type \in {"consume", "discard"} => r.quantity.value <= 0
      /\ r.type # "other"
  BY <1>2 DEF Row!ValidHistory
<1> SUFFICES Row!HistoryTaken(r)
  BY <1>1 DEF Row!Taken
<1>4. CASE r.type \in {"adjust", "adjustment"}
  <2>1. Row!StoredType(r.type) = "adjust" /\ r.quantity.value # 0
    BY <1>3, <1>4 DEF Row!StoredType
  <2> QED
    BY <2>1 DEF Row!HistoryTaken
<1>5. CASE r.type \in {"intake", "restock"}
  <2>1. r.quantity.value > 0
    BY <1>2, <1>3, <1>5
  <2>2. Row!StoredType(r.type) = r.type
    BY <1>5 DEF Row!StoredType
  <2> QED
    BY <1>5, <2>1, <2>2 DEF Row!HistoryTaken
<1>6. CASE r.type = "consume"
  <2>1. r.quantity.value < 0
    BY <1>2, <1>3, <1>6
  <2>2. Row!StoredType(r.type) = r.type
    BY <1>6 DEF Row!StoredType
  <2> QED
    BY <1>6, <2>1, <2>2 DEF Row!HistoryTaken
<1>7. CASE r.type = "discard"
  <2>1. Row!StoredType(r.type) = "discard" /\ r.quantity.value <= 0
    BY <1>3, <1>7 DEF Row!StoredType
  <2> QED
    BY <2>1 DEF Row!HistoryTaken
<1> QED
  BY <1>1, <1>3, <1>4, <1>5, <1>6, <1>7 DEF Row!HistoryTypes

\* The same of names without blanks around them.
LEMMA NameIsStored ==
    ASSUME NEW r \in Row!NamedRows, Row!Plain(r), Row!Valid(r)
    PROVE  Row!Taken(r)
<1>1. /\ r.entity \in {"categories", "products", "shopping_items"}
      /\ r.letters \in Int /\ r.blanks = 0
  BY DEF Row!NamedRows, Row!Plain
<1>2. Row!ValidName(r)
  BY <1>1 DEF Row!Valid
<1>3. r.letters + r.blanks = r.letters
  BY <1>1
<1>4. Row!NameTaken(r)
  BY <1>1, <1>2, <1>3 DEF Row!NameTaken, Row!ValidName
<1> QED
  BY <1>1, <1>4 DEF Row!Taken

\* The same of reminders.
LEMMA ReminderIsStored ==
    ASSUME NEW r \in Row!ReminderRows, Row!Plain(r), Row!Valid(r)
    PROVE  Row!Taken(r)
<1>1. r.entity = "reminder_settings"
  BY DEF Row!ReminderRows
<1>2. Row!Positive(r.threshold) /\ Row!NotNegative(r.days)
  BY <1>1 DEF Row!Valid
<1>3. Row!ReminderTaken(r)
  BY <1>2 DEF Row!ReminderTaken, Row!Positive, Row!NotNegative
<1> QED
  BY <1>1, <1>3 DEF Row!Taken

\* Whatever numbers, names and words a manifest carries: a plan is prepared only
\* with plain rows that the tables take.
THEOREM PreparedRowsAreStored == ImportSpec => []PreparedIsStorable
<1>1. Row!PlainIsStored
  BY BatchIsStored, HistoryIsStored, NameIsStored, ReminderIsStored
     DEF Row!PlainIsStored, Row!AnyRow
<1>2. PreparedIsStorable
  BY <1>1 DEF PreparedIsStorable
<1> QED
  BY <1>2, PTL

=============================================================================
