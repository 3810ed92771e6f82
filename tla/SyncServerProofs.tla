--------------------------- MODULE SyncServerProofs ---------------------------
(***************************************************************************)
(* For every set of devices, entities, names, changes, handlers, resolvers *)
(* and keys, and every bound of the log and of a batch: a pushed change is *)
(* decided once and answered truthfully, the log replays to the tables,    *)
(* and a conflict ends once.                                               *)
(***************************************************************************)
EXTENDS SyncServer, TLAPS

ConstantAssumptions ==
    /\ Devices # {} /\ Names # {} /\ Envelopes # {}
    /\ Envelopes \subseteq
         [change : Changes, key : Keys, op : Operations, entity : Entities,
          base : Nat, name : Names, parent : Entities \cup {NoEntity}]
    /\ BaseCursors \subseteq Nat
    /\ MaxBatch \in Nat \ {0}

LEMMA Constants == ConstantAssumptions
BY EnvelopesAssumption, SomeAssumption, BoundsAssumption DEF ConstantAssumptions

-----------------------------------------------------------------------------
(* The data *)

LEMMA EnvelopeFields ==
    ASSUME NEW e \in Envelopes
    PROVE  /\ e.change \in Changes /\ e.key \in Keys /\ e.op \in Operations
           /\ e.entity \in Entities /\ e.base \in Nat /\ e.name \in Names
BY Constants DEF ConstantAssumptions

\* A change is sent under one key.
LEMMA SameChangeSameKey ==
    ASSUME NEW e \in Envelopes, NEW f \in Envelopes, e.change = f.change
    PROVE  e.key = f.key
BY KeyAssumption

LEMMA Defaults ==
    /\ AnyDevice \in Devices /\ NoName \in Names /\ AnyEnvelope \in Envelopes
    /\ NoRow \in Row /\ NoRecord \in Record /\ NoConflict \in Conflict
    /\ NoRequest \in Request /\ NoResolution \in Resolution
    /\ NoReceipt \in Receipt
<1>1. AnyDevice \in Devices /\ NoName \in Names /\ AnyEnvelope \in Envelopes
  BY Constants DEF ConstantAssumptions, AnyDevice, NoName, AnyEnvelope
<1>2. AnyEnvelope.change \in Changes
  BY <1>1, EnvelopeFields
<1>3. NoRow \in Row /\ NoRecord \in Record /\ NoConflict \in Conflict
  BY <1>1 DEF NoRow, Row, NoRecord, Record, NoOutcome, Outcome, NoConflict, Conflict
<1>4. NoRequest \in Request
  BY <1>1 DEF NoRequest, Request
<1>5. NoResolution \in Resolution /\ NoReceipt \in Receipt
  BY <1>1, <1>2 DEF NoResolution, Resolution, NoReceipt, Receipt
<1>6. QED
  BY <1>1, <1>3, <1>4, <1>5

\* A request holds a non-empty sequence of changes.
LEMMA RequestsAreSequences ==
    ASSUME NEW batch \in Requests
    PROVE  batch \in Seq(Envelopes)
<1>1. PICK n \in 1 .. MaxBatch : batch \in [1 .. n -> Envelopes]
  BY DEF Requests
<1>2. n \in Nat
  BY <1>1, Constants DEF ConstantAssumptions
<1>3. QED
  BY <1>1, <1>2

\* The change a handler works on, and its places in the tables.
LEMMA HandlerFacts ==
    ASSUME TypeOK, NEW h \in Handlers, Serving(h)
    PROVE  /\ push[h] \in Request
           /\ Current(h) \in Envelopes
           /\ Slot(h) \in Devices \X Keys
           /\ Case(h) \in Devices \X Changes
           /\ Tail(push[h].batch) \in Seq(Envelopes)
<1>1. push[h] \in Request
  BY DEF TypeOK
<1>2. push[h].batch \in Seq(Envelopes) /\ push[h].batch # <<>> /\ push[h].device \in Devices
  BY <1>1 DEF Request, Serving
<1>3. Current(h) \in Envelopes /\ Tail(push[h].batch) \in Seq(Envelopes)
  BY <1>2 DEF Current
<1>4. QED
  BY <1>1, <1>2, <1>3, EnvelopeFields DEF Slot, Case

LEMMA AppliedIsRow ==
    ASSUME NEW r \in Row, NEW op, NEW name \in Names
    PROVE  Applied(r, op, name) \in Row
BY DEF Applied, Row

\* RefuseCursor, RefuseMalformed, RefuseUnfit and RefuseCommand differ in their guards only.
Reject(h) ==
    /\ Serving(h)
    /\ ~ledger[Slot(h)].found
    /\ Decide(h, Refused("rejected", 0))
    /\ UNCHANGED <<row, log, conflicts, receipts, revoked, resolver>>

LEMMA Rejections ==
    ASSUME NEW h \in Handlers,
           RefuseCursor(h) \/ RefuseMalformed(h)
          \/ RefuseUnfit(h) \/ RefuseCommand(h)
    PROVE  Reject(h)
BY DEF RefuseCursor, RefuseMalformed, RefuseUnfit, RefuseCommand, Reject, Undecided, Fresh

LEMMA FreshFacts ==
    ASSUME NEW h \in Handlers, Fresh(h)
    PROVE  Serving(h) /\ ~ledger[Slot(h)].found
BY DEF Fresh, Undecided

-----------------------------------------------------------------------------
(* Type correctness *)

LEMMA TypeInit == Init => TypeOK
BY Defaults DEF Init, TypeOK

LEMMA AnswerType ==
    ASSUME TypeOK, NEW h \in Handlers, Serving(h), NEW outcome \in Outcome,
           NEW reused \in BOOLEAN, NEW cursor \in Nat,
           Answer(h, outcome, reused, cursor)
    PROVE  push' \in [Handlers -> Request]
<1>1. push[h] \in Request /\ Current(h) \in Envelopes /\ Tail(push[h].batch) \in Seq(Envelopes)
  BY HandlerFacts
<1> DEFINE answer == [envelope |-> Current(h), outcome |-> outcome, reused |-> reused]
<1>2. Append(push[h].answers, answer)
        \in Seq([envelope : Envelopes, outcome : Outcome, reused : BOOLEAN])
  BY <1>1 DEF Request
<1>3. Larger(push[h].cursor, cursor) \in Nat
  BY <1>1 DEF Request, Larger
<1>4. push' = [push EXCEPT ![h].batch = Tail(push[h].batch),
                           ![h].answers = Append(push[h].answers, answer),
                           ![h].cursor = Larger(push[h].cursor, cursor)]
  BY DEF Answer, TypeOK
<1> HIDE DEF answer
<1>5. QED
  BY <1>1, <1>2, <1>3, <1>4 DEF TypeOK, Request

LEMMA DecideType ==
    ASSUME TypeOK, NEW h \in Handlers, Serving(h), NEW outcome \in Outcome,
           Decide(h, outcome)
    PROVE  /\ push' \in [Handlers -> Request]
           /\ ledger' \in [Devices \X Keys -> Record]
<1>1. outcome.cursor \in Nat
  BY DEF Outcome
<1>2. push' \in [Handlers -> Request]
  BY <1>1, AnswerType DEF Decide
<1>3. Current(h) \in Envelopes
  BY HandlerFacts
<1>4. [found |-> TRUE, envelope |-> Current(h), outcome |-> outcome] \in Record
  BY <1>3 DEF Record
<1>5. ledger' \in [Devices \X Keys -> Record]
  BY <1>4 DEF Decide, TypeOK
<1>6. QED
  BY <1>2, <1>5

LEMMA RefusedIsOutcome ==
    ASSUME TypeOK, NEW status \in {"conflict", "rejected"}, NEW version \in Nat
    PROVE  Refused(status, version) \in Outcome
<1>1. Len(log) \in Nat
  BY DEF TypeOK
<1>2. QED
  BY <1>1 DEF Refused, Outcome

LEMMA LogType ==
    ASSUME TypeOK, NEW d \in Devices, NEW c \in Changes, NEW cause \in {"push", "resolve"},
           NEW x \in Entities, NEW r \in Row,
           log' = Append(log, LogEntry(d, c, cause, x, r))
    PROVE  log' \in Seq(Entry)
<1>1. LogEntry(d, c, cause, x, r) \in Entry
  BY DEF LogEntry, Entry, Row
<1>2. QED
  BY <1>1 DEF TypeOK

\* What Accept writes.
LEMMA AcceptFacts ==
    ASSUME TypeOK, NEW h \in Handlers, Accept(h)
    PROVE  LET e == Current(h)
               r == Applied(row[e.entity], e.op, e.name)
               outcome == [status |-> "accepted", version |-> r.version,
                           cursor |-> Len(log) + 1]
           IN
           /\ Serving(h) /\ ~ledger[Slot(h)].found /\ Applicable(e)
           /\ e \in Envelopes /\ r \in Row /\ outcome \in Outcome
           /\ e.entity \in Entities /\ e.change \in Changes
           /\ push[h].device \in Devices
           /\ row' = [row EXCEPT ![e.entity] = r]
           /\ log' = Append(log, LogEntry(push[h].device, e.change, "push", e.entity, r))
           /\ Decide(h, outcome)
           /\ UNCHANGED <<conflicts, receipts, revoked, resolver>>
<1> DEFINE e == Current(h)
           r == Applied(row[e.entity], e.op, e.name)
<1>1. Serving(h) /\ ~ledger[Slot(h)].found
  BY FreshFacts DEF Accept
<1>2. e \in Envelopes /\ push[h].device \in Devices
  BY <1>1, HandlerFacts DEF Request
<1>3. e.entity \in Entities /\ e.change \in Changes /\ e.name \in Names
  BY <1>2, EnvelopeFields
<1>4. r \in Row
  BY <1>3, AppliedIsRow DEF TypeOK
<1>5. Len(log) + 1 \in Nat
  BY DEF TypeOK
<1>6. [status |-> "accepted", version |-> r.version, cursor |-> Len(log) + 1] \in Outcome
  <2> HIDE DEF r
  <2>1. QED
    BY <1>4, <1>5 DEF Outcome, Row
<1>7. QED
  BY <1>1, <1>2, <1>3, <1>4, <1>6 DEF Accept

LEMMA TypeServe ==
    ASSUME TypeOK, NEW h \in Handlers, Serve(h)
    PROVE  TypeOK'
<1>1. CASE \E d \in Devices, batch \in Requests, base \in BaseCursors :
             StartPush(h, d, batch, base)
  <2>1. PICK d \in Devices, batch \in Requests, base \in BaseCursors :
               StartPush(h, d, batch, base)
    BY <1>1
  <2>2. base \in Nat /\ batch \in Seq(Envelopes)
    BY RequestsAreSequences, Constants DEF ConstantAssumptions
  <2> DEFINE request == [busy |-> TRUE, device |-> d, base |-> base, batch |-> batch,
                         answers |-> <<>>, cursor |-> base]
  <2>3. request \in Request
    BY <2>2 DEF Request
  <2>4. push' = [push EXCEPT ![h] = request]
    BY <2>1 DEF StartPush
  <2> HIDE DEF request
  <2>5. QED
    BY <2>1, <2>3, <2>4 DEF StartPush, TypeOK
<1>2. CASE Replay(h)
  <2>1. ledger[Slot(h)].outcome \in Outcome /\ Len(log) \in Nat
    BY <1>2, HandlerFacts DEF Replay, TypeOK, Record
  <2>2. push' \in [Handlers -> Request]
    BY <1>2, <2>1, AnswerType DEF Replay
  <2>3. QED
    BY <1>2, <2>2 DEF Replay, TypeOK
<1>3. CASE RefuseReusedKey(h)
  <2>1. push[h].base \in Nat
    BY DEF TypeOK, Request
  <2>2. [status |-> "rejected", version |-> 0, cursor |-> push[h].base] \in Outcome
    BY <2>1 DEF Outcome
  <2>3. push' \in [Handlers -> Request]
    BY <1>3, <2>1, <2>2, AnswerType DEF RefuseReusedKey
  <2>4. QED
    BY <1>3, <2>3 DEF RefuseReusedKey, TypeOK
<1>4. CASE RefuseCursor(h) \/ RefuseMalformed(h)
          \/ RefuseUnfit(h) \/ RefuseCommand(h)
  <2>1. Reject(h)
    BY <1>4, Rejections
  <2>2. Refused("rejected", 0) \in Outcome
    BY RefusedIsOutcome
  <2>3. QED
    BY <2>1, <2>2, DecideType DEF Reject, TypeOK
<1>5. CASE Accept(h)
  <2> DEFINE e == Current(h)
             r == Applied(row[e.entity], e.op, e.name)
             outcome == [status |-> "accepted", version |-> r.version,
                         cursor |-> Len(log) + 1]
  <2>1. /\ Serving(h) /\ r \in Row /\ outcome \in Outcome
        /\ e.entity \in Entities /\ e.change \in Changes /\ push[h].device \in Devices
        /\ row' = [row EXCEPT ![e.entity] = r]
        /\ log' = Append(log, LogEntry(push[h].device, e.change, "push", e.entity, r))
        /\ Decide(h, outcome)
        /\ UNCHANGED <<conflicts, receipts, revoked, resolver>>
    BY <1>5, AcceptFacts
  <2> HIDE DEF e, r, outcome
  <2>2. log' \in Seq(Entry)
    BY <2>1, LogType
  <2>3. row' \in [Entities -> Row]
    BY <2>1 DEF TypeOK
  <2>4. QED
    BY <2>1, <2>2, <2>3, DecideType DEF TypeOK
<1>6. CASE RecordConflict(h)
  <2> DEFINE e == Current(h)
             met == IF Stale(e) THEN row[e.entity].version ELSE 0
  <2>1. Serving(h) /\ e \in Envelopes /\ e.entity \in Entities
    BY <1>6, FreshFacts, HandlerFacts, EnvelopeFields DEF RecordConflict
  <2>2. met \in Nat /\ row[e.entity].version \in Nat
    BY <2>1 DEF TypeOK, Row
  <2> DEFINE conflict == [status |-> "open", serverVersion |-> met,
                          envelope |-> e, seen |-> row[e.entity].version]
  <2>3. conflict \in Conflict
    BY <2>1, <2>2 DEF Conflict
  <2>4. /\ conflicts' = [conflicts EXCEPT ![Case(h)] = conflict]
        /\ Decide(h, Refused("conflict", met))
        /\ UNCHANGED <<row, log, receipts, revoked, resolver>>
    BY <1>6 DEF RecordConflict
  <2> HIDE DEF conflict, met
  <2>5. Refused("conflict", met) \in Outcome
    BY <2>2, RefusedIsOutcome
  <2>6. conflicts' \in [Devices \X Changes -> Conflict]
    BY <2>3, <2>4 DEF TypeOK
  <2>7. QED
    BY <2>1, <2>4, <2>5, <2>6, DecideType DEF TypeOK
<1>7. CASE EndPush(h)
  BY <1>7, Defaults DEF EndPush, TypeOK
<1>8. QED
  BY <1>1, <1>2, <1>3, <1>4, <1>5, <1>6, <1>7 DEF Serve

\* A receipt is stored with any action of a resolution.
LEMMA ReceiveType ==
    ASSUME TypeOK, NEW d \in Devices, NEW c \in Changes,
           NEW key \in ResolveKeys \cup {NoKey},
           NEW action \in {"defer", "keep_remote", "apply"},
           Receive(d, c, key, action)
    PROVE  receipts' \in [ResolveKeys -> Receipt]
<1>1. [stored |-> TRUE, device |-> d, change |-> c, action |-> action] \in Receipt
  BY DEF Receipt
<1>2. QED
  BY <1>1 DEF Receive, TypeOK

\* What KeepRemote and WriteResolution do to a conflict.
LEMMA ResolvedType ==
    ASSUME TypeOK, NEW d \in Devices, NEW c \in Changes,
           conflicts' = [conflicts EXCEPT ![<<d, c>>].status = "resolved"]
    PROVE  conflicts' \in [Devices \X Changes -> Conflict]
<1> DEFINE r == [conflicts[<<d, c>>] EXCEPT !.status = "resolved"]
<1>1. conflicts \in [Devices \X Changes -> Conflict] /\ <<d, c>> \in Devices \X Changes
  BY DEF TypeOK
<1>2. r \in Conflict
  BY <1>1 DEF Conflict
<1>3. conflicts' = [conflicts EXCEPT ![<<d, c>>] = r]
  BY <1>1
<1> HIDE DEF r
<1>4. QED
  BY <1>1, <1>2, <1>3

\* What WriteResolution writes.
LEMMA ResolutionFacts ==
    ASSUME TypeOK, NEW s \in Resolvers, WriteResolution(s)
    PROVE  LET job == resolver[s]
               e == conflicts[<<job.device, job.change>>].envelope
               r == Applied(row[e.entity], e.op, job.name)
           IN
           /\ job \in Resolution /\ job.busy
           /\ job.device \in Devices /\ job.change \in Changes
           /\ job.key \in ResolveKeys \cup {NoKey}
           /\ r \in Row /\ e.entity \in Entities
           /\ row' = [row EXCEPT ![e.entity] = r]
           /\ log' = Append(log, LogEntry(job.device, job.change, "resolve", e.entity, r))
           /\ conflicts' = [conflicts EXCEPT ![<<job.device, job.change>>].status = "resolved"]
           /\ Receive(job.device, job.change, job.key, "apply")
           /\ resolver' = [resolver EXCEPT ![s] = NoResolution]
           /\ UNCHANGED <<ledger, revoked, push>>
<1> DEFINE job == resolver[s]
           e == conflicts[<<job.device, job.change>>].envelope
           r == Applied(row[e.entity], e.op, job.name)
<1>1. job \in Resolution /\ job.device \in Devices /\ job.change \in Changes
      /\ job.name \in Names /\ job.key \in ResolveKeys \cup {NoKey}
  BY DEF TypeOK, Resolution
<1>2. e \in Envelopes
  BY <1>1 DEF TypeOK, Conflict
<1>3. e.entity \in Entities
  BY <1>2, EnvelopeFields
<1>4. r \in Row
  BY <1>1, <1>3, AppliedIsRow DEF TypeOK
<1>5. QED
  BY <1>1, <1>2, <1>3, <1>4 DEF WriteResolution

LEMMA TypeResolve ==
    ASSUME TypeOK, Resolve
    PROVE  TypeOK'
<1>1. ASSUME NEW d \in Devices, NEW c \in Changes, NEW key \in ResolveKeys \cup {NoKey},
             Defer(d, c, key)
      PROVE  TypeOK'
  BY <1>1, ReceiveType DEF Defer, TypeOK
<1>2. ASSUME NEW d \in Devices, NEW c \in Changes, NEW key \in ResolveKeys \cup {NoKey},
             KeepRemote(d, c, key)
      PROVE  TypeOK'
  <2>1. receipts' \in [ResolveKeys -> Receipt] /\ conflicts' \in [Devices \X Changes -> Conflict]
    BY <1>2, ReceiveType, ResolvedType DEF KeepRemote
  <2>2. QED
    BY <1>2, <2>1 DEF KeepRemote, TypeOK
<1>3. ASSUME NEW d \in Devices, NEW c \in Changes, NEW key \in ResolveKeys \cup {NoKey},
             NEW s \in Resolvers, NEW name \in Names,
             ReadForResolution(s, d, c, name, key)
      PROVE  TypeOK'
  <2> DEFINE version == row[conflicts[<<d, c>>].envelope.entity].version
             job == [busy |-> TRUE, device |-> d, change |-> c, name |-> name,
                     key |-> key, version |-> version, checked |-> FALSE]
  <2>1. conflicts[<<d, c>>].envelope \in Envelopes
    BY DEF TypeOK, Conflict
  <2>2. version \in Nat
    BY <2>1, EnvelopeFields DEF TypeOK, Row
  <2>3. resolver' = [resolver EXCEPT ![s] = job]
    BY <1>3 DEF ReadForResolution
  <2> HIDE DEF version
  <2>4. job \in Resolution
    BY <2>2 DEF Resolution
  <2> HIDE DEF job
  <2>5. QED
    BY <1>3, <2>3, <2>4 DEF ReadForResolution, TypeOK
<1>4. ASSUME NEW s \in Resolvers, WriteResolution(s)
      PROVE  TypeOK'
  <2> DEFINE job == resolver[s]
             e == conflicts[<<job.device, job.change>>].envelope
             r == Applied(row[e.entity], e.op, job.name)
  <2>1. /\ job.device \in Devices /\ job.change \in Changes
        /\ job.key \in ResolveKeys \cup {NoKey}
        /\ r \in Row /\ e.entity \in Entities
        /\ row' = [row EXCEPT ![e.entity] = r]
        /\ log' = Append(log, LogEntry(job.device, job.change, "resolve", e.entity, r))
        /\ conflicts' = [conflicts EXCEPT ![<<job.device, job.change>>].status = "resolved"]
        /\ Receive(job.device, job.change, job.key, "apply")
        /\ resolver' = [resolver EXCEPT ![s] = NoResolution]
        /\ UNCHANGED <<ledger, revoked, push>>
    BY <1>4, ResolutionFacts
  <2> HIDE DEF job, e, r
  <2>2. log' \in Seq(Entry)
    BY <2>1, LogType
  <2>3. receipts' \in [ResolveKeys -> Receipt] /\ conflicts' \in [Devices \X Changes -> Conflict]
    BY <2>1, ReceiveType, ResolvedType
  <2>4. row' \in [Entities -> Row] /\ resolver' \in [Resolvers -> Resolution]
    BY <2>1, Defaults DEF TypeOK
  <2>5. QED
    BY <2>1, <2>2, <2>3, <2>4 DEF TypeOK
<1>5. ASSUME NEW s \in Resolvers, AbandonResolution(s)
      PROVE  TypeOK'
  BY <1>5, Defaults DEF AbandonResolution, TypeOK
<1>6. ASSUME NEW s \in Resolvers, CheckReferences(s)
      PROVE  TypeOK'
  <2>1. [resolver[s] EXCEPT !.checked = TRUE] \in Resolution
    BY DEF TypeOK, Resolution
  <2>2. QED
    BY <1>6, <2>1 DEF CheckReferences, TypeOK
<1>7. QED
  BY <1>1, <1>2, <1>3, <1>4, <1>5, <1>6 DEF Resolve

LEMMA TypeStep == TypeOK /\ [Next]_vars => TypeOK'
<1> SUFFICES ASSUME TypeOK, [Next]_vars PROVE TypeOK'
  OBVIOUS
<1>1. CASE \E h \in Handlers : Serve(h)
  BY <1>1, TypeServe
<1>2. CASE Resolve
  BY <1>2, TypeResolve
<1>3. CASE \E d \in Devices : Revoke(d)
  BY <1>3 DEF Revoke, TypeOK
<1>4. CASE UNCHANGED vars
  BY <1>4 DEF vars, TypeOK
<1>5. QED
  BY <1>1, <1>2, <1>3, <1>4 DEF Next

\* Rows, log, ledger, conflicts, receipts and every request and resolution
\* under way keep their types, whatever is pushed, retried or resolved.
THEOREM TypeCorrect == Spec => []TypeOK
<1>1. QED
  BY TypeInit, TypeStep, PTL DEF Spec

-----------------------------------------------------------------------------
(* What a step writes *)

\* The steps that write a row, the log or the ledger, and all the others.
LEMMA StepKinds ==
    ASSUME [Next]_vars
    PROVE  \/ \E h \in Handlers : Accept(h)
           \/ \E h \in Handlers : Reject(h)
           \/ \E h \in Handlers : RecordConflict(h)
           \/ \E s \in Resolvers : WriteResolution(s)
           \/ UNCHANGED <<row, log, ledger>>
<1>1. CASE \E h \in Handlers : Serve(h)
  <2>1. PICK h \in Handlers : Serve(h)
    BY <1>1
  <2>2. CASE RefuseCursor(h) \/ RefuseMalformed(h)
          \/ RefuseUnfit(h) \/ RefuseCommand(h)
    BY <2>2, Rejections
  <2>3. CASE \/ \E d \in Devices, batch \in Requests, base \in BaseCursors :
                   StartPush(h, d, batch, base)
             \/ Replay(h) \/ RefuseReusedKey(h) \/ EndPush(h)
    BY <2>3 DEF StartPush, Replay, RefuseReusedKey, EndPush
  <2>4. QED
    BY <2>1, <2>2, <2>3 DEF Serve
<1>2. CASE Resolve
  <2>1. ASSUME NEW d \in Devices, NEW c \in Changes, NEW key \in ResolveKeys \cup {NoKey},
               \/ Defer(d, c, key) \/ KeepRemote(d, c, key)
               \/ \E s \in Resolvers, name \in Names :
                     ReadForResolution(s, d, c, name, key)
        PROVE  UNCHANGED <<row, log, ledger>>
    BY <2>1, Zenon DEF Defer, KeepRemote, ReadForResolution
  <2>2. ASSUME NEW s \in Resolvers, CheckReferences(s) \/ AbandonResolution(s)
        PROVE  UNCHANGED <<row, log, ledger>>
    BY <2>2 DEF CheckReferences, AbandonResolution
  <2>3. QED
    BY <1>2, <2>1, <2>2 DEF Resolve
<1>3. CASE \E d \in Devices : Revoke(d)
  BY <1>3 DEF Revoke
<1>4. CASE UNCHANGED vars
  BY <1>4 DEF vars
<1>5. QED
  BY <1>1, <1>2, <1>3, <1>4 DEF Next

LEMMA EntryFields ==
    ASSUME TypeOK, NEW i \in 1 .. Len(log)
    PROVE  /\ log[i].change \in Changes /\ log[i].device \in Devices
           /\ log[i].cause \in {"push", "resolve"}
<1>1. log[i] \in Entry
  BY DEF TypeOK
<1>2. QED
  BY <1>1 DEF Entry

\* An entry is added behind those of the log.
LEMMA LogGrows ==
    ASSUME TypeOK, NEW d \in Devices, NEW c \in Changes, NEW cause \in {"push", "resolve"},
           NEW x \in Entities, NEW r \in Row,
           log' = Append(log, LogEntry(d, c, cause, x, r))
    PROVE  /\ Len(log) \in Nat
           /\ Len(log') = Len(log) + 1
           /\ \A i \in 1 .. Len(log) : log'[i] = log[i]
           /\ LET entry == log'[Len(log) + 1] IN
              /\ entry.device = d /\ entry.change = c /\ entry.cause = cause
              /\ entry.entity = x /\ entry.version = r.version
              /\ entry.live = r.live /\ entry.name = r.name
<1>1. log \in Seq(Entry)
  BY DEF TypeOK
<1>2. LogEntry(d, c, cause, x, r) \in Entry
  BY DEF LogEntry, Entry, Row
<1>3. log'[Len(log) + 1] = LogEntry(d, c, cause, x, r)
  BY <1>1, <1>2
<1>4. /\ Len(log) \in Nat /\ Len(log') = Len(log) + 1
      /\ \A i \in 1 .. Len(log) : log'[i] = log[i]
  BY <1>1, <1>2
<1>5. QED
  BY <1>3, <1>4 DEF LogEntry

\* One slot of the ledger is filled.
LEMMA LedgerGrows ==
    ASSUME TypeOK, NEW h \in Handlers, Serving(h), NEW outcome \in Outcome,
           Decide(h, outcome)
    PROVE  /\ push[h].device \in Devices /\ Current(h) \in Envelopes
           /\ Current(h).key \in Keys /\ Current(h).change \in Changes
           /\ Slot(h) = <<push[h].device, Current(h).key>>
           /\ ledger'[Slot(h)] = [found |-> TRUE, envelope |-> Current(h),
                                  outcome |-> outcome]
           /\ \A d \in Devices, k \in Keys :
                 <<d, k>> # Slot(h) => ledger'[<<d, k>>] = ledger[<<d, k>>]
<1>1. push[h].device \in Devices /\ Current(h) \in Envelopes /\ Slot(h) \in Devices \X Keys
  BY HandlerFacts DEF Request
<1>2. Current(h).key \in Keys /\ Current(h).change \in Changes
  BY <1>1, EnvelopeFields
<1>3. Slot(h) = <<push[h].device, Current(h).key>>
  BY DEF Slot
<1>4. QED
  BY <1>1, <1>2, <1>3 DEF Decide, TypeOK

\* What Reject writes.
LEMMA RejectFacts ==
    ASSUME TypeOK, NEW h \in Handlers, Reject(h)
    PROVE  LET outcome == Refused("rejected", 0) IN
           /\ Serving(h) /\ ~ledger[Slot(h)].found
           /\ outcome \in Outcome /\ outcome.status = "rejected"
           /\ outcome.cursor = Len(log) /\ Decide(h, outcome)
           /\ UNCHANGED <<row, log, conflicts, receipts, revoked, resolver>>
<1>1. Refused("rejected", 0) \in Outcome
  BY RefusedIsOutcome
<1>2. QED
  BY <1>1 DEF Reject, Refused

\* What RecordConflict writes.
LEMMA ConflictFacts ==
    ASSUME TypeOK, NEW h \in Handlers, RecordConflict(h)
    PROVE  \E outcome \in Outcome, conflict \in Conflict :
             /\ Serving(h) /\ ~ledger[Slot(h)].found
             /\ outcome.status = "conflict" /\ outcome.cursor = Len(log)
             /\ Decide(h, outcome)
             /\ Case(h) \in Devices \X Changes
             /\ conflicts[Case(h)].status = "none" /\ conflict.status = "open"
             /\ conflicts' = [conflicts EXCEPT ![Case(h)] = conflict]
             /\ UNCHANGED <<row, log, receipts, revoked, resolver>>
<1> DEFINE e == Current(h)
           met == IF Stale(e) THEN row[e.entity].version ELSE 0
           conflict == [status |-> "open", serverVersion |-> met,
                        envelope |-> e, seen |-> row[e.entity].version]
<1>1. /\ Serving(h) /\ ~ledger[Slot(h)].found
      /\ e \in Envelopes /\ e.entity \in Entities /\ Case(h) \in Devices \X Changes
  BY FreshFacts, HandlerFacts, EnvelopeFields DEF RecordConflict
<1>2. met \in Nat /\ row[e.entity].version \in Nat
  BY <1>1 DEF TypeOK, Row
<1>3. /\ conflicts[Case(h)].status = "none"
      /\ conflicts' = [conflicts EXCEPT ![Case(h)] = conflict]
      /\ Decide(h, Refused("conflict", met))
      /\ UNCHANGED <<row, log, receipts, revoked, resolver>>
  BY DEF RecordConflict
<1> HIDE DEF met
<1>4. conflict \in Conflict /\ conflict.status = "open"
  BY <1>1, <1>2 DEF Conflict
<1> HIDE DEF conflict
<1>5. /\ Refused("conflict", met) \in Outcome
      /\ Refused("conflict", met).status = "conflict"
      /\ Refused("conflict", met).cursor = Len(log)
  BY <1>2, RefusedIsOutcome DEF Refused
<1>6. QED
  BY <1>1, <1>3, <1>4, <1>5

-----------------------------------------------------------------------------
(* The log and the tables *)

\* A write increments the version and logs the row it leaves.
LEMMA WriteReplays ==
    ASSUME TypeOK, LogReplaysToTables,
           NEW d \in Devices, NEW c \in Changes, NEW cause \in {"push", "resolve"},
           NEW x \in Entities, NEW r \in Row, r.version = row[x].version + 1,
           row' = [row EXCEPT ![x] = r],
           log' = Append(log, LogEntry(d, c, cause, x, r))
    PROVE  LogReplaysToTables'
<1> DEFINE last == Len(log) + 1
<1>1. /\ Len(log) \in Nat /\ Len(log') = last
      /\ \A i \in 1 .. Len(log) : log'[i] = log[i]
      /\ log'[last].entity = x /\ log'[last].version = r.version
      /\ log'[last].live = r.live /\ log'[last].name = r.name
  BY LogGrows
<1>2. \A y \in Entities : row[y].version \in Nat
  BY DEF TypeOK, Row
<1>3. row'[x] = r /\ \A y \in Entities \ {x} : row'[y] = row[y]
  BY DEF TypeOK
<1> SUFFICES ASSUME NEW y \in Entities
             PROVE  LET history == {i \in 1 .. Len(log') : log'[i].entity = y} IN
                    /\ \A v \in 1 .. row'[y].version :
                          \E i \in history : log'[i].version = v
                    /\ \A i, j \in history : i < j => log'[i].version < log'[j].version
                    /\ \A i \in history :
                         /\ log'[i].version \in 1 .. row'[y].version
                         /\ log'[i].version = row'[y].version =>
                              log'[i].live = row'[y].live /\ log'[i].name = row'[y].name
  BY DEF LogReplaysToTables
<1> DEFINE old == {i \in 1 .. Len(log) : log[i].entity = y}
           new == {i \in 1 .. Len(log') : log'[i].entity = y}
<1>4. /\ \A v \in 1 .. row[y].version : \E i \in old : log[i].version = v
      /\ \A i, j \in old : i < j => log[i].version < log[j].version
      /\ \A i \in old :
           /\ log[i].version \in 1 .. row[y].version
           /\ log[i].version = row[y].version =>
                log[i].live = row[y].live /\ log[i].name = row[y].name
  BY DEF LogReplaysToTables
<1>5. old \subseteq new /\ \A i \in old : i < last /\ log'[i] = log[i]
  BY <1>1
<1>6. CASE y # x
  <2>1. new = old
    BY <1>1, <1>6
  <2>2. row'[y] = row[y]
    BY <1>3, <1>6
  <2>3. \A i \in old : log'[i] = log[i]
    BY <1>5
  <2> HIDE DEF old
  <2>4. QED
    BY <2>1, <2>2, <2>3, <1>4
<1>7. CASE y = x
  <2>1. new = old \cup {last} /\ last \notin old
    BY <1>1, <1>7
  <2>2. /\ row'[y] = r /\ row'[y].version = row[y].version + 1
        /\ row[y].version \in Nat
    BY <1>2, <1>3, <1>7
  <2> DEFINE version == row[y].version
  <2> HIDE DEF old, new, last, version
  <2>3. \A v \in 1 .. row'[y].version : \E i \in new : log'[i].version = v
    <3> SUFFICES ASSUME NEW v \in 1 .. row'[y].version
                 PROVE  \E i \in new : log'[i].version = v
      OBVIOUS
    <3>1. CASE v \in 1 .. row[y].version
      BY <3>1, <2>1, <1>4, <1>5
    <3>2. CASE v = row'[y].version
      BY <3>2, <2>1, <2>2, <1>1
    <3>3. v \in 1 .. version \/ v = version + 1
      BY <2>2 DEF version
    <3>4. QED
      BY <3>1, <3>2, <3>3, <2>2 DEF version
  <2>4. \A i, j \in new : i < j => log'[i].version < log'[j].version
    <3> SUFFICES ASSUME NEW i \in new, NEW j \in new, i < j
                 PROVE  log'[i].version < log'[j].version
      OBVIOUS
    <3>1. i \in old /\ i \in 1 .. Len(log)
      BY <2>1, <1>1, <1>5 DEF old, new, last
    <3>2. CASE j \in old
      BY <3>1, <3>2, <1>4, <1>5
    <3>3. CASE j = last
      BY <3>1, <3>3, <2>2, <1>1, <1>2, <1>4, <1>5
    <3>4. QED
      BY <3>2, <3>3, <2>1
  <2>5. \A i \in new : /\ log'[i].version \in 1 .. row'[y].version
                       /\ log'[i].version = row'[y].version =>
                            log'[i].live = row'[y].live /\ log'[i].name = row'[y].name
    <3> SUFFICES ASSUME NEW i \in new
                 PROVE  /\ log'[i].version \in 1 .. row'[y].version
                        /\ log'[i].version = row'[y].version =>
                             log'[i].live = row'[y].live /\ log'[i].name = row'[y].name
      OBVIOUS
    <3>1. CASE i \in old
      <4>1. log'[i] = log[i] /\ log[i].version \in 1 .. version
        BY <3>1, <1>4, <1>5 DEF version
      <4>2. log[i].version \in 1 .. version + 1 /\ log[i].version # version + 1
        BY <4>1, <2>2 DEF version
      <4>3. QED
        BY <4>1, <4>2, <2>2 DEF version
    <3>2. CASE i = last
      BY <3>2, <2>2, <1>1, <1>2
    <3>3. QED
      BY <3>1, <3>2, <2>1
  <2>6. QED
    BY <2>3, <2>4, <2>5 DEF new
<1>8. QED
  BY <1>6, <1>7

LEMMA ReplaysStep ==
    ASSUME TypeOK, LogReplaysToTables, [Next]_vars
    PROVE  LogReplaysToTables'
<1>1. ASSUME NEW h \in Handlers, Accept(h)
      PROVE  LogReplaysToTables'
  <2> DEFINE e == Current(h)
             r == Applied(row[e.entity], e.op, e.name)
  <2>1. /\ r \in Row /\ e.entity \in Entities /\ e.change \in Changes
        /\ push[h].device \in Devices
        /\ row' = [row EXCEPT ![e.entity] = r]
        /\ log' = Append(log, LogEntry(push[h].device, e.change, "push", e.entity, r))
    BY <1>1, AcceptFacts
  <2>2. r.version = row[e.entity].version + 1
    BY DEF Applied
  <2> HIDE DEF e, r
  <2>3. QED
    BY <2>1, <2>2, WriteReplays
<1>2. ASSUME NEW s \in Resolvers, WriteResolution(s)
      PROVE  LogReplaysToTables'
  <2> DEFINE job == resolver[s]
             e == conflicts[<<job.device, job.change>>].envelope
             r == Applied(row[e.entity], e.op, job.name)
  <2>1. /\ r \in Row /\ e.entity \in Entities /\ job.change \in Changes
        /\ job.device \in Devices
        /\ row' = [row EXCEPT ![e.entity] = r]
        /\ log' = Append(log, LogEntry(job.device, job.change, "resolve", e.entity, r))
    BY <1>2, ResolutionFacts
  <2>2. r.version = row[e.entity].version + 1
    BY DEF Applied
  <2> HIDE DEF job, e, r
  <2>3. QED
    BY <2>1, <2>2, WriteReplays
<1>3. CASE UNCHANGED <<row, log>>
  BY <1>3 DEF LogReplaysToTables
<1>4. QED
  BY <1>1, <1>2, <1>3, StepKinds DEF Reject, RecordConflict

\* change_log.change_id is unique among pushed changes.
LEMMA AppliedOnceStep ==
    ASSUME TypeOK, AppliedOnce, [Next]_vars
    PROVE  AppliedOnce'
<1>1. ASSUME NEW h \in Handlers, Accept(h)
      PROVE  AppliedOnce'
  <2> DEFINE e == Current(h)
             r == Applied(row[e.entity], e.op, e.name)
  <2>1. /\ r \in Row /\ e.entity \in Entities /\ e.change \in Changes
        /\ push[h].device \in Devices /\ Applicable(e)
        /\ log' = Append(log, LogEntry(push[h].device, e.change, "push", e.entity, r))
    BY <1>1, AcceptFacts
  <2>2. NotLogged(e.change)
    BY <2>1 DEF Applicable
  <2> HIDE DEF e, r
  <2>3. /\ Len(log) \in Nat /\ Len(log') = Len(log) + 1
        /\ \A i \in 1 .. Len(log) : log'[i] = log[i]
        /\ log'[Len(log) + 1].change = e.change
    BY <2>1, LogGrows
  <2>4. QED
    BY <2>2, <2>3 DEF AppliedOnce, NotLogged
<1>2. ASSUME NEW s \in Resolvers, WriteResolution(s)
      PROVE  AppliedOnce'
  <2> DEFINE job == resolver[s]
             e == conflicts[<<job.device, job.change>>].envelope
             r == Applied(row[e.entity], e.op, job.name)
  <2>1. /\ r \in Row /\ e.entity \in Entities /\ job.change \in Changes
        /\ job.device \in Devices
        /\ log' = Append(log, LogEntry(job.device, job.change, "resolve", e.entity, r))
    BY <1>2, ResolutionFacts
  <2> HIDE DEF job, e, r
  <2>2. /\ Len(log) \in Nat /\ Len(log') = Len(log) + 1
        /\ \A i \in 1 .. Len(log) : log'[i] = log[i]
        /\ log'[Len(log) + 1].cause = "resolve"
    BY <2>1, LogGrows
  <2>3. QED
    BY <2>2 DEF AppliedOnce
<1>3. CASE UNCHANGED log
  BY <1>3 DEF AppliedOnce
<1>4. QED
  BY <1>1, <1>2, <1>3, StepKinds DEF Reject, RecordConflict

-----------------------------------------------------------------------------
(* The ledger *)

\* A step that writes the ledger decides the change of one handler.
LEMMA LedgerStep ==
    ASSUME TypeOK, [Next]_vars
    PROVE  \/ ledger' = ledger
           \/ \E h \in Handlers, outcome \in Outcome :
                /\ Serving(h) /\ ~ledger[Slot(h)].found
                /\ Decide(h, outcome)
<1>1. ASSUME NEW h \in Handlers, Accept(h)
      PROVE  \E outcome \in Outcome :
               Serving(h) /\ ~ledger[Slot(h)].found /\ Decide(h, outcome)
  BY <1>1, AcceptFacts
<1>2. ASSUME NEW h \in Handlers, Reject(h)
      PROVE  \E outcome \in Outcome :
               Serving(h) /\ ~ledger[Slot(h)].found /\ Decide(h, outcome)
  BY <1>2, RejectFacts
<1>3. ASSUME NEW h \in Handlers, RecordConflict(h)
      PROVE  \E outcome \in Outcome :
               Serving(h) /\ ~ledger[Slot(h)].found /\ Decide(h, outcome)
  BY <1>3, ConflictFacts
<1>4. QED
  BY <1>1, <1>2, <1>3, StepKinds DEF WriteResolution

\* An answer that is stored stays as it is.
LEMMA RecordsAreFinal ==
    ASSUME TypeOK, [Next]_vars,
           NEW d \in Devices, NEW k \in Keys, ledger[<<d, k>>].found
    PROVE  ledger'[<<d, k>>] = ledger[<<d, k>>]
<1>1. ASSUME NEW h \in Handlers, NEW outcome \in Outcome,
             Serving(h), ~ledger[Slot(h)].found, Decide(h, outcome)
      PROVE  ledger'[<<d, k>>] = ledger[<<d, k>>]
  <2>1. <<d, k>> # Slot(h)
    BY <1>1
  <2>2. QED
    BY <1>1, <2>1, LedgerGrows
<1>2. QED
  BY <1>1, LedgerStep

LEMMA LedgerKeysStep ==
    ASSUME TypeOK, LedgerKeysMatch, [Next]_vars
    PROVE  LedgerKeysMatch'
<1>1. ASSUME NEW h \in Handlers, NEW outcome \in Outcome,
             Serving(h), ~ledger[Slot(h)].found, Decide(h, outcome)
      PROVE  LedgerKeysMatch'
  <2>1. /\ Slot(h) = <<push[h].device, Current(h).key>>
        /\ ledger'[Slot(h)] = [found |-> TRUE, envelope |-> Current(h),
                               outcome |-> outcome]
        /\ \A d \in Devices, k \in Keys :
              <<d, k>> # Slot(h) => ledger'[<<d, k>>] = ledger[<<d, k>>]
    BY <1>1, LedgerGrows
  <2>2. ASSUME NEW d \in Devices, NEW k \in Keys, ledger'[<<d, k>>].found
        PROVE  ledger'[<<d, k>>].envelope.key = k
    <3>1. CASE <<d, k>> = Slot(h)
      BY <3>1, <2>1
    <3>2. CASE <<d, k>> # Slot(h)
      BY <3>2, <2>1, <2>2 DEF LedgerKeysMatch
    <3>3. QED
      BY <3>1, <3>2
  <2>3. QED
    BY <2>2 DEF LedgerKeysMatch
<1>2. CASE ledger' = ledger
  BY <1>2 DEF LedgerKeysMatch
<1>3. QED
  BY <1>1, <1>2, LedgerStep

\* What the log holds of old stays decided; an accepted change is decided.
LEMMA LoggedStep ==
    ASSUME TypeOK, LoggedIsDecided, [Next]_vars
    PROVE  LoggedIsDecided'
<1> DEFINE Decided(i) ==
      \E k \in Keys :
         /\ ledger'[<<log'[i].device, k>>].found
         /\ ledger'[<<log'[i].device, k>>].envelope.change = log'[i].change
         /\ ledger'[<<log'[i].device, k>>].outcome.status = "accepted"
<1>1. ASSUME NEW i \in 1 .. Len(log), log'[i] = log[i], log[i].cause = "push"
      PROVE  Decided(i)
  <2>1. log[i].device \in Devices
    BY EntryFields
  <2>2. PICK k \in Keys : /\ ledger[<<log[i].device, k>>].found
                          /\ ledger[<<log[i].device, k>>].envelope.change = log[i].change
                          /\ ledger[<<log[i].device, k>>].outcome.status = "accepted"
    BY <1>1 DEF LoggedIsDecided
  <2>3. ledger'[<<log[i].device, k>>] = ledger[<<log[i].device, k>>]
    BY <2>1, <2>2, RecordsAreFinal
  <2>4. QED
    BY <1>1, <2>2, <2>3
<1>2. ASSUME NEW h \in Handlers, Accept(h)
      PROVE  LoggedIsDecided'
  <2> DEFINE e == Current(h)
             r == Applied(row[e.entity], e.op, e.name)
             outcome == [status |-> "accepted", version |-> r.version,
                         cursor |-> Len(log) + 1]
             last == Len(log) + 1
  <2>1. /\ Serving(h) /\ r \in Row /\ outcome \in Outcome
        /\ e.entity \in Entities /\ e.change \in Changes /\ push[h].device \in Devices
        /\ log' = Append(log, LogEntry(push[h].device, e.change, "push", e.entity, r))
        /\ Decide(h, outcome)
    BY <1>2, AcceptFacts
  <2>2. outcome.status = "accepted"
    OBVIOUS
  <2> HIDE DEF r, outcome
  <2>3. /\ Len(log) \in Nat /\ Len(log') = last
        /\ \A i \in 1 .. Len(log) : log'[i] = log[i]
        /\ log'[last].device = push[h].device /\ log'[last].change = e.change
    BY <2>1, LogGrows
  <2>4. Decided(last)
    <3>1. /\ Current(h).key \in Keys /\ Slot(h) = <<push[h].device, Current(h).key>>
          /\ ledger'[Slot(h)] = [found |-> TRUE, envelope |-> Current(h),
                                 outcome |-> outcome]
      BY <2>1, LedgerGrows
    <3>2. QED
      BY <3>1, <2>2, <2>3
  <2> HIDE DEF Decided
  <2>5. \A i \in 1 .. Len(log') : log'[i].cause = "push" => Decided(i)
    BY <1>1, <2>3, <2>4
  <2>6. QED
    BY <2>5 DEF LoggedIsDecided, Decided
<1>3. ASSUME NEW s \in Resolvers, WriteResolution(s)
      PROVE  LoggedIsDecided'
  <2> DEFINE job == resolver[s]
             e == conflicts[<<job.device, job.change>>].envelope
             r == Applied(row[e.entity], e.op, job.name)
             last == Len(log) + 1
  <2>1. /\ r \in Row /\ e.entity \in Entities /\ job.change \in Changes
        /\ job.device \in Devices
        /\ log' = Append(log, LogEntry(job.device, job.change, "resolve", e.entity, r))
    BY <1>3, ResolutionFacts
  <2> HIDE DEF job, e, r
  <2>2. /\ Len(log) \in Nat /\ Len(log') = last
        /\ \A i \in 1 .. Len(log) : log'[i] = log[i]
        /\ log'[last].cause = "resolve"
    BY <2>1, LogGrows
  <2> HIDE DEF Decided
  <2>3. \A i \in 1 .. Len(log') : log'[i].cause = "push" => Decided(i)
    BY <1>1, <2>2
  <2>4. QED
    BY <2>3 DEF LoggedIsDecided, Decided
<1>4. CASE log' = log
  <2> HIDE DEF Decided
  <2>1. \A i \in 1 .. Len(log') : log'[i].cause = "push" => Decided(i)
    BY <1>1, <1>4
  <2>2. QED
    BY <2>1 DEF LoggedIsDecided, Decided
<1>5. QED
  BY <1>2, <1>3, <1>4, StepKinds DEF Reject, RecordConflict

\* A device's entry of the log is decided under the key of its change.
LEMMA LoggedUnderKey ==
    ASSUME TypeOK, LedgerKeysMatch, LoggedIsDecided,
           NEW e \in Envelopes, NEW i \in 1 .. Len(log),
           log[i].cause = "push", log[i].change = e.change
    PROVE  ledger[<<log[i].device, e.key>>].found
<1>1. log[i].device \in Devices
  BY EntryFields
<1>2. PICK k \in Keys : /\ ledger[<<log[i].device, k>>].found
                        /\ ledger[<<log[i].device, k>>].envelope.change = e.change
  BY DEF LoggedIsDecided
<1>3. ledger[<<log[i].device, k>>].envelope \in Envelopes
  BY <1>1 DEF TypeOK, Record
<1>4. ledger[<<log[i].device, k>>].envelope.key = e.key
  BY <1>2, <1>3, SameChangeSameKey
<1>5. k = e.key
  BY <1>1, <1>2, <1>4 DEF LedgerKeysMatch
<1>6. QED
  BY <1>2, <1>5

\* LedgerTellsTheTruth of one slot.
Truthful(d, k) ==
    LET record == ledger[<<d, k>>] IN
    record.found =>
      IF record.outcome.status = "accepted"
        THEN \E i \in 1 .. Len(log) :
                /\ i = record.outcome.cursor
                /\ log[i].cause = "push"
                /\ log[i].device = d
                /\ log[i].change = record.envelope.change
                /\ log[i].version = record.outcome.version
        ELSE \A i \in 1 .. Len(log) :
                log[i].cause = "push" /\ log[i].device = d =>
                  log[i].change # record.envelope.change

\* A stored answer remains true when an entry of another change is logged.
LEMMA TruthOfOldRecord ==
    ASSUME NEW d \in Devices, NEW k \in Keys, Truthful(d, k),
           ledger'[<<d, k>>] = ledger[<<d, k>>],
           Len(log) \in Nat, Len(log') = Len(log) + 1,
           \A i \in 1 .. Len(log) : log'[i] = log[i],
           \/ log'[Len(log) + 1].cause # "push"
           \/ log'[Len(log) + 1].device # d
           \/ log'[Len(log) + 1].change # ledger[<<d, k>>].envelope.change
    PROVE  Truthful(d, k)'
<1>1. CASE ~ledger[<<d, k>>].found
  BY <1>1 DEF Truthful
<1>2. CASE /\ ledger[<<d, k>>].found
           /\ ledger[<<d, k>>].outcome.status = "accepted"
  <2>1. PICK i \in 1 .. Len(log) :
               /\ i = ledger[<<d, k>>].outcome.cursor
               /\ log[i].cause = "push"
               /\ log[i].device = d
               /\ log[i].change = ledger[<<d, k>>].envelope.change
               /\ log[i].version = ledger[<<d, k>>].outcome.version
    BY <1>2 DEF Truthful
  <2>2. i \in 1 .. Len(log') /\ log'[i] = log[i]
    OBVIOUS
  <2>3. QED
    BY <1>2, <2>1, <2>2 DEF Truthful
<1>3. CASE /\ ledger[<<d, k>>].found
           /\ ledger[<<d, k>>].outcome.status # "accepted"
  <2>1. ASSUME NEW i \in 1 .. Len(log'), log'[i].cause = "push", log'[i].device = d
        PROVE  log'[i].change # ledger[<<d, k>>].envelope.change
    <3>1. CASE i \in 1 .. Len(log)
      BY <3>1, <2>1, <1>3 DEF Truthful
    <3>2. CASE i = Len(log) + 1
      BY <3>2, <2>1
    <3>3. QED
      BY <3>1, <3>2
  <2>2. QED
    BY <1>3, <2>1 DEF Truthful
<1>4. QED
  BY <1>1, <1>2, <1>3

\* A change that is refused or recorded as a conflict was never logged for
\* its device: it would have been decided under the same key.
LEMMA TruthOfRefusal ==
    ASSUME TypeOK, LedgerKeysMatch, LoggedIsDecided, LedgerTellsTheTruth,
           NEW h \in Handlers, NEW outcome \in Outcome,
           Serving(h), ~ledger[Slot(h)].found, Decide(h, outcome),
           outcome.status # "accepted", log' = log
    PROVE  LedgerTellsTheTruth'
<1>1. /\ push[h].device \in Devices /\ Current(h) \in Envelopes
      /\ Slot(h) = <<push[h].device, Current(h).key>>
      /\ ledger'[Slot(h)] = [found |-> TRUE, envelope |-> Current(h), outcome |-> outcome]
      /\ \A d \in Devices, k \in Keys :
            <<d, k>> # Slot(h) => ledger'[<<d, k>>] = ledger[<<d, k>>]
  BY LedgerGrows
<1>2. ASSUME NEW i \in 1 .. Len(log), log[i].cause = "push",
             log[i].device = push[h].device
      PROVE  log[i].change # Current(h).change
  BY <1>1, <1>2, LoggedUnderKey
<1>3. ASSUME NEW d \in Devices, NEW k \in Keys
      PROVE  Truthful(d, k)'
  <2>1. CASE <<d, k>> = Slot(h)
    <3>1. d = push[h].device
      BY <2>1, <1>1
    <3>2. QED
      BY <2>1, <3>1, <1>1, <1>2 DEF Truthful
  <2>2. CASE <<d, k>> # Slot(h)
    <3>1. Truthful(d, k)
      BY DEF LedgerTellsTheTruth, Truthful
    <3>2. ledger'[<<d, k>>] = ledger[<<d, k>>]
      BY <2>2, <1>1
    <3>3. QED
      BY <3>1, <3>2 DEF Truthful
  <2>3. QED
    BY <2>1, <2>2
<1>4. QED
  BY <1>3 DEF LedgerTellsTheTruth, Truthful

\* An accepted change is logged at its cursor with its version; every other
\* record of the device is of another change.
LEMMA TruthOfAcceptance ==
    ASSUME TypeOK, LedgerKeysMatch, LedgerTellsTheTruth,
           NEW h \in Handlers, Accept(h)
    PROVE  LedgerTellsTheTruth'
<1> DEFINE e == Current(h)
           r == Applied(row[e.entity], e.op, e.name)
           outcome == [status |-> "accepted", version |-> r.version,
                       cursor |-> Len(log) + 1]
           last == Len(log) + 1
<1>1. /\ Serving(h) /\ ~ledger[Slot(h)].found /\ r \in Row /\ outcome \in Outcome
      /\ e.entity \in Entities /\ e.change \in Changes /\ push[h].device \in Devices
      /\ log' = Append(log, LogEntry(push[h].device, e.change, "push", e.entity, r))
      /\ Decide(h, outcome)
  BY AcceptFacts
<1>2. outcome.status = "accepted" /\ outcome.cursor = last /\ outcome.version = r.version
  OBVIOUS
<1> HIDE DEF r, outcome
<1>3. /\ Len(log) \in Nat /\ Len(log') = last
      /\ \A i \in 1 .. Len(log) : log'[i] = log[i]
      /\ log'[last].device = push[h].device /\ log'[last].change = e.change
      /\ log'[last].cause = "push" /\ log'[last].version = r.version
  BY <1>1, LogGrows
<1>4. /\ e \in Envelopes /\ Slot(h) = <<push[h].device, e.key>>
      /\ ledger'[Slot(h)] = [found |-> TRUE, envelope |-> e, outcome |-> outcome]
      /\ \A d \in Devices, k \in Keys :
            <<d, k>> # Slot(h) => ledger'[<<d, k>>] = ledger[<<d, k>>]
  BY <1>1, LedgerGrows
<1>5. ASSUME NEW d \in Devices, NEW k \in Keys
      PROVE  Truthful(d, k)'
  <2>1. CASE <<d, k>> = Slot(h)
    <3>1. d = push[h].device
      BY <2>1, <1>4
    <3>2. last \in 1 .. Len(log')
      BY <1>3
    <3>3. /\ ledger'[<<d, k>>].outcome = outcome
          /\ ledger'[<<d, k>>].envelope.change = e.change
      BY <2>1, <1>4
    <3> HIDE DEF e, last
    <3>4. \E i \in 1 .. Len(log') :
            /\ i = outcome.cursor
            /\ log'[i].cause = "push" /\ log'[i].device = d
            /\ log'[i].change = e.change /\ log'[i].version = outcome.version
      BY <3>1, <3>2, <1>2, <1>3
    <3>5. QED
      BY <3>3, <3>4, <1>2 DEF Truthful
  <2>2. CASE <<d, k>> # Slot(h) /\ ~ledger[<<d, k>>].found
    BY <2>2, <1>4 DEF Truthful
  <2>3. CASE <<d, k>> # Slot(h) /\ ledger[<<d, k>>].found
    <3>1. Truthful(d, k)
      BY DEF LedgerTellsTheTruth, Truthful
    <3>2. ledger[<<d, k>>].envelope \in Envelopes
      BY DEF TypeOK, Record
    <3>3. ASSUME d = push[h].device, e.change = ledger[<<d, k>>].envelope.change
          PROVE  FALSE
      <4>1. ledger[<<d, k>>].envelope.key = e.key
        BY <1>4, <3>2, <3>3, SameChangeSameKey
      <4>2. k = e.key
        BY <2>3, <4>1 DEF LedgerKeysMatch
      <4>3. QED
        BY <1>4, <2>3, <3>3, <4>2
    <3>4. \/ log'[Len(log) + 1].device # d
          \/ log'[Len(log) + 1].change # ledger[<<d, k>>].envelope.change
      BY <3>3, <1>3
    <3>5. ledger'[<<d, k>>] = ledger[<<d, k>>]
      BY <2>3, <1>4
    <3>6. QED
      BY <3>1, <3>4, <3>5, <1>3, TruthOfOldRecord
  <2>4. QED
    BY <2>1, <2>2, <2>3
<1>6. QED
  BY <1>5 DEF LedgerTellsTheTruth, Truthful

LEMMA TruthStep ==
    ASSUME TypeOK, LedgerKeysMatch, LoggedIsDecided, LedgerTellsTheTruth, [Next]_vars
    PROVE  LedgerTellsTheTruth'
<1>1. ASSUME NEW h \in Handlers, Reject(h)
      PROVE  LedgerTellsTheTruth'
  BY <1>1, RejectFacts, TruthOfRefusal
<1>2. ASSUME NEW h \in Handlers, RecordConflict(h)
      PROVE  LedgerTellsTheTruth'
  <2>1. PICK outcome \in Outcome : /\ Serving(h) /\ ~ledger[Slot(h)].found
                                   /\ outcome.status = "conflict"
                                   /\ Decide(h, outcome) /\ log' = log
    BY <1>2, ConflictFacts
  <2>2. QED
    BY <2>1, TruthOfRefusal
<1>3. ASSUME NEW s \in Resolvers, WriteResolution(s)
      PROVE  LedgerTellsTheTruth'
  <2> DEFINE job == resolver[s]
             e == conflicts[<<job.device, job.change>>].envelope
             r == Applied(row[e.entity], e.op, job.name)
  <2>1. /\ r \in Row /\ e.entity \in Entities /\ job.change \in Changes
        /\ job.device \in Devices
        /\ log' = Append(log, LogEntry(job.device, job.change, "resolve", e.entity, r))
        /\ ledger' = ledger
    BY <1>3, ResolutionFacts
  <2> HIDE DEF job, e, r
  <2>2. /\ Len(log) \in Nat /\ Len(log') = Len(log) + 1
        /\ \A i \in 1 .. Len(log) : log'[i] = log[i]
        /\ log'[Len(log) + 1].cause # "push"
    BY <2>1, LogGrows
  <2>3. ASSUME NEW d \in Devices, NEW k \in Keys
        PROVE  Truthful(d, k)'
    <3>1. Truthful(d, k)
      BY DEF LedgerTellsTheTruth, Truthful
    <3>2. QED
      BY <3>1, <2>1, <2>2, TruthOfOldRecord
  <2>4. QED
    BY <2>3 DEF LedgerTellsTheTruth, Truthful
<1>4. CASE UNCHANGED <<log, ledger>>
  BY <1>4 DEF LedgerTellsTheTruth
<1>5. QED
  BY <1>1, <1>2, <1>3, <1>4, TruthOfAcceptance, StepKinds

-----------------------------------------------------------------------------
(* The conflicts *)

\* A device was answered with a conflict for a change.
AnsweredConflict(d, c) ==
    \E k \in Keys : /\ ledger[<<d, k>>].found
                    /\ ledger[<<d, k>>].envelope.change = c
                    /\ ledger[<<d, k>>].outcome.status = "conflict"

\* The steps that write conflicts, and all the others.
LEMMA ConflictStep ==
    ASSUME [Next]_vars
    PROVE  \/ \E h \in Handlers : RecordConflict(h)
           \/ \E d \in Devices, c \in Changes, key \in ResolveKeys \cup {NoKey} :
                KeepRemote(d, c, key)
           \/ \E s \in Resolvers : WriteResolution(s)
           \/ conflicts' = conflicts
<1>1. CASE \E h \in Handlers : Serve(h)
  BY <1>1 DEF Serve, StartPush, Replay, RefuseReusedKey, RefuseCursor,
              RefuseMalformed, RefuseUnfit, RefuseCommand, Accept, EndPush
<1>2. CASE Resolve
  <2>1. ASSUME NEW d \in Devices, NEW c \in Changes, NEW key \in ResolveKeys \cup {NoKey},
               \/ Defer(d, c, key)
               \/ \E s \in Resolvers, name \in Names :
                     ReadForResolution(s, d, c, name, key)
        PROVE  conflicts' = conflicts
    BY <2>1, Zenon DEF Defer, ReadForResolution
  <2>2. ASSUME NEW s \in Resolvers, CheckReferences(s) \/ AbandonResolution(s)
        PROVE  conflicts' = conflicts
    BY <2>2 DEF CheckReferences, AbandonResolution
  <2>3. QED
    BY <1>2, <2>1, <2>2, Zenon DEF Resolve
<1>3. CASE \E d \in Devices : Revoke(d)
  BY <1>3 DEF Revoke
<1>4. CASE UNCHANGED vars
  BY <1>4 DEF vars
<1>5. QED
  BY <1>1, <1>2, <1>3, <1>4 DEF Next

\* One answer more: it is of the change the handler works on.
LEMMA AnsweredGrows ==
    ASSUME TypeOK, NEW h \in Handlers, NEW outcome \in Outcome,
           Serving(h), ~ledger[Slot(h)].found, Decide(h, outcome),
           NEW d \in Devices, NEW c \in Changes
    PROVE  AnsweredConflict(d, c)' <=>
             \/ AnsweredConflict(d, c)
             \/ <<d, c>> = Case(h) /\ outcome.status = "conflict"
<1>1. /\ Current(h).key \in Keys /\ Slot(h) = <<push[h].device, Current(h).key>>
      /\ ledger'[Slot(h)] = [found |-> TRUE, envelope |-> Current(h), outcome |-> outcome]
      /\ \A i \in Devices, k \in Keys :
            <<i, k>> # Slot(h) => ledger'[<<i, k>>] = ledger[<<i, k>>]
  BY LedgerGrows
<1>2. Case(h) = <<push[h].device, Current(h).change>>
  BY DEF Case
<1>3. ASSUME AnsweredConflict(d, c)
      PROVE  AnsweredConflict(d, c)'
  <2>1. PICK k \in Keys : /\ ledger[<<d, k>>].found
                          /\ ledger[<<d, k>>].envelope.change = c
                          /\ ledger[<<d, k>>].outcome.status = "conflict"
    BY <1>3 DEF AnsweredConflict
  <2>2. ledger'[<<d, k>>] = ledger[<<d, k>>]
    BY <2>1, <1>1
  <2>3. QED
    BY <2>1, <2>2 DEF AnsweredConflict
<1>4. ASSUME <<d, c>> = Case(h), outcome.status = "conflict"
      PROVE  AnsweredConflict(d, c)'
  <2>1. d = push[h].device /\ c = Current(h).change
    BY <1>2, <1>4
  <2>2. /\ ledger'[<<d, Current(h).key>>].found
        /\ ledger'[<<d, Current(h).key>>].envelope.change = c
        /\ ledger'[<<d, Current(h).key>>].outcome.status = "conflict"
    BY <2>1, <1>1, <1>4
  <2>3. QED
    BY <2>2, <1>1 DEF AnsweredConflict
<1>5. ASSUME AnsweredConflict(d, c)', ~AnsweredConflict(d, c)
      PROVE  <<d, c>> = Case(h) /\ outcome.status = "conflict"
  <2>1. PICK k \in Keys : /\ ledger'[<<d, k>>].found
                          /\ ledger'[<<d, k>>].envelope.change = c
                          /\ ledger'[<<d, k>>].outcome.status = "conflict"
    BY <1>5 DEF AnsweredConflict
  <2>2. <<d, k>> = Slot(h)
    BY <2>1, <1>1, <1>5 DEF AnsweredConflict
  <2>3. d = push[h].device
    BY <2>2, <1>1
  <2>4. QED
    BY <2>1, <2>2, <2>3, <1>1, <1>2
<1>6. QED
  BY <1>3, <1>4, <1>5

LEMMA ListedDef ==
    ConflictsAreListed <=>
      \A d \in Devices, c \in Changes :
         conflicts[<<d, c>>].status # "none" <=> AnsweredConflict(d, c)
BY DEF ConflictsAreListed, AnsweredConflict

\* A resolution changes the status of a conflict that is already there.
LEMMA ListedAfterResolution ==
    ASSUME TypeOK, ConflictsAreListed, ledger' = ledger,
           NEW d \in Devices, NEW c \in Changes, conflicts[<<d, c>>].status = "open",
           conflicts' = [conflicts EXCEPT ![<<d, c>>].status = "resolved"]
    PROVE  ConflictsAreListed'
<1>1. ASSUME NEW i \in Devices, NEW j \in Changes
      PROVE  conflicts'[<<i, j>>].status # "none" <=> conflicts[<<i, j>>].status # "none"
  BY DEF TypeOK, Conflict
<1>2. ASSUME NEW i \in Devices, NEW j \in Changes
      PROVE  conflicts'[<<i, j>>].status # "none" <=> AnsweredConflict(i, j)'
  <2>1. AnsweredConflict(i, j)' <=> AnsweredConflict(i, j)
    BY DEF AnsweredConflict
  <2>2. QED
    BY <1>1, <2>1, ListedDef
<1>3. QED
  BY <1>2 DEF ConflictsAreListed, AnsweredConflict

LEMMA ListedStep ==
    ASSUME TypeOK, ConflictsAreListed, ResolverInv, [Next]_vars
    PROVE  ConflictsAreListed'
<1>1. ASSUME NEW h \in Handlers, RecordConflict(h)
      PROVE  ConflictsAreListed'
  <2>1. PICK outcome \in Outcome, conflict \in Conflict :
               /\ Serving(h) /\ ~ledger[Slot(h)].found
               /\ outcome.status = "conflict" /\ Decide(h, outcome)
               /\ Case(h) \in Devices \X Changes /\ conflict.status = "open"
               /\ conflicts' = [conflicts EXCEPT ![Case(h)] = conflict]
    BY <1>1, ConflictFacts
  <2>2. ASSUME NEW d \in Devices, NEW c \in Changes
        PROVE  conflicts'[<<d, c>>].status # "none" <=> AnsweredConflict(d, c)'
    <3>1. AnsweredConflict(d, c)' <=> AnsweredConflict(d, c) \/ <<d, c>> = Case(h)
      BY <2>1, AnsweredGrows
    <3>2. conflicts[<<d, c>>].status # "none" <=> AnsweredConflict(d, c)
      BY ListedDef
    <3>3. CASE <<d, c>> = Case(h)
      BY <3>1, <3>3, <2>1 DEF TypeOK
    <3>4. CASE <<d, c>> # Case(h)
      <4>1. conflicts'[<<d, c>>] = conflicts[<<d, c>>]
        BY <3>4, <2>1 DEF TypeOK
      <4>2. QED
        BY <3>1, <3>2, <3>4, <4>1
    <3>5. QED
      BY <3>3, <3>4
  <2>3. QED
    BY <2>2 DEF ConflictsAreListed, AnsweredConflict
<1>2. ASSUME NEW h \in Handlers, NEW outcome \in Outcome,
             Serving(h), ~ledger[Slot(h)].found, Decide(h, outcome),
             outcome.status # "conflict", conflicts' = conflicts
      PROVE  ConflictsAreListed'
  <2>1. ASSUME NEW d \in Devices, NEW c \in Changes
        PROVE  conflicts'[<<d, c>>].status # "none" <=> AnsweredConflict(d, c)'
    BY <1>2, AnsweredGrows, ListedDef
  <2>2. QED
    BY <2>1 DEF ConflictsAreListed, AnsweredConflict
<1>3. ASSUME NEW h \in Handlers, Reject(h)
      PROVE  ConflictsAreListed'
  BY <1>2, <1>3, RejectFacts
<1>4. ASSUME NEW h \in Handlers, Accept(h)
      PROVE  ConflictsAreListed'
  <2>1. PICK outcome \in Outcome :
               /\ Serving(h) /\ ~ledger[Slot(h)].found /\ Decide(h, outcome)
               /\ outcome.status # "conflict" /\ conflicts' = conflicts
    BY <1>4, AcceptFacts
  <2>2. QED
    BY <1>2, <2>1
<1>5. ASSUME NEW s \in Resolvers, WriteResolution(s)
      PROVE  ConflictsAreListed'
  <2>1. /\ resolver[s].device \in Devices /\ resolver[s].change \in Changes
        /\ resolver[s].busy /\ ledger' = ledger
        /\ conflicts' = [conflicts EXCEPT
             ![<<resolver[s].device, resolver[s].change>>].status = "resolved"]
    BY <1>5, ResolutionFacts
  <2>2. conflicts[<<resolver[s].device, resolver[s].change>>].status = "open"
    BY <2>1 DEF ResolverInv
  <2>3. QED
    BY <2>1, <2>2, ListedAfterResolution
<1>6. ASSUME NEW d \in Devices, NEW c \in Changes, NEW key \in ResolveKeys \cup {NoKey},
             KeepRemote(d, c, key)
      PROVE  ConflictsAreListed'
  BY <1>6, ListedAfterResolution DEF KeepRemote, Claimable
<1>7. CASE UNCHANGED <<ledger, conflicts>>
  <2>1. ledger' = ledger /\ conflicts' = conflicts
    BY <1>7
  <2>2. ASSUME NEW d \in Devices, NEW c \in Changes
        PROVE  conflicts'[<<d, c>>].status # "none" <=> AnsweredConflict(d, c)'
    <3>1. AnsweredConflict(d, c)' <=> AnsweredConflict(d, c)
      BY <2>1 DEF AnsweredConflict
    <3>2. QED
      BY <2>1, <3>1, ListedDef
  <2>3. QED
    BY <2>2 DEF ConflictsAreListed, AnsweredConflict
<1>8. QED
  BY <1>1, <1>3, <1>4, <1>5, <1>6, <1>7, StepKinds, ConflictStep

-----------------------------------------------------------------------------
(* The answers *)

LEMMA LogNeverShrinks ==
    ASSUME TypeOK, [Next]_vars
    PROVE  /\ Len(log) \in Nat /\ Len(log') \in Nat /\ Len(log) <= Len(log')
           /\ \A i \in 1 .. Len(log) : log'[i] = log[i]
<1>1. ASSUME NEW h \in Handlers, Accept(h)
      PROVE  /\ Len(log) \in Nat /\ Len(log') = Len(log) + 1
             /\ \A i \in 1 .. Len(log) : log'[i] = log[i]
  <2> DEFINE e == Current(h)
             r == Applied(row[e.entity], e.op, e.name)
  <2>1. /\ r \in Row /\ e.entity \in Entities /\ e.change \in Changes
        /\ push[h].device \in Devices
        /\ log' = Append(log, LogEntry(push[h].device, e.change, "push", e.entity, r))
    BY <1>1, AcceptFacts
  <2> HIDE DEF e, r
  <2>2. QED
    BY <2>1, LogGrows
<1>2. ASSUME NEW s \in Resolvers, WriteResolution(s)
      PROVE  /\ Len(log) \in Nat /\ Len(log') = Len(log) + 1
             /\ \A i \in 1 .. Len(log) : log'[i] = log[i]
  <2> DEFINE job == resolver[s]
             e == conflicts[<<job.device, job.change>>].envelope
             r == Applied(row[e.entity], e.op, job.name)
  <2>1. /\ r \in Row /\ e.entity \in Entities /\ job.change \in Changes
        /\ job.device \in Devices
        /\ log' = Append(log, LogEntry(job.device, job.change, "resolve", e.entity, r))
    BY <1>2, ResolutionFacts
  <2> HIDE DEF job, e, r
  <2>2. QED
    BY <2>1, LogGrows
<1>3. CASE log' = log
  BY <1>3 DEF TypeOK
<1>4. QED
  BY <1>1, <1>2, <1>3, StepKinds DEF Reject, RecordConflict

\* What an answer a to the device d says is what the ledger l holds.
Recorded(l, d, a) ==
    LET record == l[<<d, a.envelope.key>>]
    IN record.found /\ IF a.reused THEN record.envelope # a.envelope
                       ELSE record.envelope = a.envelope /\ record.outcome = a.outcome

\* AnswersMatchLedger of one handler.
AnswersTrue(h) ==
    /\ push[h].cursor <= Larger(push[h].base, Len(log))
    /\ \A i \in 1 .. Len(push[h].answers) :
         Recorded(ledger, push[h].device, push[h].answers[i])

LEMMA AnswersDef == AnswersMatchLedger <=> \A h \in Handlers : AnswersTrue(h)
BY DEF AnswersMatchLedger, AnswersTrue, Recorded

LEMMA AnswerFields ==
    ASSUME TypeOK, NEW h \in Handlers, NEW i \in 1 .. Len(push[h].answers)
    PROVE  /\ push[h].answers[i].envelope.key \in Keys
           /\ push[h].device \in Devices
<1> DEFINE Answers == [envelope : Envelopes, outcome : Outcome, reused : BOOLEAN]
<1>1. push[h] \in Request /\ push[h].answers \in Seq(Answers)
  BY DEF TypeOK, Request
<1> HIDE DEF Answers
<1>2. push[h].answers[i] \in Answers
  BY <1>1
<1>3. push[h].answers[i].envelope \in Envelopes
  BY <1>2 DEF Answers
<1>4. QED
  BY <1>1, <1>3, EnvelopeFields DEF Request

LEMMA LargerGrows ==
    ASSUME NEW base \in Nat, NEW m \in Nat, NEW n \in Nat, m <= n, NEW c \in Nat,
           c <= Larger(base, m)
    PROVE  c <= Larger(base, n)
BY DEF Larger

\* An answer that agrees with the ledger does so for good.
LEMMA RecordedStays ==
    ASSUME TypeOK, [Next]_vars, NEW h \in Handlers, NEW i \in 1 .. Len(push[h].answers),
           Recorded(ledger, push[h].device, push[h].answers[i])
    PROVE  Recorded(ledger', push[h].device, push[h].answers[i])
<1> DEFINE a == push[h].answers[i]
<1>1. a.envelope.key \in Keys /\ push[h].device \in Devices
  BY AnswerFields
<1>2. ledger[<<push[h].device, a.envelope.key>>].found
  BY DEF Recorded
<1>3. ledger'[<<push[h].device, a.envelope.key>>] = ledger[<<push[h].device, a.envelope.key>>]
  BY <1>1, <1>2, RecordsAreFinal
<1> HIDE DEF a
<1>4. QED
  BY <1>3 DEF Recorded, a

\* The answers of a handler that does not move stay true.
LEMMA OtherAnswers ==
    ASSUME TypeOK, [Next]_vars, NEW h \in Handlers, AnswersTrue(h), push'[h] = push[h]
    PROVE  AnswersTrue(h)'
<1>1. push[h].base \in Nat /\ push[h].cursor \in Nat
  BY DEF TypeOK, Request
<1>2. push'[h].cursor <= Larger(push'[h].base, Len(log'))
  BY <1>1, LogNeverShrinks, LargerGrows DEF AnswersTrue
<1>3. ASSUME NEW i \in 1 .. Len(push[h].answers)
      PROVE  Recorded(ledger', push[h].device, push[h].answers[i])
  BY RecordedStays DEF AnswersTrue
<1>4. QED
  BY <1>2, <1>3 DEF AnswersTrue

\* An answer appended from the ledger keeps the answers true.
LEMMA AnswerAppended ==
    ASSUME TypeOK, [Next]_vars, NEW h \in Handlers, AnswersTrue(h), Serving(h),
           NEW outcome \in Outcome, NEW reused \in BOOLEAN, NEW cursor \in Nat,
           Answer(h, outcome, reused, cursor),
           cursor <= Larger(push[h].base, Len(log')),
           ledger'[Slot(h)].found,
           IF reused THEN ledger'[Slot(h)].envelope # Current(h)
           ELSE ledger'[Slot(h)].envelope = Current(h) /\ ledger'[Slot(h)].outcome = outcome
    PROVE  AnswersTrue(h)'
<1> DEFINE old == push[h].answers
           answer == [envelope |-> Current(h), outcome |-> outcome, reused |-> reused]
<1>1. /\ push[h] \in Request /\ Current(h) \in Envelopes
      /\ push[h].base \in Nat /\ push[h].cursor \in Nat
      /\ Slot(h) = <<push[h].device, Current(h).key>>
  BY HandlerFacts DEF Request, Slot
<1>2. old \in Seq([envelope : Envelopes, outcome : Outcome, reused : BOOLEAN])
  BY <1>1 DEF Request
<1>3. answer \in [envelope : Envelopes, outcome : Outcome, reused : BOOLEAN]
  BY <1>1
<1>4. /\ push'[h].device = push[h].device /\ push'[h].base = push[h].base
      /\ push'[h].answers = Append(old, answer)
      /\ push'[h].cursor = Larger(push[h].cursor, cursor)
  BY <1>1 DEF Answer, TypeOK, Request
<1>5. push[h].cursor <= Larger(push[h].base, Len(log'))
  BY <1>1, LogNeverShrinks, LargerGrows DEF AnswersTrue
<1>6. push'[h].cursor <= Larger(push'[h].base, Len(log'))
  BY <1>4, <1>5 DEF Larger
<1>7. ASSUME NEW i \in 1 .. Len(old)
      PROVE  Recorded(ledger', push[h].device, old[i])
  BY RecordedStays DEF AnswersTrue
<1>8. Recorded(ledger', push[h].device, answer)
  BY <1>1 DEF Recorded
<1> HIDE DEF old, answer
<1>9. /\ Len(Append(old, answer)) = Len(old) + 1 /\ Len(old) \in Nat
      /\ \A i \in 1 .. Len(old) : Append(old, answer)[i] = old[i]
      /\ Append(old, answer)[Len(old) + 1] = answer
  BY <1>2, <1>3
<1>10. ASSUME NEW i \in 1 .. Len(push'[h].answers)
       PROVE  Recorded(ledger', push'[h].device, push'[h].answers[i])
  <2>1. i \in 1 .. Len(old) \/ i = Len(old) + 1
    BY <1>4, <1>9
  <2>2. CASE i \in 1 .. Len(old)
    BY <2>2, <1>4, <1>7, <1>9
  <2>3. CASE i = Len(old) + 1
    BY <2>3, <1>4, <1>8, <1>9
  <2>4. QED
    BY <2>1, <2>2, <2>3
<1>11. QED
  BY <1>6, <1>10 DEF AnswersTrue

\* A request starts and ends without answers.
LEMMA NoAnswersYet ==
    ASSUME NEW h \in Handlers, push'[h].answers = <<>>,
           push'[h].cursor = push'[h].base, push'[h].base \in Nat, Len(log') \in Nat
    PROVE  AnswersTrue(h)'
<1>1. Len(push'[h].answers) = 0
  OBVIOUS
<1>2. push'[h].cursor <= Larger(push'[h].base, Len(log'))
  BY DEF Larger
<1>3. QED
  BY <1>1, <1>2 DEF AnswersTrue

\* The new answer of a decision is the one it stores.
LEMMA AnswerDecided ==
    ASSUME TypeOK, [Next]_vars, NEW h \in Handlers, AnswersTrue(h), Serving(h),
           NEW outcome \in Outcome, Decide(h, outcome), outcome.cursor <= Len(log')
    PROVE  AnswersTrue(h)'
<1>1. push[h].base \in Nat /\ outcome.cursor \in Nat
  BY DEF TypeOK, Request, Outcome
<1>2. outcome.cursor <= Larger(push[h].base, Len(log'))
  BY <1>1, LogNeverShrinks DEF Larger
<1>3. /\ ledger'[Slot(h)].found /\ ledger'[Slot(h)].envelope = Current(h)
      /\ ledger'[Slot(h)].outcome = outcome
  <2>1. ledger'[Slot(h)] = [found |-> TRUE, envelope |-> Current(h), outcome |-> outcome]
    BY LedgerGrows
  <2>2. QED
    BY <2>1
<1>4. Answer(h, outcome, FALSE, outcome.cursor)
  BY DEF Decide
<1>5. QED
  BY <1>1, <1>2, <1>3, <1>4, AnswerAppended

LEMMA AnswersOfServe ==
    ASSUME TypeOK, [Next]_vars, NEW h \in Handlers, AnswersTrue(h), Serve(h)
    PROVE  AnswersTrue(h)'
<1>0. Len(log) \in Nat /\ Len(log') \in Nat /\ Len(log) <= Len(log')
  BY LogNeverShrinks
<1>1. CASE \E d \in Devices, batch \in Requests, base \in BaseCursors :
             StartPush(h, d, batch, base)
  <2>1. PICK d \in Devices, batch \in Requests, base \in BaseCursors :
               StartPush(h, d, batch, base)
    BY <1>1
  <2>2. /\ push'[h].answers = <<>> /\ push'[h].cursor = base /\ push'[h].base = base
    BY <2>1 DEF StartPush, TypeOK
  <2>3. base \in Nat
    BY Constants DEF ConstantAssumptions
  <2>4. QED
    BY <2>2, <2>3, <1>0, NoAnswersYet
<1>2. CASE EndPush(h)
  <2>1. push'[h] = NoRequest
    BY <1>2 DEF EndPush, TypeOK
  <2>2. QED
    BY <2>1, <1>0, NoAnswersYet DEF NoRequest
<1>3. CASE Replay(h)
  <2>1. /\ Serving(h) /\ ledger' = ledger /\ log' = log /\ ledger[Slot(h)].found
        /\ ledger[Slot(h)].envelope = Current(h)
        /\ Answer(h, ledger[Slot(h)].outcome, FALSE, Len(log))
    BY <1>3 DEF Replay
  <2>2. ledger[Slot(h)].outcome \in Outcome
    BY <2>1, HandlerFacts DEF TypeOK, Record
  <2>3. Len(log) <= Larger(push[h].base, Len(log'))
    BY <2>1, <1>0 DEF Larger, TypeOK, Request
  <2>4. QED
    BY <2>1, <2>2, <2>3, <1>0, AnswerAppended
<1>4. CASE RefuseReusedKey(h)
  <2> DEFINE outcome == [status |-> "rejected", version |-> 0, cursor |-> push[h].base]
  <2>1. /\ Serving(h) /\ ledger' = ledger /\ log' = log /\ ledger[Slot(h)].found
        /\ ledger[Slot(h)].envelope # Current(h)
        /\ Answer(h, outcome, TRUE, push[h].base)
    BY <1>4 DEF RefuseReusedKey
  <2>2. push[h].base \in Nat
    BY DEF TypeOK, Request
  <2>3. outcome \in Outcome
    BY <2>2 DEF Outcome
  <2>4. push[h].base <= Larger(push[h].base, Len(log'))
    BY <2>2, <1>0 DEF Larger
  <2> HIDE DEF outcome
  <2>5. QED
    BY <2>1, <2>2, <2>3, <2>4, AnswerAppended
<1>5. CASE RefuseCursor(h) \/ RefuseMalformed(h)
          \/ RefuseUnfit(h) \/ RefuseCommand(h)
  <2>1. PICK outcome \in Outcome :
               Serving(h) /\ Decide(h, outcome) /\ outcome.cursor = Len(log)
    BY <1>5, Rejections, RejectFacts
  <2>2. QED
    BY <2>1, <1>0, AnswerDecided
<1>6. CASE Accept(h)
  <2> DEFINE e == Current(h)
             r == Applied(row[e.entity], e.op, e.name)
             outcome == [status |-> "accepted", version |-> r.version,
                         cursor |-> Len(log) + 1]
  <2>1. /\ Serving(h) /\ r \in Row /\ outcome \in Outcome
        /\ e.entity \in Entities /\ e.change \in Changes /\ push[h].device \in Devices
        /\ log' = Append(log, LogEntry(push[h].device, e.change, "push", e.entity, r))
        /\ Decide(h, outcome)
    BY <1>6, AcceptFacts
  <2>2. outcome.cursor = Len(log) + 1
    OBVIOUS
  <2> HIDE DEF e, r, outcome
  <2>3. Len(log') = Len(log) + 1
    BY <2>1, LogGrows
  <2>4. outcome.cursor <= Len(log')
    BY <2>2, <2>3, <1>0
  <2>5. QED
    BY <2>1, <2>4, AnswerDecided
<1>7. CASE RecordConflict(h)
  <2>1. PICK outcome \in Outcome :
               Serving(h) /\ Decide(h, outcome) /\ outcome.cursor = Len(log)
    BY <1>7, ConflictFacts
  <2>2. QED
    BY <2>1, <1>0, AnswerDecided
<1>8. QED
  BY <1>1, <1>2, <1>3, <1>4, <1>5, <1>6, <1>7 DEF Serve

\* A handler's step leaves the requests of the others alone.
LEMMA OthersWait ==
    ASSUME TypeOK, NEW h \in Handlers, Serve(h), NEW g \in Handlers, g # h
    PROVE  push'[g] = push[g]
BY DEF Serve, StartPush, Replay, RefuseReusedKey, RefuseCursor, RefuseMalformed,
       RefuseUnfit, RefuseCommand, Accept, RecordConflict, EndPush, Decide, Answer, TypeOK

LEMMA OnlyServeAnswers ==
    ASSUME [Next]_vars
    PROVE  push' = push \/ \E h \in Handlers : Serve(h)
<1>1. CASE Resolve
  <2>1. ASSUME NEW d \in Devices, NEW c \in Changes, NEW key \in ResolveKeys \cup {NoKey},
               \/ Defer(d, c, key) \/ KeepRemote(d, c, key)
               \/ \E s \in Resolvers, name \in Names :
                     ReadForResolution(s, d, c, name, key)
        PROVE  push' = push
    BY <2>1, Zenon DEF Defer, KeepRemote, ReadForResolution
  <2>2. ASSUME NEW s \in Resolvers, CheckReferences(s) \/ WriteResolution(s) \/ AbandonResolution(s)
        PROVE  push' = push
    BY <2>2 DEF CheckReferences, WriteResolution, AbandonResolution
  <2>3. QED
    BY <1>1, <2>1, <2>2, Zenon DEF Resolve
<1>2. CASE \E d \in Devices : Revoke(d)
  BY <1>2 DEF Revoke
<1>3. CASE UNCHANGED vars
  BY <1>3 DEF vars
<1>4. QED
  BY <1>1, <1>2, <1>3 DEF Next

LEMMA AnswersStep ==
    ASSUME TypeOK, AnswersMatchLedger, [Next]_vars
    PROVE  AnswersMatchLedger'
<1>1. ASSUME NEW h \in Handlers, Serve(h), NEW g \in Handlers
      PROVE  AnswersTrue(g)'
  <2>1. AnswersTrue(g)
    BY AnswersDef
  <2>2. CASE g = h
    BY <1>1, <2>1, <2>2, AnswersOfServe
  <2>3. CASE g # h
    BY <1>1, <2>1, <2>3, OthersWait, OtherAnswers
  <2>4. QED
    BY <2>2, <2>3
<1>2. ASSUME push' = push, NEW g \in Handlers
      PROVE  AnswersTrue(g)'
  BY <1>2, AnswersDef, OtherAnswers
<1>3. \A g \in Handlers : AnswersTrue(g)'
  BY <1>1, <1>2, OnlyServeAnswers
<1>4. QED
  BY <1>3 DEF AnswersMatchLedger, AnswersTrue, Recorded

-----------------------------------------------------------------------------
(* The resolutions *)

\* A receipt that is stored stays stored.
LEMMA ReceiptsOnlyGrow ==
    ASSUME TypeOK, NEW d \in Devices, NEW c \in Changes,
           NEW key \in ResolveKeys \cup {NoKey},
           NEW action \in {"defer", "keep_remote", "apply"},
           Receive(d, c, key, action)
    PROVE  /\ \A k \in ResolveKeys : k # key => receipts'[k] = receipts[k]
           /\ key \in ResolveKeys => receipts'[key] =
                [stored |-> TRUE, device |-> d, change |-> c, action |-> action]
BY NoKeyAssumption DEF Receive, TypeOK

\* ResolverInv of one resolution under way, and of two.
Owns(s) ==
    LET job == resolver[s]
        conflict == conflicts[<<job.device, job.change>>]
    IN
    /\ conflict.status = "open"
    /\ conflict.serverVersion > 0 => job.version = conflict.serverVersion
    /\ job.key # NoKey => ~receipts[job.key].stored

Apart(s, t) ==
    /\ <<resolver[t].device, resolver[t].change>> # <<resolver[s].device, resolver[s].change>>
    /\ resolver[s].key # NoKey => resolver[t].key # resolver[s].key

LEMMA ResolverDef ==
    ResolverInv <=>
      \A s \in Resolvers : resolver[s].busy =>
         /\ Owns(s)
         /\ \A t \in Resolvers \ {s} : resolver[t].busy => Apart(s, t)
BY DEF ResolverInv, Owns, Apart

LEMMA JobFields ==
    ASSUME TypeOK, NEW s \in Resolvers
    PROVE  /\ resolver[s].device \in Devices /\ resolver[s].change \in Changes
           /\ resolver[s].key \in ResolveKeys \cup {NoKey}
           /\ <<resolver[s].device, resolver[s].change>> \in Devices \X Changes
BY DEF TypeOK, Resolution

\* A resolution keeps what nobody else touches.
LEMMA OwnsStep ==
    ASSUME NEW s \in Resolvers, Owns(s), resolver'[s] = resolver[s],
           conflicts'[<<resolver[s].device, resolver[s].change>>]
             = conflicts[<<resolver[s].device, resolver[s].change>>],
           resolver[s].key # NoKey =>
             receipts'[resolver[s].key] = receipts[resolver[s].key]
    PROVE  Owns(s)'
BY DEF Owns

\* Every resolution under way after the step was under way before it.
LEMMA OthersKeep ==
    ASSUME ResolverInv,
           \A s \in Resolvers : resolver'[s].busy =>
              /\ resolver'[s] = resolver[s]
              /\ Owns(s) => Owns(s)'
    PROVE  ResolverInv'
<1>1. ASSUME NEW s \in Resolvers, resolver'[s].busy
      PROVE  Owns(s)' /\ \A t \in Resolvers \ {s} : resolver'[t].busy => Apart(s, t)'
  <2>1. resolver'[s] = resolver[s] /\ Owns(s)'
    BY <1>1, ResolverDef
  <2>2. ASSUME NEW t \in Resolvers \ {s}, resolver'[t].busy
        PROVE  Apart(s, t)'
    <3>1. resolver'[t] = resolver[t]
      BY <2>2
    <3>2. Apart(s, t)
      BY <1>1, <2>1, <2>2, <3>1, ResolverDef
    <3>3. QED
      BY <2>1, <3>1, <3>2 DEF Apart
  <2>3. QED
    BY <2>1, <2>2
<1>2. QED
  BY <1>1 DEF ResolverInv, Owns, Apart

\* Who may claim a conflict or a key touches those of no resolution under way.
LEMMA ClaimedIsFree ==
    ASSUME TypeOK, NEW d \in Devices, NEW c \in Changes,
           NEW key \in ResolveKeys \cup {NoKey}, Claimable(d, c, key),
           NEW action \in {"defer", "keep_remote", "apply"},
           Receive(d, c, key, action),
           NEW s \in Resolvers, resolver[s].busy
    PROVE  /\ <<resolver[s].device, resolver[s].change>> # <<d, c>>
           /\ resolver[s].key # NoKey =>
                receipts'[resolver[s].key] = receipts[resolver[s].key]
<1>1. /\ <<resolver[s].device, resolver[s].change>> # <<d, c>>
      /\ key # NoKey => resolver[s].key # key
  BY DEF Claimable
<1>2. ASSUME resolver[s].key # NoKey
      PROVE  resolver[s].key \in ResolveKeys /\ resolver[s].key # key
  BY <1>1, <1>2, JobFields
<1>3. \A k \in ResolveKeys : k # key => receipts'[k] = receipts[k]
  BY ReceiptsOnlyGrow
<1>4. QED
  BY <1>1, <1>2, <1>3

LEMMA ResolverServeStep ==
    ASSUME TypeOK, ResolverInv, NEW h \in Handlers, Serve(h)
    PROVE  ResolverInv'
<1>1. CASE RecordConflict(h)
  <2>1. PICK conflict \in Conflict :
               /\ Case(h) \in Devices \X Changes /\ conflicts[Case(h)].status = "none"
               /\ conflicts' = [conflicts EXCEPT ![Case(h)] = conflict]
               /\ receipts' = receipts /\ resolver' = resolver
    BY <1>1, ConflictFacts
  <2>2. ASSUME NEW s \in Resolvers, Owns(s)
        PROVE  Owns(s)'
    <3>1. <<resolver[s].device, resolver[s].change>> # Case(h)
      BY <2>1, <2>2 DEF Owns
    <3>2. conflicts'[<<resolver[s].device, resolver[s].change>>]
            = conflicts[<<resolver[s].device, resolver[s].change>>]
      BY <2>1, <3>1, JobFields DEF TypeOK
    <3>3. QED
      BY <2>1, <2>2, <3>2, OwnsStep
  <2>3. QED
    BY <2>1, <2>2, OthersKeep
<1>2. CASE ~RecordConflict(h)
  <2>1. UNCHANGED <<conflicts, receipts, resolver>>
    BY <1>2 DEF Serve, StartPush, Replay, RefuseReusedKey, RefuseCursor,
                RefuseMalformed, RefuseUnfit, RefuseCommand, Accept, EndPush
  <2>2. QED
    BY <2>1 DEF ResolverInv
<1>3. QED
  BY <1>1, <1>2

LEMMA ResolverResolveStep ==
    ASSUME TypeOK, ResolverInv, Resolve
    PROVE  ResolverInv'
<1>1. ASSUME NEW d \in Devices, NEW c \in Changes, NEW key \in ResolveKeys \cup {NoKey},
             Defer(d, c, key)
      PROVE  ResolverInv'
  <2>1. /\ Claimable(d, c, key) /\ Receive(d, c, key, "defer")
        /\ conflicts' = conflicts /\ resolver' = resolver
    BY <1>1 DEF Defer
  <2>2. QED
    BY <2>1, ClaimedIsFree, OwnsStep, OthersKeep
<1>2. ASSUME NEW d \in Devices, NEW c \in Changes, NEW key \in ResolveKeys \cup {NoKey},
             KeepRemote(d, c, key)
      PROVE  ResolverInv'
  <2>1. /\ Claimable(d, c, key) /\ Receive(d, c, key, "keep_remote")
        /\ conflicts' = [conflicts EXCEPT ![<<d, c>>].status = "resolved"]
        /\ resolver' = resolver
    BY <1>2 DEF KeepRemote
  <2>2. ASSUME NEW s \in Resolvers, resolver[s].busy, Owns(s)
        PROVE  Owns(s)'
    <3>1. /\ <<resolver[s].device, resolver[s].change>> # <<d, c>>
          /\ resolver[s].key # NoKey =>
               receipts'[resolver[s].key] = receipts[resolver[s].key]
      BY <2>1, <2>2, ClaimedIsFree
    <3>2. conflicts'[<<resolver[s].device, resolver[s].change>>]
            = conflicts[<<resolver[s].device, resolver[s].change>>]
      BY <2>1, <3>1, JobFields DEF TypeOK
    <3>3. QED
      BY <2>1, <2>2, <3>1, <3>2, OwnsStep
  <2>3. QED
    BY <2>1, <2>2, OthersKeep
<1>3. ASSUME NEW d \in Devices, NEW c \in Changes, NEW key \in ResolveKeys \cup {NoKey},
             NEW s \in Resolvers, NEW name \in Names,
             ReadForResolution(s, d, c, name, key)
      PROVE  ResolverInv'
  <2> DEFINE version == row[conflicts[<<d, c>>].envelope.entity].version
             job == [busy |-> TRUE, device |-> d, change |-> c, name |-> name,
                     key |-> key, version |-> version, checked |-> FALSE]
  <2>1. /\ Claimable(d, c, key) /\ resolver' = [resolver EXCEPT ![s] = job]
        /\ conflicts[<<d, c>>].serverVersion > 0 =>
             version = conflicts[<<d, c>>].serverVersion
        /\ conflicts' = conflicts /\ receipts' = receipts
    BY <1>3 DEF ReadForResolution
  <2>2. /\ job.device = d /\ job.change = c /\ job.key = key /\ job.version = version
    OBVIOUS
  <2> HIDE DEF version, job
  <2>3. resolver'[s] = job /\ \A t \in Resolvers \ {s} : resolver'[t] = resolver[t]
    BY <2>1 DEF TypeOK
  <2>4. Owns(s)'
    BY <2>1, <2>2, <2>3 DEF Owns, Claimable
  <2>5. ASSUME NEW t \in Resolvers \ {s}, resolver'[t].busy
        PROVE  Owns(t)' /\ Apart(s, t)' /\ Apart(t, s)'
    <3>1. resolver'[t] = resolver[t] /\ resolver[t].busy /\ Owns(t)
      BY <2>3, <2>5, ResolverDef
    <3>2. Owns(t)'
      BY <2>1, <3>1, OwnsStep
    <3>3. /\ <<resolver[t].device, resolver[t].change>> # <<d, c>>
          /\ key # NoKey => resolver[t].key # key
      BY <2>1, <3>1 DEF Claimable
    <3>4. QED
      BY <2>2, <2>3, <3>1, <3>2, <3>3 DEF Apart
  <2>6. ASSUME NEW t \in Resolvers \ {s}, NEW u \in Resolvers \ {s, t},
               resolver'[t].busy, resolver'[u].busy
        PROVE  Apart(t, u)'
    <3>1. resolver'[t] = resolver[t] /\ resolver'[u] = resolver[u]
      BY <2>3
    <3>2. Apart(t, u)
      BY <2>6, <3>1, ResolverDef
    <3>3. QED
      BY <3>1, <3>2 DEF Apart
  <2>7. \A t \in Resolvers : resolver'[t].busy =>
           /\ Owns(t)'
           /\ \A u \in Resolvers \ {t} : resolver'[u].busy => Apart(t, u)'
    BY <2>4, <2>5, <2>6
  <2>8. QED
    BY <2>7 DEF ResolverInv, Owns, Apart
<1>4. ASSUME NEW s \in Resolvers, WriteResolution(s)
      PROVE  ResolverInv'
  <2> DEFINE job == resolver[s]
  <2>1. /\ job.busy /\ job.device \in Devices /\ job.change \in Changes
        /\ job.key \in ResolveKeys \cup {NoKey}
        /\ conflicts' = [conflicts EXCEPT ![<<job.device, job.change>>].status = "resolved"]
        /\ Receive(job.device, job.change, job.key, "apply")
        /\ resolver' = [resolver EXCEPT ![s] = NoResolution]
    BY <1>4, ResolutionFacts
  <2>2. ASSUME NEW t \in Resolvers, resolver'[t].busy
        PROVE  resolver'[t] = resolver[t] /\ (Owns(t) => Owns(t)')
    <3>1. t # s /\ resolver'[t] = resolver[t]
      BY <2>1, <2>2 DEF TypeOK, NoResolution
    <3>2. Apart(s, t)
      BY <2>1, <2>2, <3>1, ResolverDef
    <3>3. resolver[t].key # NoKey =>
             /\ resolver[t].key \in ResolveKeys /\ resolver[t].key # job.key
      BY <3>2, JobFields DEF Apart
    <3>4. resolver[t].key # NoKey => receipts'[resolver[t].key] = receipts[resolver[t].key]
      BY <2>1, <3>3, ReceiptsOnlyGrow
    <3>5. conflicts'[<<resolver[t].device, resolver[t].change>>]
            = conflicts[<<resolver[t].device, resolver[t].change>>]
      BY <2>1, <3>2, JobFields DEF TypeOK, Apart
    <3>6. QED
      BY <3>1, <3>4, <3>5, OwnsStep
  <2>3. QED
    BY <2>2, OthersKeep
<1>5. ASSUME NEW s \in Resolvers, AbandonResolution(s)
      PROVE  ResolverInv'
  <2>1. /\ resolver' = [resolver EXCEPT ![s] = NoResolution]
        /\ conflicts' = conflicts /\ receipts' = receipts
    BY <1>5 DEF AbandonResolution
  <2>2. ASSUME NEW t \in Resolvers, resolver'[t].busy
        PROVE  resolver'[t] = resolver[t] /\ (Owns(t) => Owns(t)')
    <3>1. t # s /\ resolver'[t] = resolver[t]
      BY <2>1, <2>2 DEF TypeOK, NoResolution
    <3>2. QED
      BY <2>1, <3>1, OwnsStep
  <2>3. QED
    BY <2>2, OthersKeep
<1>6. ASSUME NEW s \in Resolvers, CheckReferences(s)
      PROVE  ResolverInv'
  <2>1. /\ resolver' = [resolver EXCEPT ![s].checked = TRUE]
        /\ conflicts' = conflicts /\ receipts' = receipts
    BY <1>6 DEF CheckReferences
  <2>2. \A t \in Resolvers :
           /\ resolver'[t].busy = resolver[t].busy
           /\ resolver'[t].device = resolver[t].device
           /\ resolver'[t].change = resolver[t].change
           /\ resolver'[t].key = resolver[t].key
           /\ resolver'[t].version = resolver[t].version
    BY <2>1 DEF TypeOK, Resolution
  <2>3. QED
    BY <2>1, <2>2 DEF ResolverInv
<1>7. QED
  BY <1>1, <1>2, <1>3, <1>4, <1>5, <1>6 DEF Resolve

LEMMA ResolverStep ==
    ASSUME TypeOK, ResolverInv, [Next]_vars
    PROVE  ResolverInv'
<1>1. CASE \E d \in Devices : Revoke(d)
  BY <1>1 DEF Revoke, ResolverInv
<1>2. CASE UNCHANGED vars
  BY <1>2 DEF vars, ResolverInv
<1>3. QED
  BY <1>1, <1>2, ResolverServeStep, ResolverResolveStep DEF Next

\* ResolvedOnce of one conflict.
Writes(d, c) == {i \in 1 .. Len(log) : /\ log[i].cause = "resolve"
                                      /\ log[i].device = d
                                      /\ log[i].change = c}

Kept(d, c) == {k \in ResolveKeys : /\ receipts[k].stored
                                   /\ receipts[k].device = d
                                   /\ receipts[k].change = c
                                   /\ receipts[k].action # "defer"}

Once(d, c) ==
    /\ \A i, j \in Writes(d, c) : i = j
    /\ Writes(d, c) # {} \/ Kept(d, c) # {} => conflicts[<<d, c>>].status = "resolved"
    /\ \A k, l \in Kept(d, c) : k = l
    /\ \A k \in Kept(d, c) : Writes(d, c) # {} <=> receipts[k].action = "apply"

LEMMA OnceDef == ResolvedOnce <=> \A d \in Devices, c \in Changes : Once(d, c)
BY DEF ResolvedOnce, Once, Writes, Kept

LEMMA OnceStays ==
    ASSUME NEW d \in Devices, NEW c \in Changes, Once(d, c),
           Writes(d, c)' = Writes(d, c), Kept(d, c)' = Kept(d, c),
           \A k \in Kept(d, c) : receipts'[k] = receipts[k],
           conflicts[<<d, c>>].status = "resolved" =>
             conflicts'[<<d, c>>].status = "resolved"
    PROVE  Once(d, c)'
BY DEF Once

\* An unused key is taken: no other receipt changes.
LEMMA KeptGrows ==
    ASSUME TypeOK, NEW d \in Devices, NEW c \in Changes,
           NEW key \in ResolveKeys \cup {NoKey}, key # NoKey => ~receipts[key].stored,
           NEW action \in {"defer", "keep_remote", "apply"},
           Receive(d, c, key, action), NEW i \in Devices, NEW j \in Changes
    PROVE  /\ \A k \in Kept(i, j) : receipts'[k] = receipts[k]
           /\ <<i, j>> # <<d, c>> \/ action = "defer" => Kept(i, j)' = Kept(i, j)
           /\ \A k \in Kept(i, j)' :
                k \in Kept(i, j) \/ (k = key /\ receipts'[k].action = action)
<1>1. /\ \A k \in ResolveKeys : k # key => receipts'[k] = receipts[k]
      /\ key \in ResolveKeys => receipts'[key] =
           [stored |-> TRUE, device |-> d, change |-> c, action |-> action]
  BY ReceiptsOnlyGrow
<1>2. key \in ResolveKeys => ~receipts[key].stored
  BY NoKeyAssumption
<1>3. ASSUME NEW k \in ResolveKeys, k # key
      PROVE  k \in Kept(i, j)' <=> k \in Kept(i, j)
  BY <1>1, <1>3 DEF Kept
<1>4. ASSUME key \in ResolveKeys
      PROVE  /\ key \notin Kept(i, j)
             /\ receipts'[key].action = action
             /\ key \in Kept(i, j)' => <<i, j>> = <<d, c>> /\ action # "defer"
  <2>1. /\ receipts'[key].device = d /\ receipts'[key].change = c
        /\ receipts'[key].action = action
    BY <1>1, <1>4
  <2>2. QED
    BY <2>1, <1>2, <1>4 DEF Kept
<1>5. Kept(i, j) \subseteq ResolveKeys /\ Kept(i, j)' \subseteq ResolveKeys
  BY DEF Kept
<1>6. \A k \in Kept(i, j) : receipts'[k] = receipts[k]
  BY <1>1, <1>4, <1>5
<1>7. <<i, j>> # <<d, c>> \/ action = "defer" => Kept(i, j)' = Kept(i, j)
  BY <1>3, <1>4, <1>5
<1>8. \A k \in Kept(i, j)' :
         k \in Kept(i, j) \/ (k = key /\ receipts'[k].action = action)
  <2>1. ASSUME NEW k \in Kept(i, j)'
        PROVE  k \in Kept(i, j) \/ (k = key /\ receipts'[k].action = action)
    <3>1. k \in ResolveKeys
      BY <1>5
    <3>2. CASE k = key
      BY <3>1, <3>2, <1>4
    <3>3. CASE k # key
      BY <2>1, <3>1, <3>3, <1>3
    <3>4. QED
      BY <3>2, <3>3
  <2>2. QED
    BY <2>1
<1>9. QED
  BY <1>6, <1>7, <1>8

LEMMA WritesGrow ==
    ASSUME TypeOK, NEW d \in Devices, NEW c \in Changes, NEW cause \in {"push", "resolve"},
           NEW x \in Entities, NEW r \in Row,
           log' = Append(log, LogEntry(d, c, cause, x, r)),
           NEW i \in Devices, NEW j \in Changes
    PROVE  Writes(i, j)' = Writes(i, j) \cup
             {n \in {Len(log) + 1} : <<i, j>> = <<d, c>> /\ cause = "resolve"}
<1> DEFINE last == Len(log) + 1
<1>1. /\ Len(log) \in Nat /\ Len(log') = last
      /\ \A n \in 1 .. Len(log) : log'[n] = log[n]
      /\ log'[last].device = d /\ log'[last].change = c /\ log'[last].cause = cause
  BY LogGrows
<1>2. 1 .. last = (1 .. Len(log)) \cup {last} /\ last \notin 1 .. Len(log)
  BY <1>1
<1> HIDE DEF last
<1>3. Writes(i, j)' = Writes(i, j) \cup
        {n \in {last} : <<i, j>> = <<d, c>> /\ cause = "resolve"}
  BY <1>1, <1>2 DEF Writes
<1>4. QED
  BY <1>3 DEF last

\* A conflict ends with the first resolution that answers it.
LEMMA OnceEnds ==
    ASSUME TypeOK, NEW d \in Devices, NEW c \in Changes,
           NEW key \in ResolveKeys \cup {NoKey}, key # NoKey => ~receipts[key].stored,
           NEW action \in {"keep_remote", "apply"}, Receive(d, c, key, action),
           Once(d, c), conflicts[<<d, c>>].status = "open",
           conflicts' = [conflicts EXCEPT ![<<d, c>>].status = "resolved"],
           IF action = "apply" THEN Writes(d, c)' = Writes(d, c) \cup {Len(log) + 1}
           ELSE Writes(d, c)' = Writes(d, c)
    PROVE  Once(d, c)'
<1>1. Writes(d, c) = {} /\ Kept(d, c) = {}
  BY DEF Once
<1>2. \A k \in Kept(d, c)' : k = key /\ receipts'[k].action = action
  BY <1>1, KeptGrows
<1>3. conflicts'[<<d, c>>].status = "resolved"
  BY DEF TypeOK, Conflict
<1>4. /\ \A i, j \in Writes(d, c)' : i = j
      /\ Writes(d, c)' # {} <=> action = "apply"
  BY <1>1
<1>5. QED
  BY <1>2, <1>3, <1>4 DEF Once

\* The steps that write the log, conflicts or receipts, and all the others.
LEMMA ReceiptStep ==
    ASSUME [Next]_vars
    PROVE  \/ \E h \in Handlers : Accept(h) \/ RecordConflict(h)
           \/ \E d \in Devices, c \in Changes, key \in ResolveKeys \cup {NoKey} :
                 Defer(d, c, key) \/ KeepRemote(d, c, key)
           \/ \E s \in Resolvers : WriteResolution(s)
           \/ UNCHANGED <<log, conflicts, receipts>>
<1>1. CASE \E h \in Handlers : Serve(h)
  BY <1>1 DEF Serve, StartPush, Replay, RefuseReusedKey, RefuseCursor,
              RefuseMalformed, RefuseUnfit, RefuseCommand, EndPush
<1>2. CASE Resolve
  <2>1. ASSUME NEW d \in Devices, NEW c \in Changes, NEW key \in ResolveKeys \cup {NoKey},
               \E s \in Resolvers, name \in Names : ReadForResolution(s, d, c, name, key)
        PROVE  UNCHANGED <<log, conflicts, receipts>>
    BY <2>1, Zenon DEF ReadForResolution
  <2>2. ASSUME NEW s \in Resolvers, CheckReferences(s) \/ AbandonResolution(s)
        PROVE  UNCHANGED <<log, conflicts, receipts>>
    BY <2>2 DEF CheckReferences, AbandonResolution
  <2>3. QED
    BY <1>2, <2>1, <2>2 DEF Resolve
<1>3. CASE \E d \in Devices : Revoke(d)
  BY <1>3 DEF Revoke
<1>4. CASE UNCHANGED vars
  BY <1>4 DEF vars
<1>5. QED
  BY <1>1, <1>2, <1>3, <1>4 DEF Next

LEMMA OnceStep ==
    ASSUME TypeOK, ResolverInv, ResolvedOnce, [Next]_vars
    PROVE  ResolvedOnce'
<1>a. ResolvedOnce' <=> (\A d \in Devices, c \in Changes : Once(d, c))'
  BY OnceDef, PTL
<1> SUFFICES ASSUME NEW i \in Devices, NEW j \in Changes
             PROVE  Once(i, j)'
  BY <1>a
<1>0. Once(i, j)
  BY OnceDef
<1>1. ASSUME NEW h \in Handlers, Accept(h)
      PROVE  Once(i, j)'
  <2> DEFINE e == Current(h)
             r == Applied(row[e.entity], e.op, e.name)
  <2>1. /\ r \in Row /\ e.entity \in Entities /\ e.change \in Changes
        /\ push[h].device \in Devices
        /\ log' = Append(log, LogEntry(push[h].device, e.change, "push", e.entity, r))
        /\ UNCHANGED <<conflicts, receipts>>
    BY <1>1, AcceptFacts
  <2> HIDE DEF e, r
  <2>2. Writes(i, j)' = Writes(i, j)
    <3>1. Writes(i, j)' = Writes(i, j) \cup
            {n \in {Len(log) + 1} : <<i, j>> = <<push[h].device, e.change>>
                                      /\ "push" = "resolve"}
      BY <2>1, WritesGrow
    <3>2. QED
      BY <3>1
  <2>3. Kept(i, j)' = Kept(i, j)
    BY <2>1 DEF Kept
  <2>4. QED
    BY <1>0, <2>1, <2>2, <2>3, OnceStays
<1>2. ASSUME NEW h \in Handlers, RecordConflict(h)
      PROVE  Once(i, j)'
  <2>1. PICK conflict \in Conflict :
               /\ Case(h) \in Devices \X Changes /\ conflicts[Case(h)].status = "none"
               /\ conflicts' = [conflicts EXCEPT ![Case(h)] = conflict]
               /\ UNCHANGED <<log, receipts>>
    BY <1>2, ConflictFacts
  <2>2. Writes(i, j)' = Writes(i, j) /\ Kept(i, j)' = Kept(i, j)
    BY <2>1 DEF Writes, Kept
  <2>3. conflicts[<<i, j>>].status = "resolved" => conflicts'[<<i, j>>].status = "resolved"
    BY <2>1 DEF TypeOK
  <2>4. QED
    BY <1>0, <2>1, <2>2, <2>3, OnceStays
<1>3. ASSUME NEW d \in Devices, NEW c \in Changes, NEW key \in ResolveKeys \cup {NoKey},
             Defer(d, c, key)
      PROVE  Once(i, j)'
  <2>1. /\ key # NoKey => ~receipts[key].stored
        /\ Receive(d, c, key, "defer") /\ UNCHANGED <<log, conflicts>>
    BY <1>3 DEF Defer, Claimable
  <2>2. Kept(i, j)' = Kept(i, j) /\ \A k \in Kept(i, j) : receipts'[k] = receipts[k]
    BY <2>1, KeptGrows
  <2>3. Writes(i, j)' = Writes(i, j)
    BY <2>1 DEF Writes
  <2>4. QED
    BY <1>0, <2>1, <2>2, <2>3, OnceStays
<1>4. ASSUME NEW d \in Devices, NEW c \in Changes, NEW key \in ResolveKeys \cup {NoKey},
             KeepRemote(d, c, key)
      PROVE  Once(i, j)'
  <2>1. /\ key # NoKey => ~receipts[key].stored
        /\ conflicts[<<d, c>>].status = "open"
        /\ conflicts' = [conflicts EXCEPT ![<<d, c>>].status = "resolved"]
        /\ Receive(d, c, key, "keep_remote") /\ log' = log
    BY <1>4 DEF KeepRemote, Claimable
  <2>2. Writes(i, j)' = Writes(i, j)
    BY <2>1 DEF Writes
  <2>3. CASE <<i, j>> = <<d, c>>
    <3>1. i = d /\ j = c
      BY <2>3
    <3>2. QED
      BY <1>0, <2>1, <2>2, <3>1, OnceEnds
  <2>4. CASE <<i, j>> # <<d, c>>
    <3>1. Kept(i, j)' = Kept(i, j) /\ \A k \in Kept(i, j) : receipts'[k] = receipts[k]
      BY <2>1, <2>4, KeptGrows
    <3>2. conflicts'[<<i, j>>] = conflicts[<<i, j>>]
      BY <2>1, <2>4 DEF TypeOK
    <3>3. QED
      BY <1>0, <2>2, <3>1, <3>2, OnceStays
  <2>5. QED
    BY <2>3, <2>4
<1>5. ASSUME NEW s \in Resolvers, WriteResolution(s)
      PROVE  Once(i, j)'
  <2> DEFINE job == resolver[s]
             e == conflicts[<<job.device, job.change>>].envelope
             r == Applied(row[e.entity], e.op, job.name)
  <2>1. /\ job.busy /\ job.device \in Devices /\ job.change \in Changes
        /\ job.key \in ResolveKeys \cup {NoKey} /\ r \in Row /\ e.entity \in Entities
        /\ log' = Append(log, LogEntry(job.device, job.change, "resolve", e.entity, r))
        /\ conflicts' = [conflicts EXCEPT ![<<job.device, job.change>>].status = "resolved"]
        /\ Receive(job.device, job.change, job.key, "apply")
    BY <1>5, ResolutionFacts
  <2>2. /\ conflicts[<<job.device, job.change>>].status = "open"
        /\ job.key # NoKey => ~receipts[job.key].stored
    BY <2>1 DEF ResolverInv
  <2> HIDE DEF job, e, r
  <2>3. Writes(i, j)' = Writes(i, j) \cup
          {n \in {Len(log) + 1} : <<i, j>> = <<job.device, job.change>>}
    BY <2>1, WritesGrow
  <2>4. CASE <<i, j>> = <<job.device, job.change>>
    <3>1. i = job.device /\ j = job.change
      BY <2>4
    <3>2. Writes(i, j)' = Writes(i, j) \cup {Len(log) + 1}
      BY <2>3, <2>4
    <3>3. QED
      BY <1>0, <2>1, <2>2, <3>1, <3>2, OnceEnds
  <2>5. CASE <<i, j>> # <<job.device, job.change>>
    <3>1. Kept(i, j)' = Kept(i, j) /\ \A k \in Kept(i, j) : receipts'[k] = receipts[k]
      BY <2>1, <2>2, <2>5, KeptGrows
    <3>2. conflicts'[<<i, j>>] = conflicts[<<i, j>>]
      BY <2>1, <2>5 DEF TypeOK
    <3>3. Writes(i, j)' = Writes(i, j)
      BY <2>3, <2>5
    <3>4. QED
      BY <1>0, <3>1, <3>2, <3>3, OnceStays
  <2>6. QED
    BY <2>4, <2>5
<1>6. CASE UNCHANGED <<log, conflicts, receipts>>
  <2>1. Writes(i, j)' = Writes(i, j) /\ Kept(i, j)' = Kept(i, j)
    BY <1>6 DEF Writes, Kept
  <2>2. QED
    BY <1>0, <1>6, <2>1, OnceStays
<1>7. \/ \E h \in Handlers : Accept(h) \/ RecordConflict(h)
      \/ \E d \in Devices, c \in Changes, key \in ResolveKeys \cup {NoKey} :
            Defer(d, c, key) \/ KeepRemote(d, c, key)
      \/ \E s \in Resolvers : WriteResolution(s)
      \/ UNCHANGED <<log, conflicts, receipts>>
  BY ReceiptStep
<1>8. QED
  BY <1>1, <1>2, <1>3, <1>4, <1>5, <1>6, <1>7

-----------------------------------------------------------------------------
(* The invariant and what follows from it *)

LEMMA SyncInit == Init => SyncInv
<1> SUFFICES ASSUME Init PROVE SyncInv
  OBVIOUS
<1>1. TypeOK
  BY TypeInit
<1>2. log = <<>> /\ Len(log) = 0
  BY DEF Init
<1>3. \A x \in Entities : row[x].version = 0
  BY DEF Init, NoRow
<1>4. LogReplaysToTables
  BY <1>2, <1>3 DEF LogReplaysToTables
<1>5. AppliedOnce /\ LoggedIsDecided
  BY <1>2 DEF AppliedOnce, LoggedIsDecided
<1>6. \A d \in Devices, k \in Keys : ~ledger[<<d, k>>].found
  BY DEF Init, NoRecord
<1>7. LedgerKeysMatch /\ LedgerTellsTheTruth
  BY <1>6 DEF LedgerKeysMatch, LedgerTellsTheTruth
<1>8. \A d \in Devices, c \in Changes : conflicts[<<d, c>>].status = "none"
  BY DEF Init, NoConflict
<1>9. ConflictsAreListed
  BY <1>6, <1>8 DEF ConflictsAreListed
<1>10. AnswersMatchLedger
  <2>1. ASSUME NEW h \in Handlers
        PROVE  AnswersTrue(h)
    <3>1. push[h].answers = <<>> /\ push[h].cursor = 0 /\ push[h].base = 0
      BY DEF Init, NoRequest
    <3>2. QED
      BY <1>2, <3>1 DEF AnswersTrue, Larger
  <2>2. QED
    BY <2>1, AnswersDef
<1>11. ResolverInv
  BY DEF Init, ResolverInv, NoResolution
<1>12. ResolvedOnce
  <2>1. ASSUME NEW d \in Devices, NEW c \in Changes
        PROVE  Once(d, c)
    <3>1. Writes(d, c) = {}
      BY <1>2 DEF Writes
    <3>2. Kept(d, c) = {}
      BY DEF Init, NoReceipt, Kept
    <3>3. QED
      BY <3>1, <3>2 DEF Once
  <2>2. QED
    BY <2>1, OnceDef
<1>13. QED
  BY <1>1, <1>4, <1>5, <1>7, <1>9, <1>10, <1>11, <1>12 DEF SyncInv

LEMMA SyncStep == SyncInv /\ [Next]_vars => SyncInv'
<1> SUFFICES ASSUME SyncInv, [Next]_vars PROVE SyncInv'
  OBVIOUS
<1>1. /\ TypeOK /\ LogReplaysToTables /\ AppliedOnce /\ LedgerKeysMatch
      /\ LoggedIsDecided /\ LedgerTellsTheTruth /\ ConflictsAreListed
      /\ AnswersMatchLedger /\ ResolverInv /\ ResolvedOnce
  BY DEF SyncInv
<1>2. TypeOK'
  BY <1>1, TypeStep
<1>3. LogReplaysToTables' /\ AppliedOnce'
  BY <1>1, ReplaysStep, AppliedOnceStep
<1>4. LedgerKeysMatch' /\ LoggedIsDecided' /\ LedgerTellsTheTruth'
  BY <1>1, LedgerKeysStep, LoggedStep, TruthStep
<1>5. ConflictsAreListed' /\ AnswersMatchLedger'
  BY <1>1, ListedStep, AnswersStep
<1>6. ResolverInv' /\ ResolvedOnce'
  BY <1>1, ResolverStep, OnceStep
<1>7. QED
  BY <1>2, <1>3, <1>4, <1>5, <1>6 DEF SyncInv

\* What rows, log, ledger, conflicts, receipts, answers and resolutions under
\* way say of a change agrees in every state.
THEOREM SyncCorrect == Spec => []SyncInv
BY SyncInit, SyncStep, PTL DEF Spec

\* The log replays to the tables: a device that pulls it and one that
\* bootstraps from the tables end with equal data.
THEOREM LogReplaysCorrect == Spec => []LogReplaysToTables
<1>1. SyncInv => LogReplaysToTables
  BY DEF SyncInv
<1>2. QED
  BY <1>1, SyncCorrect, PTL

\* No change takes effect twice, whoever retries it and however often.
THEOREM AppliedOnceCorrect == Spec => []AppliedOnce
<1>1. SyncInv => AppliedOnce
  BY DEF SyncInv
<1>2. QED
  BY <1>1, SyncCorrect, PTL

\* The stored answer of an accepted change points at its entry of the log,
\* and a change refused or in conflict has none.
THEOREM LedgerTruthCorrect == Spec => []LedgerTellsTheTruth
<1>1. SyncInv => LedgerTellsTheTruth
  BY DEF SyncInv
<1>2. QED
  BY <1>1, SyncCorrect, PTL

\* The list of conflicts holds exactly the changes answered with one.
THEOREM ConflictsListedCorrect == Spec => []ConflictsAreListed
<1>1. SyncInv => ConflictsAreListed
  BY DEF SyncInv
<1>2. QED
  BY <1>1, SyncCorrect, PTL

\* Every answer on its way to a device is the stored one.
THEOREM AnswersCorrect == Spec => []AnswersMatchLedger
<1>1. SyncInv => AnswersMatchLedger
  BY DEF SyncInv
<1>2. QED
  BY <1>1, SyncCorrect, PTL

\* A conflict is resolved once, and its receipts agree with how.
THEOREM ResolvedOnceCorrect == Spec => []ResolvedOnce
<1>1. SyncInv => ResolvedOnce
  BY DEF SyncInv
<1>2. QED
  BY <1>1, SyncCorrect, PTL

\* A stored answer is never revised or forgotten, and the log only grows.
THEOREM DecisionsFinalCorrect == Spec => DecisionsAreFinal
<1>1. TypeOK /\ [Next]_vars =>
        [/\ \A k \in Devices \X Keys : ledger[k].found => ledger'[k] = ledger[k]
         /\ Len(log) <= Len(log')
         /\ \A i \in 1 .. Len(log) : log'[i] = log[i]]_vars
  <2> SUFFICES ASSUME TypeOK, [Next]_vars
               PROVE  /\ \A k \in Devices \X Keys :
                           ledger[k].found => ledger'[k] = ledger[k]
                      /\ Len(log) <= Len(log')
                      /\ \A i \in 1 .. Len(log) : log'[i] = log[i]
    OBVIOUS
  <2>1. ASSUME NEW k \in Devices \X Keys, ledger[k].found
        PROVE  ledger'[k] = ledger[k]
    <3>1. PICK d \in Devices, j \in Keys : k = <<d, j>>
      BY <2>1
    <3>2. QED
      BY <2>1, <3>1, RecordsAreFinal
  <2>2. QED
    BY <2>1, LogNeverShrinks
<1>2. QED
  BY <1>1, TypeCorrect, PTL DEF Spec, DecisionsAreFinal

\* A resolution that writes ends the one conflict it owns, over the version it
\* read, which is the version shown with the conflict.
LEMMA ResolutionReplaces ==
    ASSUME TypeOK, ResolverInv, [Next]_vars,
           NEW d \in Devices, NEW c \in Changes,
           conflicts[<<d, c>>].status = "open",
           conflicts'[<<d, c>>].status = "resolved", log' # log,
           conflicts[<<d, c>>].serverVersion > 0
    PROVE  row[conflicts[<<d, c>>].envelope.entity].version
             = conflicts[<<d, c>>].serverVersion
<1>1. PICK s \in Resolvers : WriteResolution(s)
  <2>1. ASSUME NEW h \in Handlers, Accept(h)
        PROVE  conflicts' = conflicts
    BY <2>1 DEF Accept
  <2>2. log' # log /\ conflicts' # conflicts
    OBVIOUS
  <2>3. QED
    BY <2>1, <2>2, StepKinds DEF Reject, RecordConflict
<1>2. /\ resolver[s].busy
      /\ <<resolver[s].device, resolver[s].change>> \in Devices \X Changes
      /\ conflicts' = [conflicts EXCEPT
           ![<<resolver[s].device, resolver[s].change>>].status = "resolved"]
  BY <1>1, ResolutionFacts
<1>3. <<d, c>> = <<resolver[s].device, resolver[s].change>>
  BY <1>2 DEF TypeOK
<1>4. resolver[s].version = conflicts[<<d, c>>].serverVersion
  BY <1>2, <1>3 DEF ResolverInv
<1>5. row[conflicts[<<d, c>>].envelope.entity].version = resolver[s].version
  BY <1>1, <1>3 DEF WriteResolution
<1>6. QED
  BY <1>4, <1>5

\* A resolution that writes replaces exactly the version shown with the
\* conflict, although it reads and writes in two steps.
THEOREM ResolutionCorrect == Spec => ResolutionReplacesShownVersion
<1>1. SyncInv /\ [Next]_vars =>
        [\A d \in Devices, c \in Changes :
           LET conflict == conflicts[<<d, c>>] IN
           (/\ conflict.status = "open" /\ conflicts'[<<d, c>>].status = "resolved"
            /\ log' # log /\ conflict.serverVersion > 0)
             => row[conflict.envelope.entity].version = conflict.serverVersion]_vars
  BY ResolutionReplaces DEF SyncInv
<1>2. QED
  BY <1>1, SyncCorrect, PTL DEF Spec, ResolutionReplacesShownVersion
=============================================================================
