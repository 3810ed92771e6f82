------------------------------ MODULE SyncServer ------------------------------
(***************************************************************************)
(* POST /sync/push and the resolution of conflicts, for one family.        *)
(*                                                                         *)
(* A push handler takes the changes of a request one by one; each change   *)
(* is one SERIALIZABLE transaction, so it is one action here, but other    *)
(* handlers (also a retry of the same request, still running) act between  *)
(* two changes, and a handler may fail after any of them with the earlier  *)
(* ones committed.  ResolveConflict is READ COMMITTED: it reads the entity *)
(* in one step and writes it in a later one.                               *)
(*                                                                         *)
(* A row of any business table is its version, whether it is live, its     *)
(* name (unique among live rows) and the row it refers to; how ChangeLog   *)
(* orders the cursors of concurrent transactions is abstracted to the      *)
(* index in the family's own log.                                          *)
(***************************************************************************)
EXTENDS Naturals, Sequences

CONSTANTS
    Devices,
    Entities,
    Names,
    NoEntity,      \* an optional reference that is not set
    Envelopes,     \* the changes devices may send
    MaySend,       \* MaySend[d]: those device d may send
    Malformed,     \* those validateChange refuses
    Unfit,         \* those whose payload a data constraint refuses
    Handlers,      \* connections serving /sync/push
    Resolvers,     \* connections serving conflict resolution
    ResolveKeys,   \* idempotency keys, each with the device resolving under it
    NoKey,         \* a resolution request without one
    BaseCursors,   \* base_cursor of requests; beyond the log: restored backup
    MaxBatch,      \* bound on the changes of a request
    MaxLog         \* bound on the change log

Operations == {"upsert", "delete", "command"}
Changes == {e.change : e \in Envelopes}
Keys == {e.key : e \in Envelopes}

ASSUME EnvelopesAssumption ==
    Envelopes \subseteq
      [change : Changes, key : Keys, op : Operations, entity : Entities,
       base : Nat, name : Names, parent : Entities \cup {NoEntity}]
\* The client derives the key from the change id ('$scopeId:$changeId').
ASSUME KeyAssumption ==
    \A e, f \in Envelopes : e.change = f.change => e.key = f.key
ASSUME SomeAssumption == Devices # {} /\ Names # {} /\ Envelopes # {}
ASSUME MaySendAssumption ==
    /\ MaySend \in [Devices -> SUBSET Envelopes]
    /\ Malformed \cup Unfit \subseteq Envelopes
ASSUME NoKeyAssumption == NoKey \notin ResolveKeys /\ NoEntity \notin Entities
ASSUME BoundsAssumption ==
    MaxBatch \in Nat \ {0} /\ MaxLog \in Nat /\ BaseCursors \subseteq Nat

VARIABLES
    row,        \* row[x]: the business table row of entity x (version 0: none)
    log,        \* change_log of the family, in cursor order
    ledger,     \* sync_idempotency by device and key
    conflicts,  \* conflict_records by device and change
    receipts,   \* sync_conflict_resolution_receipts by key
    revoked,    \* revoked devices
    push,       \* push[h]: the request a handler works on
    resolver    \* resolver[s]: the resolution a connection has under way

vars == <<row, log, ledger, conflicts, receipts, revoked, push, resolver>>

-----------------------------------------------------------------------------
(* Data *)

Row == [version : Nat, live : BOOLEAN, name : Names]

Outcome == [status : {"accepted", "conflict", "rejected"}, version : Nat, cursor : Nat]

Record == [found : BOOLEAN, envelope : Envelopes, outcome : Outcome]

\* "seen" is not stored: the version the entity had when the conflict was
\* recorded, which server_version is meant to be.
Conflict == [status : {"none", "open", "resolved"}, serverVersion : Nat,
             envelope : Envelopes, seen : Nat]

Entry == [change : Changes, device : Devices, cause : {"push", "resolve"},
          entity : Entities, version : Nat, live : BOOLEAN, name : Names]

Request == [busy : BOOLEAN, device : Devices, base : Nat, batch : Seq(Envelopes),
            answers : Seq([envelope : Envelopes, outcome : Outcome, reused : BOOLEAN]),
            cursor : Nat]

Resolution == [busy : BOOLEAN, device : Devices, change : Changes,
               name : Names, key : ResolveKeys \cup {NoKey}, version : Nat,
               checked : BOOLEAN]

NoName == CHOOSE n \in Names : TRUE
AnyDevice == CHOOSE d \in Devices : TRUE
AnyEnvelope == CHOOSE e \in Envelopes : TRUE

NoRow == [version |-> 0, live |-> FALSE, name |-> NoName]
NoOutcome == [status |-> "rejected", version |-> 0, cursor |-> 0]
NoRecord == [found |-> FALSE, envelope |-> AnyEnvelope, outcome |-> NoOutcome]
NoConflict == [status |-> "none", serverVersion |-> 0, envelope |-> AnyEnvelope, seen |-> 0]
NoRequest == [busy |-> FALSE, device |-> AnyDevice, base |-> 0, batch |-> <<>>,
              answers |-> <<>>, cursor |-> 0]
NoResolution == [busy |-> FALSE, device |-> AnyDevice, change |-> AnyEnvelope.change,
                 name |-> NoName, key |-> NoKey, version |-> 0, checked |-> FALSE]

\* The answer stored for a resolution request; "apply" stands for keep_local
\* and manual_merge.
Receipt == [stored : BOOLEAN, device : Devices, change : Changes,
            action : {"none", "defer", "keep_remote", "apply"}]
NoReceipt == [stored |-> FALSE, device |-> AnyDevice,
              change |-> AnyEnvelope.change, action |-> "none"]

TypeOK ==
    /\ row \in [Entities -> Row]
    /\ log \in Seq(Entry)
    /\ ledger \in [Devices \X Keys -> Record]
    /\ conflicts \in [Devices \X Changes -> Conflict]
    /\ receipts \in [ResolveKeys -> Receipt]
    /\ revoked \in SUBSET Devices
    /\ push \in [Handlers -> Request]
    /\ resolver \in [Resolvers -> Resolution]

Init ==
    /\ row = [x \in Entities |-> NoRow]
    /\ log = <<>>
    /\ ledger = [k \in Devices \X Keys |-> NoRecord]
    /\ conflicts = [k \in Devices \X Changes |-> NoConflict]
    /\ receipts = [k \in ResolveKeys |-> NoReceipt]
    /\ revoked = {}
    /\ push = [h \in Handlers |-> NoRequest]
    /\ resolver = [s \in Resolvers |-> NoResolution]

-----------------------------------------------------------------------------
(* The change a handler has before it *)

Current(h) == Head(push[h].batch)
Slot(h) == <<push[h].device, Current(h).key>>
Case(h) == <<push[h].device, Current(h).change>>

\* A handler works on a change only for a device that is still in the family.
Serving(h) ==
    /\ push[h].busy
    /\ push[h].batch # <<>>
    /\ push[h].device \notin revoked

\* No answer is stored for the key, and the request passes the checks before
\* the savepoint.
Undecided(h) ==
    /\ Serving(h)
    /\ ~ledger[Slot(h)].found
    /\ push[h].base <= Len(log)

Fresh(h) == Undecided(h) /\ Current(h) \notin Malformed

Larger(a, b) == IF a < b THEN b ELSE a

\* appendOutcome, and the response's cursor.
Answer(h, outcome, reused, cursor) ==
    push' = [push EXCEPT
      ![h].batch = Tail(@),
      ![h].answers = Append(@, [envelope |-> Current(h), outcome |-> outcome,
                                reused |-> reused]),
      ![h].cursor = Larger(@, cursor)]

\* PutIdempotency in the transaction of the change, and its answer.
Decide(h, outcome) ==
    /\ ledger' = [ledger EXCEPT
         ![Slot(h)] = [found |-> TRUE, envelope |-> Current(h), outcome |-> outcome]]
    /\ Answer(h, outcome, FALSE, outcome.cursor)

Refused(status, version) == [status |-> status, version |-> version, cursor |-> Len(log)]

NameFree(x, name) == \A y \in Entities \ {x} : row[y].live => row[y].name # name

ParentLive(e) == e.parent # NoEntity => row[e.parent].live

\* Mutant: change_log.change_id is not unique.
NotUnique(change) == TRUE

\* change_log.change_id is unique, whoever sends the change.
NotLogged(change) == \A i \in 1 .. Len(log) :
                        log[i].cause = "push" => log[i].change # change

EntityChange(e) == e.op \in {"upsert", "delete"}

Stale(e) == EntityChange(e) /\ e.base # row[e.entity].version

\* The checks that come before anything is written: the version, the
\* references, and whether there is a row at all.
Reaches(e) ==
    /\ ~Stale(e)
    /\ e.op = "upsert" => ParentLive(e)
    /\ e.op = "delete" => row[e.entity].version > 0
    /\ e.op = "command" => row[e.entity].live

\* What the write itself and AppendChange find applicable.
Applicable(e) ==
    /\ Reaches(e)
    /\ e \notin Unfit
    /\ e.op = "upsert" => NameFree(e.entity, e.name)
    /\ NotLogged(e.change)

\* Whatever else keeps an entity change from being applied is a conflict.
Conflicting(e) ==
    /\ EntityChange(e)
    /\ ~Applicable(e)
    /\ ~(Reaches(e) /\ e \in Unfit)

\* Mutant: only an upsert increments the version.
AppliedSameVersion(r, op, name) ==
    [version |-> IF op = "upsert" THEN r.version + 1 ELSE r.version,
     live |-> op # "delete",
     name |-> IF op = "upsert" THEN name ELSE r.name]

\* buildInsertSQL, buildUpdateSQL, the UPDATE of DeleteEntity, and the effect
\* of an inventory command on its batch.
Applied(r, op, name) ==
    [version |-> r.version + 1,
     live |-> op # "delete",
     name |-> IF op = "upsert" THEN name ELSE r.name]

LogEntry(device, change, cause, x, r) ==
    [change |-> change, device |-> device, cause |-> cause, entity |-> x,
     version |-> r.version, live |-> r.live, name |-> r.name]

-----------------------------------------------------------------------------
(* POST /sync/push *)

Requests == UNION {[1 .. n -> Envelopes] : n \in 1 .. MaxBatch}

StartPush(h, d, batch, base) ==
    /\ ~push[h].busy
    /\ d \notin revoked
    /\ \A i \in DOMAIN batch : batch[i] \in MaySend[d]
    /\ push' = [push EXCEPT
         ![h] = [busy |-> TRUE, device |-> d, base |-> base, batch |-> batch,
                 answers |-> <<>>, cursor |-> base]]
    /\ UNCHANGED <<row, log, ledger, conflicts, receipts, revoked, resolver>>

\* Mutant: the fingerprint of the request is not compared.
ReplayAnyRequest(h) ==
    /\ Serving(h)
    /\ ledger[Slot(h)].found
    /\ Answer(h, ledger[Slot(h)].outcome, FALSE, Len(log))
    /\ UNCHANGED <<row, log, ledger, conflicts, receipts, revoked, resolver>>

\* The stored outcome answers a repeated request.
Replay(h) ==
    /\ Serving(h)
    /\ ledger[Slot(h)].found
    /\ ledger[Slot(h)].envelope = Current(h)
    /\ Answer(h, ledger[Slot(h)].outcome, FALSE, Len(log))
    /\ UNCHANGED <<row, log, ledger, conflicts, receipts, revoked, resolver>>

\* Mutant: the refusal replaces the stored answer.
StoreReusedKey(h) ==
    /\ Serving(h)
    /\ ledger[Slot(h)].found
    /\ ledger[Slot(h)].envelope # Current(h)
    /\ Decide(h, Refused("rejected", 0))
    /\ UNCHANGED <<row, log, conflicts, receipts, revoked, resolver>>

\* IDEMPOTENCY_KEY_REUSE is answered and not stored.
RefuseReusedKey(h) ==
    /\ Serving(h)
    /\ ledger[Slot(h)].found
    /\ ledger[Slot(h)].envelope # Current(h)
    /\ Answer(h, [status |-> "rejected", version |-> 0, cursor |-> push[h].base],
              TRUE, push[h].base)
    /\ UNCHANGED <<row, log, ledger, conflicts, receipts, revoked, resolver>>

\* INVALID_CURSOR is stored like any other answer.
RefuseCursor(h) ==
    /\ Serving(h)
    /\ ~ledger[Slot(h)].found
    /\ push[h].base > Len(log)
    /\ Decide(h, Refused("rejected", 0))
    /\ UNCHANGED <<row, log, conflicts, receipts, revoked, resolver>>

RefuseMalformed(h) ==
    /\ Undecided(h)
    /\ Current(h) \in Malformed
    /\ Decide(h, Refused("rejected", 0))
    /\ UNCHANGED <<row, log, conflicts, receipts, revoked, resolver>>

\* Mutant: what a refused command wrote is not rolled back to the savepoint.
RefuseCommandAfterWriting(h) ==
    LET e == Current(h)
        r == Applied(row[e.entity], e.op, e.name)
    IN
    /\ Fresh(h)
    /\ Applicable(e)
    /\ e.op = "command"
    /\ Len(log) < MaxLog
    /\ row' = [row EXCEPT ![e.entity] = r]
    /\ log' = Append(log, LogEntry(push[h].device, e.change, "push", e.entity, r))
    /\ Decide(h, Refused("rejected", 0))
    /\ UNCHANGED <<conflicts, receipts, revoked, resolver>>

\* A data constraint refuses the write: rolled back to the savepoint, and
\* VALIDATION_FAILED is stored.
RefuseUnfit(h) ==
    LET e == Current(h) IN
    /\ Fresh(h)
    /\ EntityChange(e)
    /\ Reaches(e)
    /\ e \in Unfit
    /\ Decide(h, Refused("rejected", 0))
    /\ UNCHANGED <<row, log, conflicts, receipts, revoked, resolver>>

\* INSUFFICIENT_STOCK, BATCH_UNAVAILABLE (quantities are those of Inventory),
\* or a batch that is gone.  The last is meant to be a conflict, but a command
\* carries no entity_id, so insertConflictSQL fails inside the savepoint and
\* the answer is VALIDATION_FAILED.  A command that was logged before and could
\* be applied again fails the same way outside of the savepoint: the
\* transaction aborts at every attempt (EndPush).
RefuseCommand(h) ==
    /\ Fresh(h)
    /\ Current(h).op = "command"
    /\ Decide(h, Refused("rejected", 0))
    /\ UNCHANGED <<row, log, conflicts, receipts, revoked, resolver>>

Accept(h) ==
    LET e == Current(h)
        r == Applied(row[e.entity], e.op, e.name)
    IN
    /\ Fresh(h)
    /\ Applicable(e)
    /\ Len(log) < MaxLog
    /\ row' = [row EXCEPT ![e.entity] = r]
    /\ log' = Append(log, LogEntry(push[h].device, e.change, "push", e.entity, r))
    /\ Decide(h, [status |-> "accepted", version |-> r.version, cursor |-> Len(log) + 1])
    /\ UNCHANGED <<conflicts, receipts, revoked, resolver>>

\* Mutant: the conflict record is rolled back with the change.
AnswerConflictUnlisted(h) ==
    /\ Fresh(h)
    /\ Conflicting(Current(h))
    /\ Decide(h, Refused("conflict", 0))
    /\ UNCHANGED <<row, log, conflicts, receipts, revoked, resolver>>

\* A stale base is recorded with the version it met; a taken name, a missing
\* reference or a change logged before leaves server_version NULL.  A change
\* that already has a conflict record aborts the transaction instead.
RecordConflict(h) ==
    LET e == Current(h)
        met == IF Stale(e) THEN row[e.entity].version ELSE 0
    IN
    /\ Fresh(h)
    /\ Conflicting(e)
    /\ conflicts[Case(h)].status = "none"
    /\ conflicts' = [conflicts EXCEPT
         ![Case(h)] = [status |-> "open", serverVersion |-> met,
                       envelope |-> e, seen |-> row[e.entity].version]]
    /\ Decide(h, Refused("conflict", met))
    /\ UNCHANGED <<row, log, receipts, revoked, resolver>>

\* The response is written, or the request ends with an error: a serialization
\* failure, a revoked device, a lost connection.  What was committed stays.
EndPush(h) ==
    /\ push[h].busy
    /\ push' = [push EXCEPT ![h] = NoRequest]
    /\ UNCHANGED <<row, log, ledger, conflicts, receipts, revoked, resolver>>

Revoke(d) ==
    /\ d \notin revoked
    /\ revoked' = revoked \cup {d}
    /\ UNCHANGED <<row, log, ledger, conflicts, receipts, push, resolver>>

-----------------------------------------------------------------------------
(* POST /sync/conflicts/{id}/resolve, by an owner or admin *)

\* Mutant: the conflict is read without FOR UPDATE.
ClaimableUnlocked(d, c, key) ==
    /\ conflicts[<<d, c>>].status = "open"
    /\ key # NoKey => ~receipts[key].stored

\* The row lock of the conflict and the advisory lock of the key keep other
\* resolutions out until the transaction ends.
Claimable(d, c, key) ==
    /\ conflicts[<<d, c>>].status = "open"
    /\ key # NoKey => ~receipts[key].stored
    /\ \A t \in Resolvers :
         resolver[t].busy =>
           /\ <<resolver[t].device, resolver[t].change>> # <<d, c>>
           /\ key # NoKey => resolver[t].key # key

Receive(d, c, key, action) ==
    receipts' = IF key = NoKey THEN receipts
                ELSE [receipts EXCEPT ![key] =
                        [stored |-> TRUE, device |-> d, change |-> c, action |-> action]]

Defer(d, c, key) ==
    /\ Claimable(d, c, key)
    /\ Receive(d, c, key, "defer")
    /\ UNCHANGED <<row, log, ledger, conflicts, revoked, push, resolver>>

KeepRemote(d, c, key) ==
    /\ Claimable(d, c, key)
    /\ conflicts' = [conflicts EXCEPT ![<<d, c>>].status = "resolved"]
    /\ Receive(d, c, key, "keep_remote")
    /\ UNCHANGED <<row, log, ledger, revoked, push, resolver>>

\* Mutant: the entity is not compared with the version of the conflict.
ReadUncompared(s, d, c, name, key) ==
    LET conflict == conflicts[<<d, c>>]
        version == row[conflict.envelope.entity].version
    IN
    /\ ~resolver[s].busy
    /\ Claimable(d, c, key)
    /\ EntityChange(conflict.envelope)
    /\ version > 0
    /\ resolver' = [resolver EXCEPT
         ![s] = [busy |-> TRUE, device |-> d, change |-> c, name |-> name,
                 key |-> key, version |-> version, checked |-> FALSE]]
    /\ UNCHANGED <<row, log, ledger, conflicts, receipts, revoked, push>>

\* keep_local and manual_merge, up to GetEntity and the check of the version.
ReadForResolution(s, d, c, name, key) ==
    LET conflict == conflicts[<<d, c>>]
        version == row[conflict.envelope.entity].version
    IN
    /\ ~resolver[s].busy
    /\ Claimable(d, c, key)
    /\ EntityChange(conflict.envelope)
    /\ version > 0
    /\ conflict.serverVersion > 0 => version = conflict.serverVersion
    /\ resolver' = [resolver EXCEPT
         ![s] = [busy |-> TRUE, device |-> d, change |-> c, name |-> name,
                 key |-> key, version |-> version, checked |-> FALSE]]
    /\ UNCHANGED <<row, log, ledger, conflicts, receipts, revoked, push>>

\* validateEntityDependencies, a statement of its own before the write.
CheckReferences(s) ==
    LET job == resolver[s]
        e == conflicts[<<job.device, job.change>>].envelope
    IN
    /\ job.busy
    /\ ~job.checked
    /\ e.op = "upsert" => ParentLive(e)
    /\ resolver' = [resolver EXCEPT ![s].checked = TRUE]
    /\ UNCHANGED <<row, log, ledger, conflicts, receipts, revoked, push>>

\* Mutant: the UPDATE does not name the version it replaces.
WriteAnyVersion(s) ==
    LET job == resolver[s]
        e == conflicts[<<job.device, job.change>>].envelope
        r == Applied(row[e.entity], e.op, job.name)
    IN
    /\ job.busy
    /\ job.checked
    /\ e.op = "upsert" => NameFree(e.entity, job.name)
    /\ Len(log) < MaxLog
    /\ row' = [row EXCEPT ![e.entity] = r]
    /\ log' = Append(log, LogEntry(job.device, job.change, "resolve", e.entity, r))
    /\ conflicts' = [conflicts EXCEPT ![<<job.device, job.change>>].status = "resolved"]
    /\ Receive(job.device, job.change, job.key, "apply")
    /\ resolver' = [resolver EXCEPT ![s] = NoResolution]
    /\ UNCHANGED <<ledger, revoked, push>>

\* The versioned UPDATE, the change log and the end of the conflict.
WriteResolution(s) ==
    LET job == resolver[s]
        e == conflicts[<<job.device, job.change>>].envelope
        r == Applied(row[e.entity], e.op, job.name)
    IN
    /\ job.busy
    /\ job.checked
    /\ row[e.entity].version = job.version
    /\ e.op = "upsert" => NameFree(e.entity, job.name)
    /\ Len(log) < MaxLog
    /\ row' = [row EXCEPT ![e.entity] = r]
    /\ log' = Append(log, LogEntry(job.device, job.change, "resolve", e.entity, r))
    /\ conflicts' = [conflicts EXCEPT ![<<job.device, job.change>>].status = "resolved"]
    /\ Receive(job.device, job.change, job.key, "apply")
    /\ resolver' = [resolver EXCEPT ![s] = NoResolution]
    /\ UNCHANGED <<ledger, revoked, push>>

\* The UPDATE met no row, a constraint refused it, or the connection is lost.
AbandonResolution(s) ==
    /\ resolver[s].busy
    /\ resolver' = [resolver EXCEPT ![s] = NoResolution]
    /\ UNCHANGED <<row, log, ledger, conflicts, receipts, revoked, push>>

-----------------------------------------------------------------------------
Serve(h) ==
    \/ \E d \in Devices, batch \in Requests, base \in BaseCursors :
          StartPush(h, d, batch, base)
    \/ Replay(h)
    \/ RefuseReusedKey(h)
    \/ RefuseCursor(h)
    \/ RefuseMalformed(h)
    \/ RefuseUnfit(h)
    \/ RefuseCommand(h)
    \/ Accept(h)
    \/ RecordConflict(h)
    \/ EndPush(h)

Resolve ==
    \/ \E d \in Devices, c \in Changes, key \in ResolveKeys \cup {NoKey} :
          \/ Defer(d, c, key)
          \/ KeepRemote(d, c, key)
          \/ \E s \in Resolvers, name \in Names :
                ReadForResolution(s, d, c, name, key)
    \/ \E s \in Resolvers :
          CheckReferences(s) \/ WriteResolution(s) \/ AbandonResolution(s)

Next ==
    \/ \E h \in Handlers : Serve(h)
    \/ Resolve
    \/ \E d \in Devices : Revoke(d)

Spec == Init /\ [][Next]_vars

-----------------------------------------------------------------------------
(* Properties *)

\* Replaying the log gives the tables: the entries of an entity carry its
\* versions in order, none is missing, and the one of the current version is
\* the row.  A device that pulls and one that bootstraps end with equal data.
LogReplaysToTables ==
    \A x \in Entities :
        LET history == {i \in 1 .. Len(log) : log[i].entity = x} IN
        /\ \A v \in 1 .. row[x].version : \E i \in history : log[i].version = v
        /\ \A i, j \in history : i < j => log[i].version < log[j].version
        /\ \A i \in history :
             /\ log[i].version \in 1 .. row[x].version
             /\ log[i].version = row[x].version =>
                  log[i].live = row[x].live /\ log[i].name = row[x].name

\* A change takes effect at most once, whatever is retried, by which handler,
\* and even if the user comes back under a new device id.
AppliedOnce ==
    \A i, j \in 1 .. Len(log) :
        log[i].cause = "push" /\ log[j].cause = "push"
          /\ log[i].change = log[j].change => i = j

\* The answer stored for a change says what happened to it: an accepted one
\* points at its entry of the log, and only accepted ones have an entry.
LedgerTellsTheTruth ==
    \A d \in Devices, k \in Keys :
        LET record == ledger[<<d, k>>] IN
        record.found =>
          IF record.outcome.status = "accepted"
            THEN \E i \in 1 .. Len(log) :
                    /\ i = record.outcome.cursor
                    /\ log[i].cause = "push"
                    /\ log[i].device = d
                    /\ log[i].change = record.envelope.change
                    /\ log[i].version = record.outcome.version
            ELSE \A i \in 1 .. Len(log) :
                    log[i].cause = "push" /\ log[i].device = d =>
                      log[i].change # record.envelope.change

\* Every change that was answered with a conflict is in the list an admin
\* sees, and the list holds no other.
ConflictsAreListed ==
    \A d \in Devices, c \in Changes :
        conflicts[<<d, c>>].status # "none" <=>
          \E k \in Keys : /\ ledger[<<d, k>>].found
                          /\ ledger[<<d, k>>].envelope.change = c
                          /\ ledger[<<d, k>>].outcome.status = "conflict"

\* An answer on its way to a device is the stored one, and the acknowledged
\* cursor never lies beyond the log unless the device claimed it itself.
AnswersMatchLedger ==
    \A h \in Handlers :
        /\ push[h].cursor <= Larger(push[h].base, Len(log))
        /\ \A i \in 1 .. Len(push[h].answers) :
             LET a == push[h].answers[i]
                 record == ledger[<<push[h].device, a.envelope.key>>]
             IN record.found /\ IF a.reused THEN record.envelope # a.envelope
                                ELSE record.envelope = a.envelope /\ record.outcome = a.outcome

\* "A repeated key returns the result of the first processing": a decision is
\* never revised or forgotten, and the log only grows.
DecisionsAreFinal ==
    [][/\ \A k \in Devices \X Keys : ledger[k].found => ledger'[k] = ledger[k]
       /\ Len(log) <= Len(log')
       /\ \A i \in 1 .. Len(log) : log'[i] = log[i]]_vars

\* A conflict is resolved once: at most one write, none after keep_remote,
\* and a stored receipt agrees with it.
ResolvedOnce ==
    \A d \in Devices, c \in Changes :
        LET writes == {i \in 1 .. Len(log) : /\ log[i].cause = "resolve"
                                             /\ log[i].device = d
                                             /\ log[i].change = c}
            kept == {k \in ResolveKeys : /\ receipts[k].stored
                                         /\ receipts[k].device = d
                                         /\ receipts[k].change = c
                                         /\ receipts[k].action # "defer"}
        IN
        /\ \A i, j \in writes : i = j
        /\ writes # {} \/ kept # {} => conflicts[<<d, c>>].status = "resolved"
        /\ \A k, l \in kept : k = l
        /\ \A k \in kept : writes # {} <=> receipts[k].action = "apply"

\* A resolution that writes replaces exactly the version shown with the
\* conflict, when the conflict carries one.
ResolutionReplacesShownVersion ==
    [][\A d \in Devices, c \in Changes :
         LET conflict == conflicts[<<d, c>>] IN
         (/\ conflict.status = "open" /\ conflicts'[<<d, c>>].status = "resolved"
          /\ log' # log /\ conflict.serverVersion > 0)
           => row[conflict.envelope.entity].version = conflict.serverVersion]_vars

\* What the refusal "entity changed after conflict was recorded" promises for
\* every conflict over an existing entity: no resolution writes over a version
\* nobody compared it to, whatever the reason of the conflict.
NoUnseenOverwrite ==
    [][\A d \in Devices, c \in Changes :
         LET conflict == conflicts[<<d, c>>] IN
         (/\ conflict.status = "open" /\ conflicts'[<<d, c>>].status = "resolved"
          /\ log' # log /\ conflict.seen > 0)
           => row[conflict.envelope.entity].version = conflict.seen]_vars

-----------------------------------------------------------------------------
(* The inductive invariant behind the safety properties *)

LedgerKeysMatch ==
    \A d \in Devices, k \in Keys :
        ledger[<<d, k>>].found => ledger[<<d, k>>].envelope.key = k

\* No change takes effect without a record of its acceptance.
LoggedIsDecided ==
    \A i \in 1 .. Len(log) :
        log[i].cause = "push" =>
          \E k \in Keys :
             LET record == ledger[<<log[i].device, k>>] IN
             /\ record.found
             /\ record.envelope.change = log[i].change
             /\ record.outcome.status = "accepted"

\* A resolution under way owns an open conflict and an unused key.
ResolverInv ==
    \A s \in Resolvers :
        LET job == resolver[s]
            conflict == conflicts[<<job.device, job.change>>]
        IN
        job.busy =>
          /\ conflict.status = "open"
          /\ conflict.serverVersion > 0 => job.version = conflict.serverVersion
          /\ job.key # NoKey => ~receipts[job.key].stored
          /\ \A t \in Resolvers \ {s} :
               resolver[t].busy =>
                 /\ <<resolver[t].device, resolver[t].change>> # <<job.device, job.change>>
                 /\ job.key # NoKey => resolver[t].key # job.key

\* Every step preserves this conjunction: what the ledger, the log, the
\* conflicts and the answers say of a change agrees.
SyncInv ==
    /\ TypeOK
    /\ LogReplaysToTables
    /\ AppliedOnce
    /\ LedgerKeysMatch
    /\ LoggedIsDecided
    /\ LedgerTellsTheTruth
    /\ ConflictsAreListed
    /\ AnswersMatchLedger
    /\ ResolverInv
    /\ ResolvedOnce
=============================================================================
