# MomoBox: specifications and proofs

MomoBox is a household inventory app. A Flutter client (`src/lib`) keeps all data
in a local SQLite database and works offline; a self-hosted Go server on a NAS
(`src/backend`, PostgreSQL) joins the devices of a family, imports what a device
had collected before, switches appliances through Home Assistant, and takes what
they use from the stock. What is hard in it is that every effect has to happen
once although requests overlap, are repeated, lose their answers, and stop
between two commits.

This directory holds TLA+ specifications of the server and of the loop with which
a device follows its change log, translated from the Go, SQL and Dart source, the
TLC runs that check them on small instances, and proofs that hold for every
instance. `PROJECT.json` maps every definition to the lines it stands for.

## 1. Inventory

| component | state it keeps | operations | module |
|---|---|---|---|
| Change log and pull (`store/syncpostgres`, migrations 0001 and 0005, `sync_engine.dart`) | `change_log` with one identity sequence for all families; `pullCursor` of a device | append in a transaction, pull a page, read a snapshot, apply a change, store a snapshot | `ChangeLog` |
| Sync push (`sync/service.go`, `repository.go`, `change_guard.go`, `entities.go`) | business tables with versions, `sync_idempotency`, `conflict_records`, `change_log` | replay, refuse, accept, record a conflict; one transaction per change | `SyncServer` |
| Conflict resolution (`repository.go`, migration 0009) | `conflict_records.status`, `sync_conflict_resolution_receipts` | defer, keep_remote, keep_local, manual_merge | `SyncServer` |
| Inventory commands (`inventory/service.go`, `inventorypostgres`) | batches, quantities, `consumption_records` | restock, consume (first expired first out, or named batches), discard | `Stock`, `Inventory` |
| Home Assistant automation (`automation.go`, `events.go`) | groups, recipes, rules, runs, suggestions, deductions | save, process an event, confirm, ignore | `Linkage` |
| Home Assistant gateway (`homeassistant/service.go`, `hahttp`, `hapostgres`) | integration, devices, entities, permissions | create, update, test, discover, grant, delete | `Gateway` |
| Home Assistant commands (`service.go`, `sync_executor.go`, `execution.go`, `audit.go`) | `ha_command_executions`, `ha_command_logs`, receipts | check, reserve, call, complete, audit, settle | `HACommand`, `Catalogue` |
| Initial import (`sync/import.go`, `syncpostgres/import.go`) | plans, checkpoints, receipts, archived history | preflight, confirm, recover a receipt, page the history | `InitialImport`, `ImportRow` |
| Families and invitations (`family`, `familypostgres`) | accounts, members, invitations, current family | register, create, invite, join, select | `Families` |
| Sessions and devices (`auth`, `authpostgres`, `syncdevice`) | refresh tokens, devices | login, refresh, log out, register, revoke | `Sessions` |
| Bootstrap handshake (`repository.go` 202-338) | checkpoint per device, pending snapshot | read snapshot, complete, confirm | snapshot in `ChangeLog`, a confirmed bootstrap in `InitialImport` |
| Client outbox, engine, scheduler, local repositories | see `PROJECT.json` | | pull loop in `ChangeLog`; the rest not modelled |
| Migrations, media and AI, HTTP decoding, backup, UI, deployment | see `PROJECT.json` | | not modelled |

How they interact. A request carries an access token; `AuthorizeClaims` looks up the
user, the membership and the device, so that a revocation takes effect at once
whatever a token says. A device pushes changes in batches. The server decides
each one in a `SERIALIZABLE` transaction of its own, under an advisory lock on its
idempotency key; what a constraint refuses is rolled back to a savepoint, and the
conflict record and the ledger entry are still written. A change may be an
inventory command, which works on the same batches as the deductions for appliance
runs, or a Home Assistant command, which cannot be executed inside a transaction.
Every write path appends to `change_log`, whose trigger takes one advisory lock
before the sequence moves. Requests about families, sessions, imports and the
gateway use `READ COMMITTED`, row locks, and statements that commit by themselves.

What makes it hard: sequences that advance outside transactions; a retry that
overlaps the first attempt; answers lost after the commit; a batch of which a
prefix is committed; a read and a later write in one weaker transaction; two
statements of one request of which only the first commits; calls to another
system between two commits; refusals that commit. `PROJECT.json` lists each hazard
at its line with the properties that cover it.

## 2. Modules

| module | contents | proofs |
|---|---|---|
| `FamilyFeed` | abstract: a family owns an append-only feed, a device holds a growing prefix of it | |
| `ChangeLog` | writers' transactions, the cursor lock, pages, snapshots; implements `FamilyFeed` | `ChangeLogProofs` |
| `SyncServer` | push handlers, ledger, conflict records, resolution, revocation | `SyncServerProofs` |
| `Stock` | batches and allocation, as operators for the next two | |
| `Inventory` extends `Stock` | commands of devices and edits of rows | |
| `Linkage` extends `Inventory` | appliance runs, suggestions, deductions from the same stock | `LinkageProofs` |
| `Gateway` | the integration of a family under overlapping requests of its admins | `GatewayProofs` |
| `OneShot` | abstract: a request id stands for one command, carried out at most once | |
| `HACommand` extends `Gateway` | commands over both routes while the gateway changes; implements `OneShot` | `HACommandProofs` |
| `Catalogue`, instantiated by `HACommand` | the four tables that say which commands an entity takes | `HACommandProofs` |
| `InitialImport` | plans, confirmations and paging against everybody else | `InitialImportProofs` |
| `ImportRow`, instantiated by `InitialImport` | what validation takes and what the tables take | `InitialImportProofs` |
| `Families` | registration, families, invitations | `FamiliesProofs` |
| `Sessions` | refresh tokens and devices | `SessionsProofs` |
| `MC*` | the instances for TLC | |

Operators marked `Mutant` in a comment are plausible bugs; no specification uses
them. Each property is known to fail when one of them takes the place of the
original (`PROJECT.json`, `mutants`).

What an action is depends on the isolation of the code. A `SERIALIZABLE`
transaction is one action. A `READ COMMITTED` transaction is as many as it has
points at which others can come in between: an action ends where the code releases
nothing but reads anew, waits for a lock, or calls out. A statement that commits
by itself is one. A handler can be lost before any of its actions.

### ChangeLog

`sequence` is the identity sequence, `visible[f]` the committed cursors of a
family, `txn[w]` the transaction of a connection, `cursorLock` the holder
of the advisory lock. A statement is an action: `Begin`, `AcquireCursorLock` (the
statement trigger), `InsertRow` (the identity is drawn, the row stays
uncommitted), `RollbackToSavepoint` (rows vanish and the lock taken
since the savepoint is released, but the numbers are not given back),
`Commit`, `Rollback`. `Pull` answers with the rows after the cursor up to the limit,
`ReadBootstrap` with a snapshot at the largest cursor of the family; the answer
travels in `reply[r]`. The device applies a page one change at a time: an entity change in
two local transactions, its effect (`StoreEffect`) and its receipt with the cursor
(`RecordReceipt`), an inventory command in one (`ApplyCommand`). It may stop anywhere
(`DropReply`: a lost answer, a crash, a change that must wait), also between the two, and
then stores the change a second time. A snapshot is stored at once. One answer per device
suffices, since `SyncExecutionCoordinator` runs pulls and snapshots one after another.

### SyncServer

One family. `row[x]` is the row of an entity in any of the business tables; `log`,
`ledger`, `conflicts`, `receipts` are the four tables; `push[h]` is the request a
handler works on; `resolver[s]` is a resolution between its read and its write.

* `StartPush` passes authentication and `validatePushRequest`. `Replay`,
  `RefuseReusedKey`: the ledger knows the key; the fingerprint agrees or not.
  `RefuseCursor`, `RefuseMalformed` (before anything is compared), `RefuseUnfit` (a data
  constraint, after the version and the references), `RefuseCommand`: stored rejections.
  `Accept`: row, log entry and ledger entry. `RecordConflict`: conflict record and ledger
  entry, for entity changes only, since the record of a command cannot be written (section 3).
  `EndPush`: the response, or an error after any prefix of the batch.
* `Defer`, `KeepRemote`; `ReadForResolution`, `CheckReferences` (a statement of its own),
  then `WriteResolution` or `AbandonResolution`; `Revoke`.
* The advisory lock on the key would not suffice alone: the snapshot is taken by the
  statement that waits for it, so a second handler may read the ledger of before. It
  then violates the primary key of `sync_idempotency` or fails to serialise, and the
  request ends with an error, which is `EndPush`. That PostgreSQL does so is assumed.
* Receipts of resolutions are keyed by device and key; a member of `ResolveKeys`
  stands for such a pair. A repeated resolution with a known key returns
  the stored receipt and changes nothing, so it is no action.
* A command touches one row here, and its batch may always be gone or out of stock, so
  `RefuseCommand` is enabled for every command. Commands over several batches, with
  quantities, are in `Inventory`; Home Assistant commands are in `HACommand`.
* `conflict.seen` is a history variable: the version the entity had when the
  conflict was recorded. No action reads it.
* Left out: the audit log, tombstones (written, not read by these handlers).

### Stock, Inventory, Linkage

`Stock` translates the query of candidates, its order and the loop of `allocateFEFO`
(`Allocate`, a fold over the candidates that visits a batch when all before it in the
order have been; `Last` is the one whose turn comes last), and states beside it what
"first expired, first out" demands without a loop and with an order of its own
(`IsFEFO`). `Inventory` has the edits, deletions and revivals of batches and products
(deleting a product leaves its batches alone) and the commands: `Execute` changes
every batch of a plan, appends a record for each and publishes them in one log
entry; `Reject` is a refusal or a conflict. Each command is decided once, which is what
`SyncServer` shows. `Linkage` adds the configuration by admins, `StartRun` and
`CompleteRun` (the events of an appliance; the code takes any enabled rule of the
entity, so the model does, too), and the decision: `Ignore`, `MarkInsufficient` if the
stock has changed since, `Deduct`. The calendar goes forward only: the time zone of a family
is written when the family is created and by nothing else.

Left out: batches that an import brought in (section 5), units, the audit log, the window in
which late events are taken, and the transaction of `inventorypostgres` with a receipt of
its own, which has no caller.

### Gateway and HACommand

The requests of admins read the integration, call Home Assistant, and write:
`ReadForUpdate`/`WriteUpdate`, `StartTest`/`EndTest`, `StartDiscover`/`Found`/`ReplaceDevices`/
`LookUpDevices`/`ReplaceEntities`, `StartDelete`/`DeleteEntities`/`DeleteDevices`/
`FinishDelete`, `StartGrant`/`FinishGrant`, with `admin[a]` holding what was read in between.
A deletion locks the rows of each statement until it commits, and a discovery the integration
and the entities, so the writes of others wait (`GrantsHeld`, `EntitiesHeld`, `DevicesHeld`,
`IntegrationHeld`). The foreign key `ha_entities_device_fk` is part of `ReplaceEntities`.

A handler of a command goes through `worker[w].at`: *release* (synced commands look up
the device again), *look* up integration and entity, *check* the permission, read the
*token*, *reserve* the request id, *call* Home Assistant, *complete* the execution, *audit* it, *settle* the receipt of a
synced change. Each is committed by itself. The call arrives or not, and its answer
arrives or not. `Catalogue` gives the capabilities derived from a report, the form of a
request, the commands allowed for the capabilities, and the service call, each as
it stands in the code.

Left out: which addresses the dialer accepts, states, encryption, names of
parameters, synonyms of capabilities, and a denial because of what the entity last
reported (`service.go:443`), which ends like the denial of a permission. How a push handles the form
or the base cursor of a synced command is in `SyncServer`.

### InitialImport and ImportRow

A preflight is one transaction under the family's import lock and freezes the
manifest under its import id with a fresh checkpoint (`PreflightReady`), withdraws
what is frozen (`PreflightBlocked`) or repeats the receipt. A confirmation opens
(identity under share locks, import lock, plan: `Open`, `Repeat`, `Refuse`), locks the
tables, rechecks, and writes rows, log, archive and receipt in one
commit. Beside it entities come and go, the user switches families, devices are
revoked, conflicts open. `ReadPage` is the paging through the archive with its fixed end.
The target checks of a preflight are several `READ COMMITTED` statements and one step here;
nothing proved rests on their agreement, since a confirmation repeats all of them under the
table locks and goes by those alone.
`offers`, `receipts` and `withdrawn` are histories of what was answered and withdrawn;
`written` counts what each import wrote.

`ImportRow` follows one row of a manifest through the validation, the values the
insert computes, and the constraints as of migration 0008.

Left out: renamed categories, prices, holes other families leave in the archive's
cursors, the cursors in prepared receipts.

### Families

`Register`/`CreateUser` (the mode is checked before the account is created),
`CreateFamily`, `CreateInvite`, `Expire`, and joining: `FindInvite`, `AlreadyMember` or
`NotYetMember`, `Redeem` (the row lock of the invitation; everything is checked again),
`Insert` (membership and use count commit together; the count repeats the conditions of
`Redeem`), `Select` (the current family, a statement of its own). `tokens[u]` are the families
u may hold an access token for: an invitation is for the family of the token, whichever is
current now. `via` and `told` are histories: the invitation a
member came with, and the family a user was answered. No code removes a member,
changes a role or revokes an invitation.

### Sessions

`Login` with or without a device goes through `LoginDevice`, `Issue` (the family is read
again), `Create` (the scope of the device as of the statement's start) and
`InsertToken`. `Refresh` reads, then rotates: `ReadScope`, `ShareDevice` (`FOR SHARE`),
`LockToken` (token and user `FOR UPDATE`, everything compared again), `Rotate`. A
revocation holds the device (`MarkDevice`), settles which tokens it updates
when its second statement begins (`SeeTokens`), and commits (`CommitRevocation`).
`Logout`/`RevokeToken` lock nothing but the token. `token[t].origin` is a history variable: the
login a token descends from.

Memberships are constant (nothing ends one), a family may be selected at any time
(more than `Families` allows), any token may be presented by anybody, and a token
that expires is one no request presents any more. `Touch`, `AdvanceSyncCursor` and
`RecordCurrentSync` have no caller outside their package.

## 3. Runs

| run | what it checks | distinct states |
|---|---|---|
| `change_log` | `NoSkippedChange`, `CursorInv`, `CommitOrderIsCursorOrder`, refinement of `FamilyFeed`, `EventuallyDelivered` under fairness | 149,725 |
| `sync_push` | the log replays to the tables, changes are applied once, ledger and answers are true, conflicts are listed, decisions are final | 425,588 |
| `sync_resolve` | `SyncInv`, `ResolvedOnce`, `ResolutionReplacesShownVersion` | 1,021,742 |
| `stock` | `StockIsAccounted`, `TakenAsAsked`, `AllocationIsFEFO`, `ExpiredOnlyDiscarded`, `DeductionsTellTheStory`, `DeductedAsRequired`, `DecidedIsFinal` | 917,672 |
| `gateway` | `GatewayInv`, `DeletionIsFinal` | 1,331,990 |
| `ha_command` | `AtMostOnce`, `SuccessIsTrue`, `AuditedSuccessStays`, refinement of `OneShot`, `SuccessIsRecovered` under fairness, `CommandTablesAgree` | 341,300 |
| `import` | `ImportIsSound`, `WithdrawnStaysWithdrawn`, `WritesAreSound`, `NothingSkipped`, `PreparedIsStorable` | 1,173,024 |
| `families` | `UsesAreJoins`, `OneOwner`, `MembersStay` | 642,718 |
| `sessions` | `SessionsInv`, `RevokedWithDevice`, `RotatesInScope` | 1,563,234 |
| `sync_unseen_overwrite` | violation of `NoUnseenOverwrite` (finding 1) | |
| `stock_two_rules` | violation of `OneDeductionPerRun` (finding 2) | |
| `families_login` | violation of `JoinedMayLogIn` (finding 3) | |

Bounds, and why they are enough to be interesting.

* `change_log`: three cursors, two families, three writers on one sequence, one device.
  One writer can hold an uncommitted cursor while another has committed a
  later one and a third waits, which is the least a gap needs; two families show
  that the lock has to be global. `PageLimit` 2 makes a page that is cut and one that a
  device leaves in the middle.
* `sync_push`: two handlers, two devices, batches of two, a log of three. One
  device can retry while its first request is still served; both may send the
  same command; the key of the command is reused for an edit that is
  stale, which is a conflict, or that a data constraint refuses; base cursor 2 is
  beyond the log at first (a restored server) and within it later.
* `sync_resolve`: one device pushes while two admins resolve; the changes make a
  stale version, a taken name, a missing or deleted reference, a malformed change and a
  change of a deleted entity. A log of four has room for the writes of two racing resolutions.
* `stock`: two stories share one instance. Milk is bought in two batches, eaten across
  both, edited, deleted, thrown away, over two days, and the product is deleted and revived
  (`Saved`; the others are only deleted); `MaxQuantity` 3 can be exceeded by
  two restocks. Soap and softener are used by a machine whose recipe takes a group
  twice, while soap is bought, its batches are edited and deleted, and the group, the recipe and the
  rule are saved anew; the suggestion may be confirmed, ignored or found short.
* `gateway`: two admins, one device, an entity with and one without it, two
  tokens, two discoveries: each overlap of two requests, and a second discovery whose
  device rows get other ids.
* `ha_command`: one request id. A revoked tablet's handler is about to reserve it
  while a phone uses the same id over both routes with the second worker, any handler is
  lost, and an admin tests, discovers, grants and deletes. One id suffices, since
  nothing relates two ids; other sets of calls are covered by the proofs.
* `import`: one user with one device, two import ids, four manifests (a backup; the same with a mapped
  category; the rest of its history; a row the tables refuse), a family with or without a
  category of its own, two confirmations,
  pages of one row, two checkpoints. Two ids with overlapping rows are what it takes to
  write a row twice, two checkpoints what it takes to confirm a withdrawn plan.
* `families`: three people (two with accounts), one family, two invitations for one or
  two uses, two connections: two people meet at the last use, one person with two
  invitations, one retries after a crash. The violation needs one connection and one
  invitation for two uses.
* `sessions`: one user in two families, one device, three tokens, two connections: two
  refreshes of one token, a refresh with a revocation, with a login, with a change
  of family. A second user matters only as a manager who may revoke; the
  proofs cover that.

`CHECK_DEADLOCK FALSE` stands where the bounds are exhausted in the end, and where a
system to which nobody sends anything may rest.

Fairness. `PullFairness` (`ChangeLog`): a request in flight is answered or fails, since
the HTTP client has a timeout: weak fairness of `ApplySnapshot \/ DropReply`. The
scheduler pulls periodically and at every foreground and network event, so an
attempt that may always be cut short succeeds some day: strong fairness of `Pull`,
of an effect (`StoreEffect \/ ApplyCommand`), of `RecordReceipt` and of `FinishPage`. Nothing is assumed
of writers. `CommandFairness` (`HACommand`): a handler that can run does, an outbox repeats an unanswered change
(strong fairness of its start), and one day no handler is lost; without the last, every
attempt may be interrupted.

### Findings

1. `NoUnseenOverwrite`. `docs/nas/01-domain-sync-model.md:163` promises no silent
   overwrite, and `repository.go:590` refuses a resolution with "entity changed after
   conflict was recorded". It holds for stale versions
   (`ResolutionReplacesShownVersion`, proved). For a conflict raised by a constraint or
   a missing reference `server_version` is NULL (`change_guard.go:26`) and the
   comparison is skipped: a renaming is refused at version 1 because another row has the
   name, a deletion brings the entity to version 2, and a manual_merge under a free name
   replaces version 2 and with it revives the row.
2. `OneDeductionPerRun`. `docs/REQUIREMENT.md:213` promises one deduction per wash. With two
   enabled rules for one machine `ProcessEvent` takes any one of them, runs and
   suggestions are unique per rule, and repeated events of one run make two suggestions
   that can both be deducted.
3. `JoinedMayLogIn`. A join commits and the server stops before the family is selected. If the
   invitation has uses left (`max_uses` of two or more; a used up one is refused first), the
   retry takes the early return for a member, answers success and selects nothing, so
   that the login with a device, which comes next (`docs/nas/01-domain-sync-model.md:182-184`),
   is refused, and no operation selects the family any more.

Smaller disagreements met on the way, without a run:

* An inventory command has no `entity_id` (`nas_sync_models.dart:216`), and `insertConflictSQL`
  casts that parameter without `NULLIF` (`repository.go:77`), so no conflict of a command can
  be recorded, although `docs/nas/01-domain-sync-model.md:50` has the conflict list show them. A
  command on a batch that is gone is answered `VALIDATION_FAILED` (`change_guard.go:27`); one that
  is logged already, under another device, fails in `recordConflict` (`service.go:477`) outside
  the savepoint, and the push is aborted there at every retry.
* A mode of a climate entity is compared without regard to case (`validation.go:204`), stored in
  lower case (`homeassistant/service.go:302`) and sent as it was spelled (`client.go:215`): `HEAT`
  passes where `heat` was reported, although `docs/nas/03-security.md:161` admits only the values
  discovered. `SentWithinLimits` therefore speaks of modes up to case.
* A new linkage rule has no id, the service gives it one, and the repository looks for
  the rule under it (`hapostgres/automation.go:277`): rules can be edited, never created
  (`CreateLinkageRule`). Rules that exist were installed otherwise, so a specification
  starts with any set of them in place (`AutomationInit`).
* `TestIntegration` writes the whole row it read before the call back, and with it an old
  token (`homeassistant/service.go:246`; `docs/nas/03-security.md:136`).
* A deletion of an integration that overlaps a discovery leaves entities that look
  controllable (`integration.go:174`); commands to them are refused, since the
  integration is gone.
* A command whose integration is deleted during the call is carried out and leaves no
  audit row (`service.go:514`).
* Manifests with empty words or with names padded by blanks pass the validation and are
  refused by the tables (`sync/import.go:316`, `:352`); `PreparedIsStorable` excepts them.
* Two first accounts can both be created in `first_setup` mode (`auth/service.go:54`), and in
  the `invite_only` mode an invited person cannot register (`auth/service.go:58`).
* The refresh token of a login that overlaps the revocation of its device stays live
  (`refresh_tokens.go:55`; `docs/nas/03-security.md:68`). It cannot be used, since every
  refresh looks at the device again. That is why `RevokedWithDevice` speaks of rotations.
* A logout that overlaps a refresh revokes the old token only; the replacement stays live.
  A refresh whose answer is lost leaves the client with a replaced token: it must log in again.

## 4. Proofs

The eight proof modules are checked from nothing by `tlapm`. They state every property of
the passing runs but the two about liveness, for all values of the constants. They
assume what the named `ASSUME`s of the modules say and nothing else: the no-value
constants are distinct from the values, functions have their domains, bounds are
natural numbers, and the sets that are summed over (batches, consumable groups) are finite.
Three assumptions say more:

* `KeyAssumption` (`SyncServer`): a change is always sent under the same key. The client
  guarantees it by deriving the key from the change id. The server does not check it, and
  `LedgerTellsTheTruth` depends on it.
* `CommandsAssumption` (`Inventory`): two commands never share an operation id. The client draws a
  UUID for each command (`inventory_repository.dart`); the server takes the id as it comes
  (`inventoryCommand`, `repository.go`), and `TakenAsAsked` depends on it. Amounts are any integers.
* `LinkageAssumption` (`Linkage`): the operation id of a deduction is that of no command.
  The server draws it anew for each confirmation (`newOperationID`, `automation.go`).

`ChangeLogProofs`. `NoSkippedChange` is not inductive: it says nothing of uncommitted
rows and of answers in flight. `CursorInv` adds that only the
holder of the lock has uncommitted rows, that those lie beyond every committed row,
that cursors a device knows are cursors of committed rows, and that an answer in
flight together with what is stored is complete up to its cursor. Then commits
extend each family's rows at the end, a device holds a prefix of them that reaches its
cursor (and is ahead of it between an effect and its receipt), and every step is a
`Publish`, an `Extend` or a stutter of `FamilyFeed` (`FeedRefinement`).

`SyncServerProofs`. `SyncInv` joins the six safety properties with the types and three
facts: a stored change is stored under its own key (`LedgerKeysMatch`); an entry in the log
has a record of its acceptance (`LoggedIsDecided`), so that a change that is not found
in the ledger was not logged for that device; a resolution under way owns an open
conflict and an unused key, and shares neither (`ResolverInv`). Without the last two
admins could both write. Action properties follow from the same invariant.

`HACommandProofs`. `AtMostOnce` needs that between reservation and completion the request id
is the handler's alone and nothing was carried out under it (`ReservationsAreHeld`), that
the ledger knows of every command that was carried out (`LedgerKnows`), and that what a
handler takes for a success is one (`HandlersAreHonest`). The refinement of `OneShot`
(`KeepsThePromise`) maps the reservation to `Bind`, the call to `Perform`, and each answer to
`Tell`.

`InitialImportProofs`. A transaction past its checks is alone, its plan is still prepared and
the one it was asked for (the import lock), its importer still may import (the share
locks), and while it is about to write what the recheck found still holds (the table
locks): `Locks`. What an import wrote is never nowhere again, so a recheck finds it:
`WrittenIsThere`. From these, rows are written once, imports are whole, receipts
never change, labels stay unique, and a withdrawn plan is never carried out.

`FamiliesProofs`. What a request has read of its invitation still holds (`WhatWasRead`; nothing
changes a made invitation but its count), and of the requests past the recheck one at a
time has an invitation (`OneAtATime`, the row lock), so that the use it found free is
still free. With that, uses are joins, a family has one owner, and memberships last.

`SessionsProofs`. `HandlersFit`: what a request relies on is true as long as it relies on it:
its token exists and is its user's; from the share lock on the token's device is active;
about to rotate, the token is live and the target is the current family; about to commit
a revocation, every rotated token of the device is among those it will update. `LocksHold`:
no two rotations of one user are past their checks, and no rotation holds a
device that is being revoked. The proof shows where each of the three locks of a rotation is needed: the
device against revocations (`RevokedWithDevice`), the token against another rotation
(`OneLiveToken`), the user against a change of family (`RotatesInScope`).

`GatewayProofs`. `GatewayInv` says nothing of what overlapping requests remember. `WhatWasRead`
adds it: an update or a test that will write the whole row has read a live one in
which enabled and status agree, and a test one that was enabled. With that,
`IntegrationIsConsistent` and, from the condition each write repeats, `DeletedForGood` follow
for any overlap of requests.

`HACommandProofs` also has the four tables of `Catalogue` (`TablesAlwaysAgree`): from the domains each
capability can come from (`CapabilitiesOfDomains`) every command that passes has a service
call, its parameters keep to the limits of the report (a mode up to the case of its
letters, of which `Lower` is only assumed to be idempotent), and an entity is offered for
control exactly if some command passes. No bound on reports or requests is left.

`InitialImportProofs` also has the pages of the archive (`PagesSkipNothing`): the archive grows only
above its highest cursor, finite at every moment, and a reader has every row up to its
cursor within the end it was given. And it has the rows of a manifest
(`PreparedRowsAreStored`): for every integer range and every length of a name, what Go
checks of a plain row implies what SQL checks.

`LinkageProofs`. The inductive invariant `AccountInv` joins four things. `Books`: the stock, its
history and the log agree, the history is finite, and there is nothing in a row that does not
exist, of which what was ever put in is never less than what is there (without which
`applyBatchChangeSQL` would raise `initial_quantity`, and the sum of the increases would
be off). `TakenAsAsked` and `DeductionsTellTheStory`, which say of whom each record is: the operation
of a command not yet accepted, or of an open suggestion, is fresh. `RunsFit`: a suggestion
belongs to a completed run, so a repeated completion finds no run to complete.
Commands and confirmations are both shown to be one kind of step (`Moves`: new quantities,
one fresh record per batch, all of it published), and one lemma (`MovesKeep`) takes the books over
such a step. `ExecuteMoves` and `DeductMoves` show that the code's two ways of changing
stock are such steps; `PlanAddsUp` and `DrawnIsRequired` that they move exactly what was asked
for. `StepAccounts` holds for every state that satisfies the invariant, so the theorems also
cover the states in which the run `stock` begins; TLC finds `AccountInv` to hold in all of
that run's states.

Sums and the loop of `allocateFEFO` are folds over finite sets, which the library defines by
recursion over the elements, one `CHOOSE` at a time. The library's induction theorems take a
predicate as a parameter, which the provers cannot instantiate. The induction is done
with sets instead: a collection of subsets of a finite set that contains each set whose proper
subsets it contains, contains them all (`OverSubsets`, from a subset of least cardinality).
With it, a fold is shown to exist and to be the one the library chooses (`FoldExists`, `FoldsAgree`,
`SumIsOne`), to be independent of the order for sums (`SumFacts`), and to keep the loop's invariant
(`LoopInv`, `VisitKeeps`, `Allocation`): the amounts and what remains are the need, and a batch is
used only when all before it are used up. `AllocationIsAlwaysFEFO` then compares the code's order
with that of last days (`OrderOfLastDays`).

Only model-checked: `EventuallyDelivered` and `SuccessIsRecovered`, since liveness under fairness and `ENABLED`
are beyond the prover, and the three violations, whose counterexamples TLC finds.

## 5. Not modelled

* The client, except for its pull loop: the outbox with its lease of five minutes and late
  answers (`sync_outbox_repository.dart:1112`), the push acknowledgement cursor
  (`sync_engine.dart:861`), local edits during a snapshot (`:1085`), and the replacement of engines
  (`sync_scheduler.dart:272`). They need one model of outbox, engine and business adapter
  together, which would be as large as the server's.
* The bootstrap handshake: a second bootstrap replaces the checkpoint of the first
  (`repository.go:290`), and the confirmation trusts the receipts the device reports.
* Batches that an import brought in, next to commands: their quantity has no consumption
  record, and only they may have the status `expired` (`sync/import.go:346`), which the
  commands treat like `discarded` (`inventorypostgres/repository.go:372`): such a batch is
  never taken from, and cannot be discarded either, whatever its quantity.
* Deleted rows that others refer to (`DeleteEntity`, `repository.go:829`): a device stores
  them by rules of its own.
* A synced Home Assistant command that is refused for good fails the rest of its
  push at every attempt (`sync/service.go:889`); `HACommand` ends at the refusal.
* Migrations, media, OCR and AI, HTTP decoding, backup, UI, deployment: input and output with
  little state of their own. `PROJECT.json` gives the reason for each.

## 6. Plan

1. An abstract ledger of stock (movements of batches, each recorded and published once) that
   `Linkage` implements; `Moves` is its step already, and the theorems of `LinkageProofs` its invariants.
2. Theorems that carry results across compositions: what `Gateway` promises while commands of `HACommand`
   run, and what a synced inventory command of `SyncServer` may rely on from `Inventory`.
3. `SyncClient`: outbox, engine and adapter, and `SyncSystem` that composes it with
   `SyncServer`: no edit is lost or overwritten unseen, server and devices converge.
