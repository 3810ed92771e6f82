------------------------------ MODULE HACommand ------------------------------
(***************************************************************************)
(* Commands to Home Assistant, given over HTTP or inside POST /sync/push.  *)
(*                                                                         *)
(* A handler reserves the request id in ha_command_executions, calls Home  *)
(* Assistant outside any transaction, completes the execution, appends an  *)
(* audit row and, for a synced change, settles the receipt: each of these  *)
(* commits on its own, and the handler may be lost before any of them.     *)
(* Checks of a synced change that do not depend on the command (its form,  *)
(* the base cursor) are those of SyncServer.                               *)
(***************************************************************************)
EXTENDS Gateway

CONSTANTS
    Devices,   \* sync devices of the family
    Calls,     \* commands: request id, device, entity, role of the user, command
    NoCall,
    Workers,   \* handlers of commands
    Brightness, Temperatures, Modes, Lower, None, Unsupported   \* of Catalogue

Table == INSTANCE Catalogue

Requests == {c.request : c \in Calls}

ASSUME CallsAssumption ==
    /\ \A c \in Calls : c.device \in Devices /\ c.entity \in Entities
                        /\ c.role \in Roles /\ c.command \in Commands
    /\ NoCall \notin Calls

ASSUME CatalogueAssumption ==
    /\ Unsupported \notin Table!ServiceCalls
    /\ Lower \in [Modes -> Modes]
    /\ \A m \in Modes : Lower[Lower[m]] = Lower[m]

VARIABLES
    ledger,     \* ha_command_executions by request id
    audit,      \* ha_command_logs by request id
    receipt,    \* sync_idempotency of accepted commands by device and request id
    revoked,    \* revoked devices
    worker,     \* worker[w]: the command a handler works on
    performed,  \* Home Assistant: how often it carried out a command
    told        \* commands answered with success

commandVars == <<ledger, audit, receipt, revoked, worker, performed, told>>
vars == <<gatewayVars, commandVars>>

Execution == [status : {"none", "pending", "succeeded", "unknown"}, call : Calls \cup {NoCall}]
AuditRow == [result : {"none", "succeeded", "failed", "rejected"}, call : Calls \cup {NoCall}]

Steps == {"idle", "release", "look", "check", "token", "reserve", "call",
          "complete", "audit", "settle"}

Worker == [at : Steps, call : Calls \cup {NoCall}, sync : BOOLEAN, accepted : BOOLEAN]

CommandTypeOK ==
    /\ ledger \in [Requests -> Execution]
    /\ audit \in [Requests -> AuditRow]
    /\ receipt \in [Devices \X Requests -> Calls \cup {NoCall}]
    /\ revoked \in SUBSET Devices
    /\ worker \in [Workers -> Worker]
    /\ performed \in [Calls -> Nat]
    /\ told \in SUBSET Calls

Free == [at |-> "idle", call |-> NoCall, sync |-> FALSE, accepted |-> FALSE]

CommandInit ==
    /\ ledger = [r \in Requests |-> [status |-> "none", call |-> NoCall]]
    /\ audit = [r \in Requests |-> [result |-> "none", call |-> NoCall]]
    /\ receipt = [k \in Devices \X Requests |-> NoCall]
    /\ revoked = {}
    /\ worker = [w \in Workers |-> Free]
    /\ performed = [c \in Calls |-> 0]
    /\ told = {}

-----------------------------------------------------------------------------
(* A handler's next step *)

Call(w) == worker[w].call
Request(w) == Call(w).request
At(w, step) == worker[w].at = step
Go(w, step) == worker' = [worker EXCEPT ![w].at = step]
Leave(w) == worker' = [worker EXCEPT ![w] = Free]

\* Permissions.Get (joined with the entity), and the whitelist: the role may give
\* this command to this entity.
Granted(c) ==
    /\ entity[c.entity].live /\ grant[c.entity, c.role].live
    /\ c.command \in grant[c.entity, c.role].commands

\* What a command needs until its handler has looked at it.
Permitted(c) == Live /\ Granted(c)

\* Append writes only for a live integration and entity, and only over a row
\* of the same command.
CanAudit(c) ==
    /\ Live /\ entity[c.entity].live
    /\ audit[c.request].result = "none" \/ audit[c.request].call = c

\* Mutant: the last attempt's result is kept.
LatestResult(row, result) == result

\* A success is never overwritten by a later attempt.
KeptResult(row, result) == IF row.result = "succeeded" THEN "succeeded" ELSE result

Audited(c, result) ==
    audit' = [audit EXCEPT ![c.request] =
                [result |-> KeptResult(@, result), call |-> c]]

\* The answer to the request, or the settlement that precedes it.
Succeed(w) ==
    IF worker[w].sync THEN Go(w, "settle") /\ UNCHANGED told
                      ELSE Leave(w) /\ told' = told \cup {Call(w)}

-----------------------------------------------------------------------------
(* Before the command is reserved *)

\* Integrations.Get and Entities.Get: a command for what is not there leaves no trace.
Exists(c) == Live /\ entity[c.entity].live

StartDirect(w, c) ==
    /\ At(w, "idle") /\ c.device \notin revoked /\ Exists(c)
    /\ worker' = [worker EXCEPT ![w] = [Free EXCEPT !.at = "check", !.call = c]]
    /\ UNCHANGED <<gatewayVars, ledger, audit, receipt, revoked, performed, told>>

\* The preflight of a synced command finds no receipt.
StartSynced(w, c) ==
    /\ At(w, "idle") /\ c.device \notin revoked
    /\ receipt[c.device, c.request] = NoCall
    /\ worker' = [worker EXCEPT ![w] = [Free EXCEPT !.at = "release", !.call = c, !.sync = TRUE]]
    /\ UNCHANGED <<gatewayVars, ledger, audit, receipt, revoked, performed, told>>

\* The preflight finds the receipt of the same command.
ReplayReceipt(w, c) ==
    /\ At(w, "idle") /\ c.device \notin revoked
    /\ receipt[c.device, c.request] = c
    /\ told' = told \cup {c}
    /\ UNCHANGED <<gatewayVars, ledger, audit, receipt, revoked, worker, performed>>

\* The device is looked up again before the command is released.
Release(w) ==
    /\ At(w, "release")
    /\ IF Call(w).device \in revoked THEN Leave(w) ELSE Go(w, "look")
    /\ UNCHANGED <<gatewayVars, ledger, audit, receipt, revoked, performed, told>>

LookUp(w) ==
    /\ At(w, "look")
    /\ IF Exists(Call(w)) THEN Go(w, "check") ELSE Leave(w)
    /\ UNCHANGED <<gatewayVars, ledger, audit, receipt, revoked, performed, told>>

Pass(w) ==
    /\ At(w, "check") /\ Granted(Call(w))
    /\ Go(w, "token")
    /\ UNCHANGED <<gatewayVars, ledger, audit, receipt, revoked, performed, told>>

\* The attempt is recorded, where the integration and the entity exist.
Deny(w) ==
    /\ At(w, "check") /\ ~Granted(Call(w))
    /\ IF CanAudit(Call(w)) THEN Audited(Call(w), "rejected") ELSE UNCHANGED audit
    /\ Leave(w)
    /\ UNCHANGED <<gatewayVars, ledger, receipt, revoked, performed, told>>

ReadToken(w) ==
    /\ At(w, "token") /\ Live /\ Usable(integration)
    /\ Go(w, "reserve")
    /\ UNCHANGED <<gatewayVars, ledger, audit, receipt, revoked, performed, told>>

NoToken(w) ==
    /\ At(w, "token") /\ ~(Live /\ Usable(integration))
    /\ IF CanAudit(Call(w)) THEN Audited(Call(w), "failed") ELSE UNCHANGED audit
    /\ Leave(w)
    /\ UNCHANGED <<gatewayVars, ledger, receipt, revoked, performed, told>>

-----------------------------------------------------------------------------
(* The execution ledger *)

\* Mutant: an execution that is pending is taken up again.
PendingIsNew(r) == ledger[r].status \in {"none", "pending"}

\* INSERT ... ON CONFLICT DO NOTHING returns a row.
IsNew(r) == ledger[r].status = "none"

Reserve(w) ==
    /\ At(w, "reserve") /\ IsNew(Request(w))
    /\ ledger' = [ledger EXCEPT ![Request(w)] = [status |-> "pending", call |-> Call(w)]]
    /\ Go(w, "call")
    /\ UNCHANGED <<gatewayVars, audit, receipt, revoked, performed, told>>

\* Mutant: the fingerprint is not compared.
AnySucceeded(w) == ledger[Request(w)].status = "succeeded"

\* Mutant: a success is only told to the request it came from.
NeverRecoverable(w) == FALSE

\* Recoverable: this very command succeeded before.
Recoverable(w) ==
    /\ ledger[Request(w)].status = "succeeded"
    /\ ledger[Request(w)].call = Call(w)

Recover(w) ==
    /\ At(w, "reserve") /\ ~IsNew(Request(w)) /\ Recoverable(w)
    /\ IF CanAudit(Call(w)) THEN Audited(Call(w), "succeeded") /\ Succeed(w)
                            ELSE Leave(w) /\ UNCHANGED <<audit, told>>
    /\ UNCHANGED <<gatewayVars, ledger, receipt, revoked, performed>>

\* REQUEST_ID_REUSE, or COMMAND_RESULT_UNKNOWN for pending and unknown ones.
RefuseUnsettled(w) ==
    /\ At(w, "reserve") /\ ~IsNew(Request(w)) /\ ~Recoverable(w)
    /\ Leave(w)
    /\ UNCHANGED <<gatewayVars, ledger, audit, receipt, revoked, performed, told>>

\* The call: it arrives or not, and its answer arrives or not.
Execute(w, arrives, accepted) ==
    /\ At(w, "call")
    /\ accepted => arrives
    /\ performed' = [performed EXCEPT ![Call(w)] = IF arrives THEN @ + 1 ELSE @]
    /\ worker' = [worker EXCEPT ![w].at = "complete", ![w].accepted = accepted]
    /\ UNCHANGED <<gatewayVars, ledger, audit, receipt, revoked, told>>

\* Mutant: a call that did not answer is not told apart.
OptimisticResult(w) == "succeeded"

Result(w) == IF worker[w].accepted THEN "succeeded" ELSE "unknown"

\* UPDATE ... WHERE fingerprint = $3 AND status = 'pending'
Complete(w) ==
    /\ At(w, "complete")
    /\ IF ledger[Request(w)] = [status |-> "pending", call |-> Call(w)]
       THEN /\ ledger' = [ledger EXCEPT ![Request(w)].status = Result(w)]
            /\ Go(w, "audit")
       ELSE Leave(w) /\ UNCHANGED ledger
    /\ UNCHANGED <<gatewayVars, audit, receipt, revoked, performed, told>>

AppendAudit(w) ==
    /\ At(w, "audit") /\ CanAudit(Call(w))
    /\ IF worker[w].accepted
       THEN Audited(Call(w), "succeeded") /\ Succeed(w)
       ELSE Audited(Call(w), "failed") /\ Leave(w) /\ UNCHANGED told
    /\ UNCHANGED <<gatewayVars, ledger, receipt, revoked, performed>>

\* HA_AUDIT_FAILURE: the integration or the entity is gone, or the row is that
\* of another command under the same id.
AuditFails(w) ==
    /\ At(w, "audit") /\ ~CanAudit(Call(w))
    /\ Leave(w)
    /\ UNCHANGED <<gatewayVars, ledger, audit, receipt, revoked, performed, told>>

\* The receipt of a synced command, unless the device is revoked by now.
Settle(w) ==
    /\ At(w, "settle") /\ Call(w).device \notin revoked
    /\ LET slot == <<Call(w).device, Request(w)>> IN
         /\ receipt' = [receipt EXCEPT ![slot] = IF @ = NoCall THEN Call(w) ELSE @]
         /\ told' = IF receipt'[slot] = Call(w) THEN told \cup {Call(w)} ELSE told
    /\ Leave(w)
    /\ UNCHANGED <<gatewayVars, ledger, audit, revoked, performed>>

SettleRefused(w) ==
    /\ At(w, "settle") /\ Call(w).device \in revoked
    /\ Leave(w)
    /\ UNCHANGED <<gatewayVars, ledger, audit, receipt, revoked, performed, told>>

\* The process dies, a statement fails or the request is cancelled.
Lose(w) ==
    /\ ~At(w, "idle")
    /\ Leave(w)
    /\ UNCHANGED <<gatewayVars, ledger, audit, receipt, revoked, performed, told>>

Revoke(d) ==
    /\ d \notin revoked
    /\ revoked' = revoked \cup {d}
    /\ UNCHANGED <<gatewayVars, ledger, audit, receipt, worker, performed, told>>

-----------------------------------------------------------------------------

Handle(w) ==
    \/ Release(w) \/ LookUp(w) \/ Pass(w) \/ Deny(w) \/ ReadToken(w) \/ NoToken(w)
    \/ Reserve(w) \/ Recover(w) \/ RefuseUnsettled(w)
    \/ \E arrives, accepted \in BOOLEAN : Execute(w, arrives, accepted)
    \/ Complete(w) \/ AppendAudit(w) \/ AuditFails(w) \/ Settle(w) \/ SettleRefused(w)

\* What happens while no handler is lost.
UndisturbedNext ==
    \/ \E w \in Workers :
         \/ \E c \in Calls : StartDirect(w, c) \/ StartSynced(w, c) \/ ReplayReceipt(w, c)
         \/ Handle(w)
    \/ \E d \in Devices : Revoke(d)
    \/ GatewayNext /\ UNCHANGED commandVars

CommandNext == UndisturbedNext \/ \E w \in Workers : Lose(w)

CommandSpec == GatewayInit /\ CommandInit /\ [][CommandNext]_vars

-----------------------------------------------------------------------------
(* Properties *)

\* However often a command is retried, over whichever route, and wherever its
\* handlers are lost: Home Assistant carries out at most one command per request
\* id, and that one at most once.
AtMostOnce ==
    \A c, d \in Calls :
        c.request = d.request /\ performed[c] > 0 /\ performed[d] > 0
            => c = d /\ performed[c] = 1

\* Success is answered, stored for replays and written to the audit log only for
\* a command Home Assistant carried out; "succeeded" under a request id is never
\* the success of another command that used the id.
SuccessIsTrue ==
    \A c \in Calls :
        \/ c \in told
        \/ receipt[c.device, c.request] = c
        \/ ledger[c.request] = [status |-> "succeeded", call |-> c]
        \/ audit[c.request] = [result |-> "succeeded", call |-> c]
        => performed[c] > 0

\* The audit log keeps to the story of the ledger: once it says that a command
\* succeeded, no later attempt, denied or failed, changes that.
AuditedSuccessStays ==
    [][\A r \in Requests : audit[r].result = "succeeded" => audit'[r] = audit[r]]_vars

\* Whatever Home Assistant reported of an entity that is known by now: what the
\* service lets pass for it, the client can send, within the limits reported and in
\* a mode reported, in whatever case the request spells it.
CommandTablesAgree == (\E e \in Entities : entity[e].known) => Table!TablesAgree

\* The ledger keeps the promise of OneShot.
Bound == [r \in Requests |-> ledger[r].call]
Shot == INSTANCE OneShot WITH bound <- Bound
KeepsPromise == Shot!ShotSpec

\* Handlers run, the client repeats a request until it is answered, and one day
\* the handlers are no longer lost.
CommandFairness ==
    /\ \A w \in Workers : WF_vars(Handle(w))
    /\ \A c \in Calls : SF_vars(\E w \in Workers : StartSynced(w, c) \/ ReplayReceipt(w, c))
    /\ <>[][UndisturbedNext]_vars

FairCommandSpec == CommandSpec /\ CommandFairness

\* "A success can be recovered with the original request": it is answered in the
\* end, unless what the command needs is withdrawn, or the audit log has the id of
\* another command.
SuccessIsRecovered ==
    \A c \in Calls :
        ledger[c.request] = [status |-> "succeeded", call |-> c]
            ~> \/ c \in told
               \/ c.device \in revoked \/ ~Permitted(c) \/ ~Usable(integration)
               \/ audit[c.request].call \notin {c, NoCall}
=============================================================================
