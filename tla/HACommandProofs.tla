--------------------------- MODULE HACommandProofs ---------------------------
(***************************************************************************)
(* For every set of commands, devices, entities, roles, handlers and       *)
(* connections of owners and admins: a command is carried out at most      *)
(* once, success is answered only for one that was carried out, and the    *)
(* ledger keeps the promise of OneShot.                                    *)
(*                                                                         *)
(* AtMostOnce is not inductive: it needs to know that a handler about to   *)
(* call Home Assistant holds a reservation no other handler holds, and     *)
(* that nothing was carried out under it yet.                              *)
(***************************************************************************)
EXTENDS HACommand, TLAPS

\* A handler works on a command, and what it takes for a success is one.
HandlersAreHonest ==
    \A w \in Workers :
        /\ ~At(w, "idle") => Call(w) \in Calls
        /\ worker[w].accepted \/ At(w, "settle") =>
             Call(w) \in Calls /\ performed[Call(w)] > 0

\* Between reservation and completion the request id is the handler's alone.
Holds(w) == At(w, "call") \/ At(w, "complete")

ReservationsAreHeld ==
    \A w \in Workers : Holds(w) =>
        /\ ledger[Request(w)] = [status |-> "pending", call |-> Call(w)]
        /\ At(w, "call") => performed[Call(w)] = 0
        /\ \A v \in Workers \ {w} : Holds(v) => Request(v) # Request(w)

\* The ledger knows of every command that was carried out.
LedgerKnows ==
    /\ \A r \in Requests :
         /\ ledger[r].status = "none" <=> ledger[r].call = NoCall
         /\ ledger[r].status = "succeeded" => performed[ledger[r].call] > 0
    /\ \A c \in Calls : performed[c] > 0 =>
         performed[c] = 1 /\ ledger[c.request].call = c

IInv == CommandTypeOK /\ HandlersAreHonest /\ ReservationsAreHeld /\ LedgerKnows /\ SuccessIsTrue

LEMMA NoCallIsNone == NoCall \notin Calls
BY CallsAssumption

LEMMA RequestOfCall == \A c \in Calls : c.request \in Requests
BY DEF Requests

-----------------------------------------------------------------------------
(* The initial state *)

LEMMA InitIInv == CommandInit => IInv
<1> SUFFICES ASSUME CommandInit PROVE IInv
  OBVIOUS
<1> USE NoCallIsNone, RequestOfCall DEF CommandInit
<1>1. CommandTypeOK
  BY DEF CommandTypeOK, Execution, AuditRow, Worker, Free, Steps
<1>2. HandlersAreHonest
  BY DEF HandlersAreHonest, At, Call, Free
<1>3. ReservationsAreHeld
  BY DEF ReservationsAreHeld, Holds, At, Free
<1>4. LedgerKnows
  BY DEF LedgerKnows
<1>5. SuccessIsTrue
  <2> SUFFICES ASSUME NEW c \in Calls
               PROVE  ~(\/ c \in told
                        \/ receipt[c.device, c.request] = c
                        \/ ledger[c.request] = [status |-> "succeeded", call |-> c]
                        \/ audit[c.request] = [result |-> "succeeded", call |-> c])
    BY DEF SuccessIsTrue
  <2>1. c.request \in Requests /\ c.device \in Devices
    BY CallsAssumption
  <2> QED
    BY <2>1
<1> QED
  BY <1>1, <1>2, <1>3, <1>4, <1>5 DEF IInv

-----------------------------------------------------------------------------
(* Steps that only move a handler *)

Quiet == {"idle", "release", "look", "check", "token", "reserve"}

\* The handler goes on to a step before its reservation, or ends.
Walk(w) ==
    \E x \in Worker :
        /\ worker' = [worker EXCEPT ![w] = x]
        /\ x.at \in Quiet
        /\ x.at # "idle" => x.call \in Calls
        /\ x.accepted => x.call \in Calls /\ performed[x.call] > 0

LEMMA FreeIsWorker == Free \in Worker /\ Free.at \in Quiet /\ ~Free.accepted /\ Free.at = "idle"
BY DEF Free, Worker, Steps, Quiet

LEMMA LeaveIsWalk == ASSUME NEW w \in Workers, Leave(w) PROVE Walk(w)
BY FreeIsWorker DEF Leave, Walk

LEMMA GoIsWalk ==
    ASSUME IInv, NEW w \in Workers, NEW step \in Quiet, Go(w, step), ~At(w, "idle")
    PROVE  Walk(w)
<1> DEFINE x == [worker[w] EXCEPT !.at = step]
<1>1. worker[w] \in Worker
  BY DEF IInv, CommandTypeOK
<1>2. x \in Worker /\ x.at = step /\ x.call = worker[w].call /\ x.accepted = worker[w].accepted
  BY <1>1 DEF Worker, Quiet, Steps
<1>3. worker' = [worker EXCEPT ![w] = x]
  BY <1>1 DEF Go, IInv, CommandTypeOK
<1>4. worker[w].call \in Calls /\ (x.accepted => performed[x.call] > 0)
  BY <1>2 DEF IInv, HandlersAreHonest, Call
<1> QED
  BY <1>2, <1>3, <1>4 DEF Walk

\* What the other variables say does not depend on such a handler.
LEMMA WalkKeeps ==
    ASSUME IInv, NEW w \in Workers, Walk(w), UNCHANGED <<ledger, performed>>
    PROVE  worker' \in [Workers -> Worker] /\ HandlersAreHonest' /\ ReservationsAreHeld'
<1>1. PICK x \in Worker :
        /\ worker' = [worker EXCEPT ![w] = x]
        /\ x.at \in Quiet
        /\ x.at # "idle" => x.call \in Calls
        /\ x.accepted => x.call \in Calls /\ performed[x.call] > 0
  BY DEF Walk
<1>2. worker \in [Workers -> Worker]
  BY DEF IInv, CommandTypeOK
<1>3. worker' \in [Workers -> Worker]
  BY <1>1, <1>2
<1>4. \A v \in Workers : worker'[v] = IF v = w THEN x ELSE worker[v]
  BY <1>1, <1>2
<1>5. HandlersAreHonest'
  BY <1>1, <1>4 DEF IInv, HandlersAreHonest, At, Call, Quiet
<1>6. ~Holds(w)' /\ \A v \in Workers \ {w} : worker'[v] = worker[v]
  BY <1>1, <1>4 DEF Holds, At, Quiet
<1>7. ReservationsAreHeld'
  BY <1>6 DEF IInv, ReservationsAreHeld, Holds, At, Request, Call
<1> QED
  BY <1>3, <1>5, <1>7

LEMMA WalkStep ==
    ASSUME IInv, NEW w \in Workers, Walk(w),
           UNCHANGED <<ledger, audit, receipt, revoked, performed, told>>
    PROVE  IInv'
<1>1. worker' \in [Workers -> Worker] /\ HandlersAreHonest' /\ ReservationsAreHeld'
  BY WalkKeeps
<1>2. CommandTypeOK' /\ LedgerKnows' /\ SuccessIsTrue'
  BY <1>1 DEF IInv, CommandTypeOK, LedgerKnows, SuccessIsTrue
<1> QED
  BY <1>1, <1>2 DEF IInv

-----------------------------------------------------------------------------
(* The audit log *)

AuditTrue == \A c \in Calls :
    audit[c.request] = [result |-> "succeeded", call |-> c] => performed[c] > 0

AuditStays == \A r \in Requests : audit[r].result = "succeeded" => audit'[r] = audit[r]

LEMMA AuditKeeps ==
    ASSUME IInv, NEW c \in Calls, NEW result \in {"succeeded", "failed", "rejected"},
           CanAudit(c), Audited(c, result), UNCHANGED performed,
           result = "succeeded" => performed[c] > 0
    PROVE  audit' \in [Requests -> AuditRow] /\ AuditTrue' /\ AuditStays
<1>1. audit \in [Requests -> AuditRow] /\ c.request \in Requests
  BY RequestOfCall DEF IInv, CommandTypeOK
<1> DEFINE row == [result |-> KeptResult(audit[c.request], result), call |-> c]
<1>2. audit' = [audit EXCEPT ![c.request] = row]
  BY DEF Audited
<1>3. row \in AuditRow
  BY <1>1 DEF KeptResult, AuditRow
<1>4. audit' \in [Requests -> AuditRow]
  BY <1>1, <1>2, <1>3
<1>5. audit[c.request].result = "succeeded" => audit[c.request] = row
  BY <1>1 DEF CanAudit, AuditRow, KeptResult
<1>6. AuditStays
  BY <1>1, <1>2, <1>5 DEF AuditStays
<1>7. AuditTrue'
  <2> SUFFICES ASSUME NEW d \in Calls,
                      audit'[d.request] = [result |-> "succeeded", call |-> d]
               PROVE  performed[d] > 0
    BY DEF AuditTrue
  <2>1. d.request \in Requests
    BY RequestOfCall
  <2>2. CASE d.request # c.request
    <3>1. audit[d.request] = [result |-> "succeeded", call |-> d]
      BY <1>1, <1>2, <2>1, <2>2
    <3> QED
      BY <3>1 DEF IInv, SuccessIsTrue
  <2>3. CASE d.request = c.request
    <3>1. row = [result |-> "succeeded", call |-> d]
      BY <1>1, <1>2, <2>3
    <3>2. d = c /\ KeptResult(audit[c.request], result) = "succeeded"
      BY <3>1
    <3>3. CASE result = "succeeded"
      BY <3>2, <3>3
    <3>4. CASE result # "succeeded"
      <4>1. audit[c.request].result = "succeeded"
        BY <3>2, <3>4 DEF KeptResult
      <4>2. audit[c.request] = [result |-> "succeeded", call |-> c]
        BY <1>5, <4>1, <3>2
      <4> QED
        BY <3>2, <4>2 DEF IInv, SuccessIsTrue
    <3> QED
      BY <3>3, <3>4
  <2> QED
    BY <2>2, <2>3
<1> QED
  BY <1>4, <1>6, <1>7

\* A handler that ends with another word than success in the audit log, or none.
LEMMA Refused ==
    ASSUME IInv, NEW w \in Workers, ~At(w, "idle"), Leave(w),
           NEW result \in {"failed", "rejected"},
           IF CanAudit(Call(w)) THEN Audited(Call(w), result) ELSE UNCHANGED audit,
           UNCHANGED <<ledger, receipt, revoked, performed, told>>
    PROVE  IInv' /\ AuditStays
<1>1. Call(w) \in Calls
  BY DEF IInv, HandlersAreHonest
<1>2. worker' \in [Workers -> Worker] /\ HandlersAreHonest' /\ ReservationsAreHeld'
  BY LeaveIsWalk, WalkKeeps
<1>3. audit' \in [Requests -> AuditRow] /\ AuditTrue' /\ AuditStays
  <2>1. CASE CanAudit(Call(w))
    BY <1>1, <2>1, AuditKeeps
  <2>2. CASE ~CanAudit(Call(w))
    BY <2>2 DEF IInv, CommandTypeOK, SuccessIsTrue, AuditTrue, AuditStays
  <2> QED
    BY <2>1, <2>2
<1>4. CommandTypeOK' /\ LedgerKnows' /\ SuccessIsTrue'
  BY <1>2, <1>3 DEF IInv, CommandTypeOK, LedgerKnows, SuccessIsTrue, AuditTrue
<1> QED
  BY <1>2, <1>3, <1>4 DEF IInv

-----------------------------------------------------------------------------
(* Steps that change the ledger, what was carried out, or what is told *)

\* Audited with success, and answered or sent to be settled.
LEMMA Succeeded ==
    ASSUME IInv, NEW w \in Workers, ~At(w, "idle"), ~Holds(w),
           performed[Call(w)] > 0, CanAudit(Call(w)), Audited(Call(w), "succeeded"), Succeed(w),
           UNCHANGED <<ledger, receipt, revoked, performed>>
    PROVE  IInv' /\ AuditStays
<1>1. Call(w) \in Calls /\ worker \in [Workers -> Worker]
  BY DEF IInv, HandlersAreHonest, CommandTypeOK
<1>2. audit' \in [Requests -> AuditRow] /\ AuditTrue' /\ AuditStays
  BY <1>1, AuditKeeps
<1>3. told' \in SUBSET Calls /\ \A c \in told' : performed[c] > 0
  BY <1>1 DEF Succeed, IInv, CommandTypeOK, SuccessIsTrue
<1>4. worker' \in [Workers -> Worker] /\ HandlersAreHonest' /\ ReservationsAreHeld'
  <2>1. CASE ~worker[w].sync
    <3>1. Leave(w)
      BY <2>1 DEF Succeed
    <3> QED
      BY <3>1, LeaveIsWalk, WalkKeeps
  <2>2. CASE worker[w].sync
    <3>1. worker' = [worker EXCEPT ![w].at = "settle"]
      BY <2>2 DEF Succeed, Go
    <3>2. worker[w] \in Worker
      BY <1>1
    <3>3. [worker[w] EXCEPT !.at = "settle"] \in Worker
      BY <3>2 DEF Worker, Steps
    <3>4. worker' \in [Workers -> Worker]
      BY <1>1, <3>1, <3>3
    <3>5. worker'[w].at = "settle" /\ worker'[w].call = Call(w)
          /\ \A v \in Workers \ {w} : worker'[v] = worker[v]
      BY <1>1, <3>1, <3>2 DEF Worker, Call
    <3>6. HandlersAreHonest'
      BY <1>1, <3>5 DEF IInv, HandlersAreHonest, At, Call
    <3>7. ReservationsAreHeld'
      BY <3>5 DEF IInv, ReservationsAreHeld, Holds, At, Request, Call
    <3> QED
      BY <3>4, <3>6, <3>7
  <2> QED
    BY <1>1, <2>1, <2>2 DEF Worker
<1>5. CommandTypeOK' /\ LedgerKnows' /\ SuccessIsTrue'
  BY <1>2, <1>3, <1>4 DEF IInv, CommandTypeOK, LedgerKnows, SuccessIsTrue, AuditTrue
<1> QED
  BY <1>2, <1>4, <1>5 DEF IInv

LEMMA ReserveStep ==
    ASSUME IInv, NEW w \in Workers, Reserve(w)
    PROVE  IInv'
<1> DEFINE r == Request(w)
<1>1. Call(w) \in Calls /\ r \in Requests /\ worker \in [Workers -> Worker]
      /\ ledger \in [Requests -> Execution] /\ worker[w] \in Worker
  BY RequestOfCall DEF IInv, HandlersAreHonest, CommandTypeOK, Reserve, At, Request
<1>2. ledger[r].status = "none" /\ ledger[r].call = NoCall
  BY <1>1 DEF Reserve, IsNew, IInv, LedgerKnows
<1>3. ledger' = [ledger EXCEPT ![r] = [status |-> "pending", call |-> Call(w)]]
      /\ worker' = [worker EXCEPT ![w].at = "call"]
      /\ UNCHANGED <<audit, receipt, revoked, performed, told>>
  BY DEF Reserve, Go
<1>4. worker' \in [Workers -> Worker] /\ ledger' \in [Requests -> Execution]
  <2>1. [worker[w] EXCEPT !.at = "call"] \in Worker
    BY <1>1 DEF Worker, Steps
  <2>2. [status |-> "pending", call |-> Call(w)] \in Execution
    BY <1>1 DEF Execution
  <2> QED
    BY <1>1, <1>3, <2>1, <2>2
<1>5. /\ worker'[w].at = "call" /\ worker'[w].call = Call(w)
      /\ worker'[w].accepted = worker[w].accepted
      /\ \A v \in Workers \ {w} : worker'[v] = worker[v]
      /\ ledger'[r] = [status |-> "pending", call |-> Call(w)]
      /\ \A s \in Requests \ {r} : ledger'[s] = ledger[s]
  <2>1. /\ worker'[w].at = "call" /\ worker'[w].call = Call(w)
        /\ worker'[w].accepted = worker[w].accepted
        /\ \A v \in Workers \ {w} : worker'[v] = worker[v]
    BY <1>1, <1>3 DEF Worker, Call
  <2> HIDE DEF r
  <2>2. /\ ledger'[r] = [status |-> "pending", call |-> Call(w)]
        /\ \A s \in Requests \ {r} : ledger'[s] = ledger[s]
    BY <1>1, <1>3
  <2> QED
    BY <2>1, <2>2
<1>6. \A c \in Calls : performed[c] \in Nat
      /\ (performed[c] > 0 => ledger[c.request].call = c)
  BY DEF IInv, CommandTypeOK, LedgerKnows
<1>7. \A c \in Calls : c.request = r => performed[c] = 0
  BY <1>2, <1>6, NoCallIsNone
<1>8. HandlersAreHonest'
  BY <1>1, <1>3, <1>5 DEF IInv, HandlersAreHonest, At, Call
<1>9. \A v \in Workers \ {w} : Holds(v) => Request(v) # r
  <2> SUFFICES ASSUME NEW v \in Workers, Holds(v), Request(v) = r PROVE FALSE
    OBVIOUS
  <2>1. ledger[Request(v)] = [status |-> "pending", call |-> Call(v)]
    BY DEF IInv, ReservationsAreHeld
  <2>2. ledger[r].status = "pending"
    BY <2>1
  <2> QED
    BY <1>2, <2>2
<1>10. ReservationsAreHeld'
  <2> SUFFICES ASSUME NEW v \in Workers, Holds(v)'
               PROVE  /\ ledger'[Request(v)'] = [status |-> "pending", call |-> Call(v)']
                      /\ At(v, "call")' => performed'[Call(v)'] = 0
                      /\ \A u \in Workers \ {v} : Holds(u)' => Request(u)' # Request(v)'
    BY DEF ReservationsAreHeld
  <2>1. CASE v = w
    BY <1>1, <1>3, <1>5, <1>7, <1>9, <2>1 DEF Request, Call, Holds, At
  <2>2. CASE v # w
    <3>1. Holds(v) /\ Request(v) # r /\ Call(v) \in Calls /\ Request(v) \in Requests
      BY <1>5, <1>9, <2>2, RequestOfCall DEF Holds, At, IInv, HandlersAreHonest, Request, Call
    <3>2. Request(v)' = Request(v) /\ Call(v)' = Call(v) /\ At(v, "call")' = At(v, "call")
      BY <1>5, <2>2 DEF Request, Call, At
    <3>3. ledger'[Request(v)] = ledger[Request(v)]
      BY <1>5, <3>1
    <3>4. \A u \in Workers \ {v} : Holds(u)' => Request(u)' # Request(v)
      <4> SUFFICES ASSUME NEW u \in Workers \ {v}, Holds(u)' PROVE Request(u)' # Request(v)
        OBVIOUS
      <4>1. CASE u = w
        BY <1>5, <3>1, <4>1 DEF Request, Call
      <4>2. CASE u # w
        <5>1. Holds(u) /\ Request(u)' = Request(u)
          BY <1>5, <4>2 DEF Holds, At, Request, Call
        <5> QED
          BY <3>1, <5>1 DEF IInv, ReservationsAreHeld
      <4> QED
        BY <4>1, <4>2
    <3> QED
      BY <1>3, <3>1, <3>2, <3>3, <3>4 DEF IInv, ReservationsAreHeld
  <2> QED
    BY <2>1, <2>2
<1>11. LedgerKnows'
  <2>1. \A s \in Requests :
          /\ ledger'[s].status = "none" <=> ledger'[s].call = NoCall
          /\ ledger'[s].status = "succeeded" => performed[ledger'[s].call] > 0
    BY <1>1, <1>5, NoCallIsNone DEF IInv, LedgerKnows
  <2>2. \A c \in Calls : performed[c] > 0 => performed[c] = 1 /\ ledger'[c.request].call = c
    BY <1>5, <1>6, <1>7, RequestOfCall DEF IInv, LedgerKnows
  <2> QED
    BY <1>3, <2>1, <2>2 DEF LedgerKnows
<1>12. SuccessIsTrue'
  <2>1. \A c \in Calls : ledger'[c.request] = [status |-> "succeeded", call |-> c]
          => ledger[c.request] = [status |-> "succeeded", call |-> c]
    BY <1>5, RequestOfCall
  <2> QED
    BY <1>3, <2>1 DEF IInv, SuccessIsTrue
<1>13. CommandTypeOK'
  BY <1>3, <1>4 DEF IInv, CommandTypeOK
<1> QED
  BY <1>8, <1>10, <1>11, <1>12, <1>13 DEF IInv

LEMMA ExecuteStep ==
    ASSUME IInv, NEW w \in Workers, NEW arrives \in BOOLEAN, NEW accepted \in BOOLEAN,
           Execute(w, arrives, accepted)
    PROVE  IInv'
<1> DEFINE c == Call(w)
<1> DEFINE n == IF arrives THEN performed[c] + 1 ELSE performed[c]
<1>1. c \in Calls /\ c.request \in Requests /\ worker \in [Workers -> Worker]
      /\ performed \in [Calls -> Nat] /\ worker[w] \in Worker
  BY RequestOfCall DEF IInv, HandlersAreHonest, CommandTypeOK, Execute, At
<1>2. /\ performed[c] = 0
      /\ ledger[c.request] = [status |-> "pending", call |-> c]
      /\ \A v \in Workers \ {w} : Holds(v) => Request(v) # c.request
  BY DEF IInv, ReservationsAreHeld, Execute, Holds, Request
<1>3. /\ performed' = [performed EXCEPT ![c] = n]
      /\ worker' = [worker EXCEPT ![w].at = "complete", ![w].accepted = accepted]
      /\ UNCHANGED <<ledger, audit, receipt, revoked, told>>
      /\ accepted => arrives
  BY DEF Execute
<1>4. n \in {0, 1} /\ (arrives => n = 1)
  BY <1>2
<1>5. performed' \in [Calls -> Nat] /\ performed'[c] = n
      /\ \A d \in Calls \ {c} : performed'[d] = performed[d]
  <2> HIDE DEF n, c
  <2> QED
    BY <1>1, <1>3, <1>4
<1>6. worker' \in [Workers -> Worker]
  <2>1. [worker[w] EXCEPT !.at = "complete", !.accepted = accepted] \in Worker
    BY <1>1 DEF Worker, Steps
  <2> QED
    BY <1>1, <1>3, <2>1
<1>7. /\ worker'[w].at = "complete" /\ worker'[w].call = c /\ worker'[w].accepted = accepted
      /\ \A v \in Workers \ {w} : worker'[v] = worker[v]
  BY <1>1, <1>3 DEF Worker, Call
<1>8. \A d \in Calls : performed[d] > 0 => performed'[d] > 0
  BY <1>2, <1>5
<1>9. HandlersAreHonest'
  BY <1>1, <1>3, <1>4, <1>5, <1>7, <1>8 DEF IInv, HandlersAreHonest, At, Call
<1>10. ReservationsAreHeld'
  <2> SUFFICES ASSUME NEW v \in Workers, Holds(v)'
               PROVE  /\ ledger[Request(v)'] = [status |-> "pending", call |-> Call(v)']
                      /\ At(v, "call")' => performed'[Call(v)'] = 0
                      /\ \A u \in Workers \ {v} : Holds(u)' => Request(u)' # Request(v)'
    BY <1>3 DEF ReservationsAreHeld
  <2>1. \A u \in Workers : Request(u)' = Request(u) /\ Call(u)' = Call(u)
    BY <1>7 DEF Request, Call
  <2>2. \A u \in Workers : Holds(u)' => Holds(u)
    BY <1>7 DEF Holds, At, Execute
  <2>3. \A u \in Workers \ {v} : Holds(u)' => Request(u)' # Request(v)'
    BY <2>1, <2>2 DEF IInv, ReservationsAreHeld
  <2>4. ledger[Request(v)'] = [status |-> "pending", call |-> Call(v)']
    BY <2>1, <2>2 DEF IInv, ReservationsAreHeld
  <2>5. At(v, "call")' => performed'[Call(v)'] = 0
    <3> SUFFICES ASSUME At(v, "call")' PROVE performed'[Call(v)'] = 0
      OBVIOUS
    <3>1. v # w /\ At(v, "call")
      BY <1>7 DEF At
    <3>2. Call(v) \in Calls /\ Request(v) # c.request /\ performed[Call(v)] = 0
      BY <1>2, <2>2, <3>1 DEF IInv, HandlersAreHonest, ReservationsAreHeld, At
    <3>3. Call(v) # c
      BY <3>2 DEF Request
    <3> QED
      BY <1>5, <2>1, <3>2, <3>3
  <2> QED
    BY <2>3, <2>4, <2>5
<1>11. LedgerKnows'
  <2>1. \A r \in Requests : ledger[r].status = "succeeded" => performed'[ledger[r].call] > 0
    <3> SUFFICES ASSUME NEW r \in Requests, ledger[r].status = "succeeded"
                 PROVE  performed'[ledger[r].call] > 0
      OBVIOUS
    <3>1. ledger[r] \in Execution /\ ledger[r].call # NoCall /\ performed[ledger[r].call] > 0
      BY DEF IInv, CommandTypeOK, LedgerKnows
    <3>2. ledger[r].call \in Calls
      BY <3>1 DEF Execution
    <3> QED
      BY <1>8, <3>1, <3>2
  <2>2. \A d \in Calls : performed'[d] > 0 => performed'[d] = 1 /\ ledger[d.request].call = d
    <3> SUFFICES ASSUME NEW d \in Calls, performed'[d] > 0
                 PROVE  performed'[d] = 1 /\ ledger[d.request].call = d
      OBVIOUS
    <3>1. CASE d = c
      <4>1. ledger[c.request].call = c
        BY <1>2
      <4> QED
        BY <1>4, <1>5, <3>1, <4>1
    <3>2. CASE d # c
      BY <1>5, <3>2 DEF IInv, LedgerKnows
    <3> QED
      BY <3>1, <3>2
  <2> QED
    BY <1>3, <2>1, <2>2 DEF IInv, LedgerKnows
<1>12. SuccessIsTrue'
  BY <1>3, <1>8 DEF IInv, SuccessIsTrue
<1>13. CommandTypeOK'
  BY <1>3, <1>5, <1>6 DEF IInv, CommandTypeOK
<1> QED
  BY <1>9, <1>10, <1>11, <1>12, <1>13 DEF IInv

\* The handler is done with its reservation; a success is one.
LEMMA CompleteStep ==
    ASSUME IInv, NEW w \in Workers, Complete(w)
    PROVE  IInv'
<1> DEFINE c == Call(w)
<1> DEFINE r == Request(w)
<1>1. c \in Calls /\ r \in Requests /\ worker \in [Workers -> Worker]
      /\ ledger \in [Requests -> Execution] /\ worker[w] \in Worker
  BY RequestOfCall DEF IInv, HandlersAreHonest, CommandTypeOK, Complete, At, Request
<1>2. /\ ledger[r] = [status |-> "pending", call |-> c]
      /\ \A v \in Workers \ {w} : Holds(v) => Request(v) # r
  BY DEF IInv, ReservationsAreHeld, Complete, Holds
<1>3. /\ ledger' = [ledger EXCEPT ![r].status = Result(w)]
      /\ worker' = [worker EXCEPT ![w].at = "audit"]
      /\ UNCHANGED <<audit, receipt, revoked, performed, told>>
  BY <1>2 DEF Complete, Go
<1>4. Result(w) \in {"succeeded", "unknown"}
      /\ (Result(w) = "succeeded" => performed[c] > 0)
  BY DEF Result, IInv, HandlersAreHonest
<1>5. worker' \in [Workers -> Worker] /\ ledger' \in [Requests -> Execution]
  <2>1. [worker[w] EXCEPT !.at = "audit"] \in Worker
    BY <1>1 DEF Worker, Steps
  <2>2. [ledger[r] EXCEPT !.status = Result(w)] \in Execution
    BY <1>1, <1>4 DEF Execution
  <2> QED
    BY <1>1, <1>3, <2>1, <2>2
<1>6. /\ worker'[w].at = "audit" /\ worker'[w].call = c
      /\ worker'[w].accepted = worker[w].accepted
      /\ \A v \in Workers \ {w} : worker'[v] = worker[v]
  BY <1>1, <1>3 DEF Worker, Call
<1>7. /\ ledger'[r] = [status |-> Result(w), call |-> c]
      /\ \A s \in Requests \ {r} : ledger'[s] = ledger[s]
  <2>1. ledger'[r] = [ledger[r] EXCEPT !.status = Result(w)]
    BY <1>1, <1>3
  <2>2. \A s \in Requests \ {r} : ledger'[s] = ledger[s]
    <3> HIDE DEF r
    <3> QED
      BY <1>1, <1>3
  <2> QED
    BY <1>2, <2>1, <2>2
<1>8. HandlersAreHonest'
  BY <1>1, <1>3, <1>6 DEF IInv, HandlersAreHonest, At, Call
<1>9. ReservationsAreHeld'
  <2> SUFFICES ASSUME NEW v \in Workers, Holds(v)'
               PROVE  /\ ledger'[Request(v)'] = [status |-> "pending", call |-> Call(v)']
                      /\ At(v, "call")' => performed[Call(v)'] = 0
                      /\ \A u \in Workers \ {v} : Holds(u)' => Request(u)' # Request(v)'
    BY <1>3 DEF ReservationsAreHeld
  <2>1. \A u \in Workers : Request(u)' = Request(u) /\ Call(u)' = Call(u)
    BY <1>6 DEF Request, Call
  <2>2. \A u \in Workers : Holds(u)' => u # w /\ Holds(u)
    BY <1>6 DEF Holds, At
  <2>3. At(v, "call")' => At(v, "call")
    BY <1>6, <2>2 DEF At
  <2>4. ledger'[Request(v)] = ledger[Request(v)]
    <3>1. Request(v) \in Requests \ {r}
      BY <1>2, <2>2, RequestOfCall DEF IInv, HandlersAreHonest, Holds, At, Request
    <3> QED
      BY <1>7, <3>1
  <2> QED
    BY <2>1, <2>2, <2>3, <2>4 DEF IInv, ReservationsAreHeld
<1>10. LedgerKnows'
  <2>1. \A s \in Requests : ledger'[s].call = ledger[s].call
    <3>1. ledger'[r].call = c /\ ledger[r].call = c
      BY <1>2, <1>7
    <3> QED
      BY <1>7, <3>1
  <2>2. \A s \in Requests : ledger'[s].status = "none" <=> ledger[s].status = "none"
    <3>1. ledger'[r].status = Result(w) /\ ledger[r].status = "pending"
      BY <1>2, <1>7
    <3> QED
      BY <1>4, <1>7, <3>1
  <2>3. \A s \in Requests : ledger'[s].status = "succeeded" => performed[ledger[s].call] > 0
    <3>1. ledger'[r].status = Result(w) /\ ledger[r].call = c
      BY <1>2, <1>7
    <3> QED
      BY <1>4, <1>7, <3>1 DEF IInv, LedgerKnows
  <2> QED
    BY <1>3, <2>1, <2>2, <2>3, RequestOfCall DEF IInv, LedgerKnows
<1>11. SuccessIsTrue'
  <2>1. \A d \in Calls : ledger'[d.request] = [status |-> "succeeded", call |-> d]
          => performed[d] > 0
    <3>0. SUFFICES ASSUME NEW d \in Calls, ledger'[d.request] = [status |-> "succeeded", call |-> d]
                 PROVE  performed[d] > 0
      OBVIOUS
    <3>1. ledger'[d.request].status = "succeeded" /\ ledger'[d.request].call = d
      BY <3>0
    <3> QED
      BY <1>3, <1>10, <3>1, RequestOfCall DEF LedgerKnows
  <2> QED
    BY <1>3, <2>1 DEF IInv, SuccessIsTrue
<1>12. CommandTypeOK'
  BY <1>3, <1>5 DEF IInv, CommandTypeOK
<1> QED
  BY <1>8, <1>9, <1>10, <1>11, <1>12 DEF IInv

LEMMA SettleStep ==
    ASSUME IInv, NEW w \in Workers, Settle(w)
    PROVE  IInv'
<1> DEFINE c == Call(w)
<1> DEFINE slot == <<c.device, c.request>>
<1>1. c \in Calls /\ performed[c] > 0 /\ slot \in Devices \X Requests
      /\ receipt \in [Devices \X Requests -> Calls \cup {NoCall}]
  BY RequestOfCall, CallsAssumption DEF IInv, HandlersAreHonest, CommandTypeOK, Settle
<1>2. /\ receipt' = [receipt EXCEPT ![slot] = IF receipt[slot] = NoCall THEN c ELSE receipt[slot]]
      /\ told' = told \/ told' = told \cup {c}
      /\ UNCHANGED <<ledger, audit, revoked, performed>>
  BY DEF Settle, Request
<1>3. worker' \in [Workers -> Worker] /\ HandlersAreHonest' /\ ReservationsAreHeld'
  BY <1>2, LeaveIsWalk, WalkKeeps DEF Settle
<1>4. receipt' \in [Devices \X Requests -> Calls \cup {NoCall}]
  BY <1>1, <1>2
<1>5. \A d \in Calls : receipt'[d.device, d.request] = d => performed[d] > 0
  <2> SUFFICES ASSUME NEW d \in Calls, receipt'[d.device, d.request] = d
               PROVE  performed[d] > 0
    OBVIOUS
  <2>1. <<d.device, d.request>> \in Devices \X Requests
    BY RequestOfCall, CallsAssumption
  <2>2. receipt[d.device, d.request] = d \/ d = c
    <3> HIDE DEF c, slot
    <3> QED
      BY <1>1, <1>2, <2>1
  <2> QED
    BY <1>1, <2>2 DEF IInv, SuccessIsTrue
<1>6. CommandTypeOK' /\ LedgerKnows' /\ SuccessIsTrue'
  BY <1>1, <1>2, <1>3, <1>4, <1>5 DEF IInv, CommandTypeOK, LedgerKnows, SuccessIsTrue
<1> QED
  BY <1>3, <1>6 DEF IInv

-----------------------------------------------------------------------------
(* Every step *)

\* The other variables are not those of the proof.
LEMMA StutterStep == ASSUME IInv, UNCHANGED commandVars PROVE IInv' /\ AuditStays
<1>1. IInv'
  BY DEF IInv, commandVars, CommandTypeOK, HandlersAreHonest, ReservationsAreHeld, Holds,
         LedgerKnows, SuccessIsTrue, At, Call, Request
<1>2. AuditStays
  BY DEF AuditStays, commandVars
<1> QED
  BY <1>1, <1>2

\* What starts, and what only goes on.
LEMMA WalkingStep ==
    ASSUME IInv, NEW w \in Workers,
           \/ \E c \in Calls : StartDirect(w, c) \/ StartSynced(w, c)
           \/ Release(w) \/ LookUp(w) \/ Pass(w) \/ ReadToken(w) \/ RefuseUnsettled(w)
           \/ AuditFails(w) \/ SettleRefused(w) \/ Lose(w)
    PROVE  Walk(w) /\ UNCHANGED <<ledger, audit, receipt, revoked, performed, told>>
<1>1. ASSUME NEW c \in Calls, StartDirect(w, c) PROVE Walk(w)
  <2>1. [Free EXCEPT !.at = "check", !.call = c] \in Worker
    BY DEF Free, Worker, Steps
  <2> QED
    BY <1>1, <2>1 DEF StartDirect, Walk, Free, Quiet
<1>2. ASSUME NEW c \in Calls, StartSynced(w, c) PROVE Walk(w)
  <2>1. [Free EXCEPT !.at = "release", !.call = c, !.sync = TRUE] \in Worker
    BY DEF Free, Worker, Steps
  <2> QED
    BY <1>2, <2>1 DEF StartSynced, Walk, Free, Quiet
<1>3. CASE Release(w)
  <2>1. ~At(w, "idle") /\ "look" \in Quiet
    BY <1>3 DEF Release, At, Quiet
  <2> QED
    BY <1>3, <2>1, LeaveIsWalk, GoIsWalk DEF Release
<1>l. CASE LookUp(w)
  <2>1. ~At(w, "idle") /\ "check" \in Quiet
    BY <1>l DEF LookUp, At, Quiet
  <2> QED
    BY <1>l, <2>1, LeaveIsWalk, GoIsWalk DEF LookUp
<1>4. CASE Pass(w)
  <2>1. ~At(w, "idle") /\ "token" \in Quiet
    BY <1>4 DEF Pass, At, Quiet
  <2> QED
    BY <1>4, <2>1, GoIsWalk DEF Pass
<1>5. CASE ReadToken(w)
  <2>1. ~At(w, "idle") /\ "reserve" \in Quiet
    BY <1>5 DEF ReadToken, At, Quiet
  <2> QED
    BY <1>5, <2>1, GoIsWalk DEF ReadToken
<1>6. CASE RefuseUnsettled(w) \/ AuditFails(w) \/ SettleRefused(w) \/ Lose(w)
  BY <1>6, LeaveIsWalk DEF RefuseUnsettled, AuditFails, SettleRefused, Lose
<1>7. UNCHANGED <<ledger, audit, receipt, revoked, performed, told>>
  BY DEF StartDirect, StartSynced, Release, LookUp, Pass, ReadToken, RefuseUnsettled, AuditFails,
         SettleRefused, Lose
<1> QED
  BY <1>1, <1>2, <1>3, <1>l, <1>4, <1>5, <1>6, <1>7

LEMMA NextIInv == ASSUME IInv, [CommandNext]_vars PROVE IInv' /\ AuditStays
<1>1. ASSUME UNCHANGED audit PROVE AuditStays
  BY <1>1 DEF AuditStays
<1>2. ASSUME NEW w \in Workers,
             \/ \E c \in Calls : StartDirect(w, c) \/ StartSynced(w, c)
             \/ Release(w) \/ LookUp(w) \/ Pass(w) \/ ReadToken(w) \/ RefuseUnsettled(w)
             \/ AuditFails(w) \/ SettleRefused(w) \/ Lose(w)
      PROVE  IInv' /\ AuditStays
  BY <1>1, <1>2, WalkingStep, WalkStep
<1>3. ASSUME NEW w \in Workers, NEW c \in Calls, ReplayReceipt(w, c)
      PROVE  IInv' /\ AuditStays
  <2>1. /\ told' = told \cup {c} /\ receipt[c.device, c.request] = c
        /\ UNCHANGED <<ledger, audit, receipt, revoked, worker, performed>>
    BY <1>3 DEF ReplayReceipt
  <2>2. performed[c] > 0
    BY <2>1 DEF IInv, SuccessIsTrue
  <2>3. CommandTypeOK' /\ SuccessIsTrue'
    BY <2>1, <2>2 DEF IInv, CommandTypeOK, SuccessIsTrue
  <2>4. HandlersAreHonest' /\ ReservationsAreHeld' /\ LedgerKnows'
    BY <2>1 DEF IInv, HandlersAreHonest, ReservationsAreHeld, Holds, LedgerKnows, At, Call, Request
  <2> QED
    BY <1>1, <2>1, <2>3, <2>4 DEF IInv
<1>4. ASSUME NEW w \in Workers, Deny(w) PROVE IInv' /\ AuditStays
  <2>1. ~At(w, "idle")
    BY <1>4 DEF Deny, At
  <2> QED
    BY <1>4, <2>1, Refused DEF Deny
<1>5. ASSUME NEW w \in Workers, NoToken(w) PROVE IInv' /\ AuditStays
  <2>1. ~At(w, "idle")
    BY <1>5 DEF NoToken, At
  <2> QED
    BY <1>5, <2>1, Refused DEF NoToken
<1>6. ASSUME NEW w \in Workers, Reserve(w) PROVE IInv' /\ AuditStays
  BY <1>1, <1>6, ReserveStep DEF Reserve
<1>7. ASSUME NEW w \in Workers, Recover(w) PROVE IInv' /\ AuditStays
  <2>1. ~At(w, "idle") /\ ~Holds(w)
    BY <1>7 DEF Recover, At, Holds
  <2>2. Call(w) \in Calls /\ Request(w) \in Requests
    BY <2>1, RequestOfCall DEF IInv, HandlersAreHonest, Request
  <2>3. performed[Call(w)] > 0
    BY <1>7, <2>2 DEF Recover, Recoverable, IInv, LedgerKnows
  <2>4. CASE CanAudit(Call(w))
    BY <1>7, <2>1, <2>3, <2>4, Succeeded DEF Recover
  <2>5. CASE ~CanAudit(Call(w))
    BY <1>1, <1>7, <2>5, LeaveIsWalk, WalkStep DEF Recover
  <2> QED
    BY <2>4, <2>5
<1>8. ASSUME NEW w \in Workers, NEW arrives \in BOOLEAN, NEW accepted \in BOOLEAN,
             Execute(w, arrives, accepted)
      PROVE  IInv' /\ AuditStays
  BY <1>1, <1>8, ExecuteStep DEF Execute
<1>9. ASSUME NEW w \in Workers, Complete(w) PROVE IInv' /\ AuditStays
  BY <1>1, <1>9, CompleteStep DEF Complete
<1>10. ASSUME NEW w \in Workers, AppendAudit(w) PROVE IInv' /\ AuditStays
  <2>1. ~At(w, "idle") /\ ~Holds(w)
    BY <1>10 DEF AppendAudit, At, Holds
  <2>2. CASE worker[w].accepted
    <3>1. performed[Call(w)] > 0
      BY <2>2 DEF IInv, HandlersAreHonest
    <3> QED
      BY <1>10, <2>1, <2>2, <3>1, Succeeded DEF AppendAudit
  <2>3. CASE ~worker[w].accepted
    BY <1>10, <2>1, <2>3, Refused DEF AppendAudit
  <2> QED
    BY <2>2, <2>3
<1>11. ASSUME NEW w \in Workers, Settle(w) PROVE IInv' /\ AuditStays
  BY <1>1, <1>11, SettleStep DEF Settle
<1>12. ASSUME NEW d \in Devices, Revoke(d) PROVE IInv' /\ AuditStays
  <2>1. revoked' \in SUBSET Devices
        /\ UNCHANGED <<ledger, audit, receipt, worker, performed, told>>
    BY <1>12 DEF Revoke, IInv, CommandTypeOK
  <2>2. CommandTypeOK' /\ SuccessIsTrue'
    BY <2>1 DEF IInv, CommandTypeOK, SuccessIsTrue
  <2>3. HandlersAreHonest' /\ ReservationsAreHeld' /\ LedgerKnows'
    BY <2>1 DEF IInv, HandlersAreHonest, ReservationsAreHeld, Holds, LedgerKnows, At, Call, Request
  <2> QED
    BY <1>1, <2>1, <2>2, <2>3 DEF IInv
<1>13. CASE UNCHANGED commandVars
  BY <1>13, StutterStep
<1>14. CASE UNCHANGED vars
  BY <1>13, <1>14 DEF vars
<1> QED
  BY <1>2, <1>3, <1>4, <1>5, <1>6, <1>7, <1>8, <1>9, <1>10, <1>11, <1>12, <1>13, <1>14
     DEF CommandNext, UndisturbedNext, Handle

-----------------------------------------------------------------------------
(* The promise of OneShot *)

LEMMA RefinesInit == CommandInit => Shot!ShotInit
<1> SUFFICES ASSUME CommandInit PROVE Shot!ShotInit
  OBVIOUS
<1>1. Bound = [r \in Requests |-> NoCall]
  BY DEF Bound, CommandInit
<1> QED
  BY <1>1 DEF Shot!ShotInit, Shot!Requests, Requests, CommandInit

\* Nothing the promise speaks of changes.
ShotVars == <<Bound, performed, told>>

LEMMA BoundStays == ASSUME UNCHANGED ledger PROVE UNCHANGED Bound
BY DEF Bound

LEMMA TellIsAllowed ==
    ASSUME IInv, NEW c \in Calls, performed[c] > 0, told' = told \cup {c},
           UNCHANGED <<ledger, performed>>
    PROVE  Shot!ShotNext
<1>1. performed[c] = 1
  BY DEF IInv, LedgerKnows
<1>2. UNCHANGED <<Bound, performed>>
  BY BoundStays
<1>3. Shot!Tell(c)
  BY <1>1, <1>2 DEF Shot!Tell
<1> QED
  BY <1>3 DEF Shot!ShotNext

LEMMA ReserveIsBind ==
    ASSUME IInv, NEW w \in Workers, Reserve(w)
    PROVE  Shot!ShotNext
<1> DEFINE c == Call(w)
<1> DEFINE r == c.request
<1>1. c \in Calls /\ r \in Requests /\ ledger \in [Requests -> Execution]
  BY RequestOfCall DEF IInv, HandlersAreHonest, CommandTypeOK, Reserve, At
<1>2. /\ ledger[r].call = NoCall
      /\ ledger' = [ledger EXCEPT ![r] = [status |-> "pending", call |-> c]]
      /\ UNCHANGED <<performed, told>>
  BY <1>1 DEF Reserve, IsNew, IInv, LedgerKnows, Request
<1>3. Bound[r] = NoCall
  BY <1>1, <1>2 DEF Bound
<1>4. Bound' = [Bound EXCEPT ![r] = c]
  <2>1. \A s \in Requests : ledger'[s].call = IF s = r THEN c ELSE ledger[s].call
    <3> HIDE DEF r, c
    <3> QED
      BY <1>1, <1>2
  <2>2. Bound' = [s \in Requests |-> IF s = r THEN c ELSE ledger[s].call]
    BY <2>1 DEF Bound
  <2>3. [Bound EXCEPT ![r] = c] = [s \in Requests |-> IF s = r THEN c ELSE ledger[s].call]
    <3> HIDE DEF r, c
    <3> QED
      BY <1>1 DEF Bound
  <2> QED
    BY <2>2, <2>3
<1>5. Shot!Bind(c)
  BY <1>2, <1>3, <1>4 DEF Shot!Bind
<1> QED
  BY <1>1, <1>5 DEF Shot!ShotNext

LEMMA ExecuteIsPerform ==
    ASSUME IInv, NEW w \in Workers, NEW arrives \in BOOLEAN, NEW accepted \in BOOLEAN,
           Execute(w, arrives, accepted)
    PROVE  Shot!ShotNext \/ UNCHANGED ShotVars
<1> DEFINE c == Call(w)
<1>1. c \in Calls /\ c.request \in Requests /\ performed \in [Calls -> Nat]
  BY RequestOfCall DEF IInv, HandlersAreHonest, CommandTypeOK, Execute, At
<1>2. performed[c] = 0 /\ ledger[c.request] = [status |-> "pending", call |-> c]
  BY DEF IInv, ReservationsAreHeld, Execute, Holds, Request
<1>3. Bound[c.request] = c /\ UNCHANGED Bound /\ UNCHANGED told
  BY <1>1, <1>2, BoundStays DEF Bound, Execute
<1>4. CASE arrives
  <2>1. performed' = [performed EXCEPT ![c] = 1]
    BY <1>1, <1>2, <1>4 DEF Execute
  <2>2. Shot!Perform(c)
    BY <1>2, <1>3, <2>1 DEF Shot!Perform
  <2> QED
    BY <1>1, <2>2 DEF Shot!ShotNext
<1>5. CASE ~arrives
  <2>1. performed' = performed
    BY <1>1, <1>5 DEF Execute
  <2> QED
    BY <1>3, <2>1 DEF ShotVars
<1> QED
  BY <1>4, <1>5

LEMMA CompleteIsSilent ==
    ASSUME IInv, NEW w \in Workers, Complete(w)
    PROVE  UNCHANGED ShotVars
<1>1. ledger \in [Requests -> Execution] /\ UNCHANGED <<performed, told>>
  BY DEF IInv, CommandTypeOK, Complete
<1>2. \A s \in Requests : ledger'[s].call = ledger[s].call
  <2>1. CASE ledger' = [ledger EXCEPT ![Request(w)].status = Result(w)]
    <3>1. \A s \in Requests : ledger[s] \in Execution
      BY <1>1
    <3> QED
      BY <1>1, <2>1, <3>1 DEF Execution
  <2>2. CASE UNCHANGED ledger
    BY <2>2
  <2> QED
    BY <2>1, <2>2 DEF Complete
<1> QED
  BY <1>1, <1>2 DEF ShotVars, Bound

LEMMA RefinesNext ==
    ASSUME IInv, [CommandNext]_vars
    PROVE  Shot!ShotNext \/ UNCHANGED ShotVars
<1>1. ASSUME UNCHANGED <<ledger, performed, told>> PROVE UNCHANGED ShotVars
  BY <1>1, BoundStays DEF ShotVars
<1>2. ASSUME NEW w \in Workers, Recover(w) \/ AppendAudit(w)
      PROVE  Shot!ShotNext \/ UNCHANGED ShotVars
  <2>1. ~At(w, "idle") /\ UNCHANGED <<ledger, performed>>
    BY <1>2 DEF Recover, AppendAudit, At
  <2>2. Call(w) \in Calls /\ Request(w) \in Requests
    BY <2>1, RequestOfCall DEF IInv, HandlersAreHonest, Request
  <2>3. (told' = told \cup {Call(w)} /\ performed[Call(w)] > 0) \/ UNCHANGED told
    BY <1>2, <2>2 DEF Recover, AppendAudit, Succeed, Recoverable, IInv, LedgerKnows, HandlersAreHonest
  <2> QED
    BY <1>1, <2>1, <2>2, <2>3, TellIsAllowed
<1>3. ASSUME NEW w \in Workers, Settle(w)
      PROVE  Shot!ShotNext \/ UNCHANGED ShotVars
  <2>1. Call(w) \in Calls /\ performed[Call(w)] > 0
    BY <1>3 DEF Settle, IInv, HandlersAreHonest
  <2>2. (told' = told \cup {Call(w)} \/ UNCHANGED told) /\ UNCHANGED <<ledger, performed>>
    BY <1>3 DEF Settle
  <2> QED
    BY <1>1, <2>1, <2>2, TellIsAllowed
<1>4. ASSUME NEW w \in Workers, NEW c \in Calls, ReplayReceipt(w, c)
      PROVE  Shot!ShotNext \/ UNCHANGED ShotVars
  <2>1. performed[c] > 0 /\ told' = told \cup {c} /\ UNCHANGED <<ledger, performed>>
    BY <1>4 DEF ReplayReceipt, IInv, SuccessIsTrue
  <2> QED
    BY <2>1, TellIsAllowed
<1>5. ASSUME NEW w \in Workers, Handle(w) \/ Lose(w)
      PROVE  Shot!ShotNext \/ UNCHANGED ShotVars
  <2>1. CASE \/ Release(w) \/ LookUp(w) \/ Pass(w) \/ Deny(w) \/ ReadToken(w) \/ NoToken(w)
             \/ RefuseUnsettled(w) \/ AuditFails(w) \/ SettleRefused(w) \/ Lose(w)
    BY <1>1, <2>1 DEF Release, LookUp, Pass, Deny, ReadToken, NoToken, RefuseUnsettled, AuditFails,
                      SettleRefused, Lose
  <2>2. CASE Reserve(w)
    BY <2>2, ReserveIsBind
  <2>3. CASE \E arrives, accepted \in BOOLEAN : Execute(w, arrives, accepted)
    BY <2>3, ExecuteIsPerform
  <2>4. CASE Complete(w)
    BY <2>4, CompleteIsSilent
  <2> QED
    BY <1>2, <1>3, <1>5, <2>1, <2>2, <2>3, <2>4 DEF Handle
<1>6. ASSUME \/ \E w \in Workers, c \in Calls : StartDirect(w, c) \/ StartSynced(w, c)
             \/ \E d \in Devices : Revoke(d)
             \/ UNCHANGED commandVars \/ UNCHANGED vars
      PROVE  UNCHANGED ShotVars
  BY <1>1, <1>6 DEF StartDirect, StartSynced, Revoke, commandVars, vars
<1> QED
  BY <1>4, <1>5, <1>6 DEF CommandNext, UndisturbedNext

-----------------------------------------------------------------------------
(* The theorems *)

THEOREM Inductive == CommandSpec => []IInv
<1>1. IInv /\ [CommandNext]_vars => IInv'
  BY NextIInv
<1> QED
  BY InitIInv, <1>1, PTL DEF CommandSpec

\* The rows of the ledger, the audit log and the receipts, and the handlers'
\* states are those the code knows.
THEOREM CommandTypes == CommandSpec => []CommandTypeOK
<1>1. IInv => CommandTypeOK
  BY DEF IInv
<1> QED
  BY Inductive, <1>1, PTL

\* Under one request id Home Assistant carries out at most one command, once,
\* however many handlers, routes, retries and losses there are.
THEOREM CarriedOutAtMostOnce == CommandSpec => []AtMostOnce
<1>1. IInv => AtMostOnce
  BY DEF IInv, LedgerKnows, AtMostOnce
<1> QED
  BY Inductive, <1>1, PTL

\* Whatever is answered, stored or logged as a success was carried out.
THEOREM SuccessWasCarriedOut == CommandSpec => []SuccessIsTrue
<1>1. IInv => SuccessIsTrue
  BY DEF IInv
<1> QED
  BY Inductive, <1>1, PTL

\* No later attempt takes back the success the audit log tells of.
THEOREM AuditedSuccessIsKept == CommandSpec => AuditedSuccessStays
<1>1. IInv /\ [CommandNext]_vars => [AuditStays]_vars
  BY NextIInv
<1>2. CommandSpec => [][AuditStays]_vars
  BY Inductive, <1>1, PTL DEF CommandSpec
<1> QED
  BY <1>2 DEF AuditedSuccessStays, AuditStays

\* The reservation ledger, the calls and the answers implement OneShot.
THEOREM KeepsThePromise == CommandSpec => KeepsPromise
<1>1. CommandInit => Shot!ShotInit
  BY RefinesInit
<1>2. IInv /\ [CommandNext]_vars => [Shot!ShotNext]_ShotVars
  BY RefinesNext
<1> QED
  BY Inductive, <1>1, <1>2, PTL DEF CommandSpec, KeepsPromise, Shot!ShotSpec, ShotVars

-----------------------------------------------------------------------------
(* The tables of commands *)

\* Which domains a capability can come from.
LEMMA CapabilitiesOfDomains ==
    ASSUME NEW r \in Table!Reports
    PROVE  LET c == Table!deriveCapabilities(r)
           IN /\ \A x \in {"turn_on", "turn_off"} : x \in c <=>
                   r.domain \in {"light", "switch", "fan", "input_boolean", "climate", "media_player"}
              /\ "toggle" \in c <=> r.domain \in {"light", "switch", "fan", "input_boolean"}
              /\ "brightness" \in c => r.domain = "light"
              /\ "temperature" \in c => r.domain = "climate"
              /\ "hvac_mode" \in c => r.domain = "climate"
              /\ \A x \in {"play", "pause"} : x \in c => r.domain = "media_player"
<1>1. r.domain \in Table!Domains
  BY DEF Table!Reports
<1>2. CASE r.domain = "light"
  BY <1>2 DEF Table!deriveCapabilities, Table!Switching
<1>3. CASE r.domain \in {"switch", "fan", "input_boolean"}
  BY <1>3 DEF Table!deriveCapabilities, Table!Switching
<1>4. CASE r.domain = "climate"
  BY <1>4 DEF Table!deriveCapabilities, Table!Switching
<1>5. CASE r.domain = "media_player"
  BY <1>5 DEF Table!deriveCapabilities, Table!Switching
<1>6. CASE r.domain \in {"scene", "script", "sensor"}
  BY <1>6 DEF Table!deriveCapabilities, Table!Switching
<1> QED
  BY <1>1, <1>2, <1>3, <1>4, <1>5, <1>6 DEF Table!Domains

\* The service call of a command in a domain that has it is one.
LEMMA CallsAreNotUnsupported ==
    ASSUME NEW domain \in Table!Domains, NEW q \in Table!Requests,
           domain \in Table!Service(q.command).domains, Table!validateCommandRequest(q)
    PROVE  Table!typedServiceCall(domain, q) # Unsupported
<1> DEFINE name == Table!Service(q.command).name
<1>1. name \in Table!Switching
                 \cup {"set_temperature", "set_hvac_mode", "media_play", "media_pause"}
  <2>1. q.command \in Table!AllCommands
    BY DEF Table!Requests
  <2>2. CASE q.command \in Table!Switching
    BY <2>2 DEF Table!Switching, Table!Service
  <2>3. CASE q.command \in {"set_brightness", "set_temperature", "set_hvac_mode"}
    BY <2>3 DEF Table!Switching, Table!Service
  <2>4. CASE q.command \in {"play", "pause", "activate_scene", "run_script"}
    BY <2>4 DEF Table!Switching, Table!Service
  <2> QED
    BY <2>1, <2>2, <2>3, <2>4 DEF Table!AllCommands
<1>2. Table!typedServiceCall(domain, q) = [domain |-> domain, service |-> name, request |-> q]
  BY DEF Table!typedServiceCall
<1> HIDE DEF name
<1>3. Table!typedServiceCall(domain, q) \in Table!ServiceCalls
  BY <1>1, <1>2 DEF Table!ServiceCalls
<1> QED
  BY <1>3, CatalogueAssumption

\* What the service lets pass for an entity has a service call.
LEMMA AllowedHasACall ==
    ASSUME NEW r \in Table!Reports, NEW q \in Table!Requests
    PROVE  Table!AllowedIsSendable(Table!Discovered(r), q)
<1> DEFINE e == Table!Discovered(r)
           s == Table!Service(q.command)
<1>1. /\ e.domain = r.domain /\ e.capabilities = Table!deriveCapabilities(r)
      /\ r.domain \in Table!Domains /\ q.command \in Table!AllCommands
  BY DEF Table!Discovered, Table!Reports, Table!Requests
<1> HIDE DEF e
<1>2. ASSUME Table!commandAllowedForEntity(e, q)
      PROVE  r.domain \in s.domains
  <2>1. CASE q.command \in {"turn_on", "turn_off"}
    BY <1>1, <1>2, <2>1, CapabilitiesOfDomains
       DEF Table!commandAllowedForEntity, Table!Service, Table!Switching
  <2>2. CASE q.command = "toggle"
    BY <1>1, <1>2, <2>2, CapabilitiesOfDomains
       DEF Table!commandAllowedForEntity, Table!Service, Table!Switching
  <2>3. CASE q.command = "set_brightness"
    BY <1>1, <1>2, <2>3, CapabilitiesOfDomains
       DEF Table!commandAllowedForEntity, Table!Service, Table!Switching
  <2>4. CASE q.command \in {"set_temperature", "set_hvac_mode"}
    BY <1>1, <1>2, <2>4, CapabilitiesOfDomains
       DEF Table!commandAllowedForEntity, Table!Service, Table!Switching
  <2>5. CASE q.command \in {"play", "pause"}
    BY <1>1, <1>2, <2>5, CapabilitiesOfDomains
       DEF Table!commandAllowedForEntity, Table!Service, Table!Switching
  <2>6. CASE q.command \in {"activate_scene", "run_script"}
    BY <1>1, <1>2, <2>6
       DEF Table!commandAllowedForEntity, Table!Service, Table!Switching
  <2> QED
    BY <1>1, <2>1, <2>2, <2>3, <2>4, <2>5, <2>6 DEF Table!AllCommands, Table!Switching
<1>3. ASSUME Table!Accepted(e, q)
      PROVE  Table!typedServiceCall(e.domain, q) # Unsupported
  <2>1. Table!validateCommandRequest(q) /\ Table!commandAllowedForEntity(e, q)
    BY <1>3 DEF Table!Accepted
  <2>2. r.domain \in s.domains
    BY <1>2, <2>1
  <2> QED
    BY <1>1, <2>1, <2>2, CallsAreNotUnsupported
<1> QED
  BY <1>3 DEF e, Table!AllowedIsSendable

\* A parameter comes with the command that takes it, which looks at the limits; a
\* stored mode is a reported one in lower case.
LEMMA SentKeepsToLimits ==
    ASSUME NEW r \in Table!Reports, NEW q \in Table!Requests
    PROVE  Table!SentWithinLimits(r, q)
<1> DEFINE e == Table!Discovered(r)
<1>1. q.command \in Table!AllCommands /\ r.modes \subseteq Modes
  BY DEF Table!Requests, Table!Reports
<1>e. e.min = r.min /\ e.max = r.max /\ e.modes = {Lower[m] : m \in r.modes}
  BY DEF Table!Discovered
<1> HIDE DEF e
<1>2. SUFFICES ASSUME Table!validateCommandRequest(q), Table!commandAllowedForEntity(e, q)
               PROVE  /\ q.temperature # None =>
                           /\ r.min # None => r.min <= q.temperature
                           /\ r.max # None => q.temperature <= r.max
                      /\ q.mode # None => \E m \in r.modes : Lower[m] = Lower[q.mode]
  BY DEF Table!SentWithinLimits, Table!Accepted, e
<1>3. CASE q.command = "set_temperature"
  <2>1. q.mode = None
    BY <1>2, <1>3 DEF Table!validateCommandRequest
  <2>2. (e.min # None => q.temperature >= e.min) /\ (e.max # None => q.temperature <= e.max)
    BY <1>2, <1>3 DEF Table!commandAllowedForEntity, Table!Switching
  <2>3. e.min # None => e.min <= q.temperature
    BY <2>2 DEF Table!commandAllowedForEntity
  <2> QED
    BY <1>e, <2>1, <2>2, <2>3
<1>4. CASE q.command = "set_hvac_mode"
  <2>1. q.temperature = None
    BY <1>2, <1>4 DEF Table!validateCommandRequest
  <2>2. \E m \in e.modes : Lower[m] = Lower[q.mode]
    BY <1>2, <1>4 DEF Table!commandAllowedForEntity, Table!Switching, Table!EqualFold
  <2>3. \E m \in r.modes : Lower[Lower[m]] = Lower[q.mode]
    BY <1>e, <2>2
  <2>4. \E m \in r.modes : Lower[m] = Lower[q.mode]
    BY <1>1, <2>3, CatalogueAssumption
  <2> QED
    BY <2>1, <2>4
<1>5. CASE q.command \notin {"set_temperature", "set_hvac_mode"}
  <2>1. q.temperature = None /\ q.mode = None
    BY <1>1, <1>2, <1>5
       DEF Table!validateCommandRequest, Table!NoParameters, Table!AllCommands, Table!Switching
  <2> QED
    BY <2>1
<1> QED
  BY <1>3, <1>4, <1>5

\* A command without parameters.
Bare(command) == [command |-> command, brightness |-> None, temperature |-> None, mode |-> None]

\* An entity is offered for control exactly if it takes a command.
LEMMA ControllableTakesACommand ==
    ASSUME NEW r \in Table!Reports
    PROVE  Table!ControllableIsUsable(Table!Discovered(r))
<1> DEFINE e == Table!Discovered(r)
<1>1. /\ e.domain = r.domain /\ e.capabilities = Table!deriveCapabilities(r)
      /\ e.controllable = Table!discoveredControllable(r) /\ r.domain \in Table!Domains
  BY DEF Table!Discovered, Table!Reports
<1> HIDE DEF e
<1>2. ASSUME NEW command \in {"turn_on", "activate_scene", "run_script"}
      PROVE  Bare(command) \in Table!Requests /\ Table!validateCommandRequest(Bare(command))
  BY <1>2 DEF Bare, Table!Requests, Table!AllCommands, Table!Switching, Table!validateCommandRequest,
              Table!NoParameters
<1>3. ASSUME e.controllable
      PROVE  \E command \in {"turn_on", "activate_scene", "run_script"} :
                Table!commandAllowedForEntity(e, Bare(command))
  <2>1. CASE r.domain = "scene"
    <3>1. Table!commandAllowedForEntity(e, Bare("activate_scene"))
      BY <1>1, <1>3, <2>1 DEF Table!commandAllowedForEntity, Bare, Table!Switching
    <3> QED
      BY <3>1
  <2>2. CASE r.domain = "script"
    <3>1. Table!commandAllowedForEntity(e, Bare("run_script"))
      BY <1>1, <1>3, <2>2 DEF Table!commandAllowedForEntity, Bare, Table!Switching
    <3> QED
      BY <3>1
  <2>3. CASE r.domain \notin {"scene", "script"}
    <3>1. "turn_on" \in e.capabilities
      BY <1>1, <1>3, <2>3, CapabilitiesOfDomains DEF Table!discoveredControllable
    <3>2. Table!commandAllowedForEntity(e, Bare("turn_on"))
      BY <1>3, <3>1 DEF Table!commandAllowedForEntity, Bare, Table!Switching
    <3> QED
      BY <3>2
  <2> QED
    BY <2>1, <2>2, <2>3
<1>4. ASSUME e.controllable
      PROVE  \E q \in Table!Requests : Table!Accepted(e, q)
                                        /\ Table!typedServiceCall(e.domain, q) # Unsupported
  <2>1. PICK command \in {"turn_on", "activate_scene", "run_script"} :
                Table!commandAllowedForEntity(e, Bare(command))
    BY <1>3, <1>4
  <2>2. Table!Accepted(e, Bare(command)) /\ Bare(command) \in Table!Requests
    BY <1>2, <2>1 DEF Table!Accepted
  <2>3. Table!typedServiceCall(e.domain, Bare(command)) # Unsupported
    BY <2>2, AllowedHasACall DEF e, Table!AllowedIsSendable
  <2> QED
    BY <2>2, <2>3
<1>5. ASSUME NEW q \in Table!Requests, Table!Accepted(e, q)
      PROVE  e.controllable
  BY <1>5 DEF Table!Accepted, Table!commandAllowedForEntity
<1> QED
  BY <1>4, <1>5 DEF e, Table!ControllableIsUsable

\* Whatever Home Assistant reports and a request carries, the four tables agree, and
\* what is sent keeps to the limits and, up to the case of its letters, the modes
\* reported.
THEOREM TablesAlwaysAgree == CommandSpec => []CommandTablesAgree
<1>1. Table!TablesAgree
  BY AllowedHasACall, SentKeepsToLimits, ControllableTakesACommand DEF Table!TablesAgree
<1>2. CommandTablesAgree
  BY <1>1 DEF CommandTablesAgree
<1> QED
  BY <1>2, PTL

=============================================================================
