---------------------------- MODULE SessionsProofs ----------------------------
(***************************************************************************)
(* Rotations do not multiply a token, a revocation reaches the tokens of   *)
(* rotations, and a rotation answers for the family and device of its      *)
(* commit, for any number of users, families, devices, tokens and          *)
(* connections.                                                            *)
(***************************************************************************)
EXTENDS Sessions, TLAPS

Presenting == {"scope", "share", "lock", "rotate", "logout"}
Revoking == {"revoke", "mark", "commit"}
LoggingIn == {"upsert", "issue", "create", "insert"}

\* What InTarget asks, of the request r.
Target(r) ==
    LET d == token[r.token].device IN
    /\ r.family = current[r.user]
    /\ IF r.device # NoDevice
       THEN r.device = d /\ FamilyOf(d) = r.family
       ELSE d # NoDevice => FamilyOf(d) # current[r.user]

\* What the request r relies on is true as long as it relies on it.
Fits(r) ==
    /\ r.at \in Presenting =>
         r.token \in Tokens /\ Exists(r.token) /\ token[r.token].user = r.user
    /\ r.at \in Revoking => r.device \in Devices
    /\ r.at \in LoggingIn => r.user \in Users
    /\ r.at = "upsert" => r.device \in Devices /\ r.family \in Families
    /\ r.at = "insert" /\ r.device # NoDevice => device[r.device].user = r.user
    /\ r.at \in {"lock", "rotate"} /\ token[r.token].device # NoDevice =>
         Active(token[r.token].device)
    /\ r.at = "rotate" => Live(r.token) /\ Target(r)
    /\ r.at = "commit" =>
         \A t \in Tokens : Rotated(t) /\ token[t].device = r.device => t \in r.seen
    /\ \A t \in r.seen : Exists(t)

\* The row locks: one rotation at a time for a user, and none on a device that is
\* being revoked.
Compatible(r, s) ==
    /\ ~(r.at = "rotate" /\ s.at = "rotate" /\ r.user = s.user)
    /\ ~(/\ r.at \in {"lock", "rotate"} /\ s.at \in {"mark", "commit"}
         /\ token[r.token].device = s.device)

HandlersFit == \A h \in Handlers : Fits(handler[h])

LocksHold == \A h, k \in Handlers : h # k => Compatible(handler[h], handler[k])

\* A token belongs to the user of its device and descends from a token there is.
TokensBelong ==
    \A t \in Tokens :
        /\ ~Exists(t) => token[t] = NoRow
        /\ Exists(t) => /\ token[t].user \in Users
                        /\ token[t].origin \in Tokens /\ Exists(token[t].origin)
                        /\ token[t].device # NoDevice =>
                             device[token[t].device].user = token[t].user

StoreInv == TokensBelong /\ OneLiveToken /\ RevokedWithDevice

IInv == SessionsTypeOK /\ StoreInv /\ HandlersFit /\ LocksHold

-----------------------------------------------------------------------------
(* Types *)

\* What is written over a request is a request.
LEMMA RequestWritten ==
    ASSUME SessionsTypeOK, NEW h \in Handlers, NEW r \in Handler,
           handler' = [handler EXCEPT ![h] = r]
    PROVE  handler' \in [Handlers -> Handler]
  BY DEF SessionsTypeOK

LEMMA RequestLeft ==
    ASSUME SessionsTypeOK, NEW h \in Handlers, Leave(h)
    PROVE  handler' \in [Handlers -> Handler]
<1>1. Free \in Handler
  BY DEF Free, Handler, Steps, Family, Device, Token
<1> QED
  BY <1>1, RequestWritten DEF Leave

LEMMA RequestServed ==
    ASSUME SessionsTypeOK, NEW h \in Handlers, NEW step \in Steps,
           NEW u \in Users \cup {NoUser}, NEW f \in Family, NEW d \in Device, NEW t \in Token,
           Serve(h, step, u, f, d, t)
    PROVE  handler' \in [Handlers -> Handler]
<1> DEFINE r == [at |-> step, user |-> u, family |-> f, device |-> d, token |-> t,
                 seen |-> {}]
<1>1. r \in Handler
  BY DEF Handler
<1>2. handler' = [handler EXCEPT ![h] = r]
  BY DEF Serve
<1> HIDE DEF r
<1> QED
  BY <1>1, <1>2, RequestWritten

LEMMA RequestAdvances ==
    ASSUME SessionsTypeOK, NEW h \in Handlers, NEW step \in Steps, Go(h, step)
    PROVE  handler' \in [Handlers -> Handler]
<1> DEFINE r == [handler[h] EXCEPT !.at = step]
<1>1. handler[h] \in Handler
  BY DEF SessionsTypeOK
<1>2. r \in Handler
  BY <1>1 DEF Handler
<1>3. handler' = [handler EXCEPT ![h] = r]
  BY DEF Go
<1> HIDE DEF r
<1> QED
  BY <1>2, <1>3, RequestWritten

\* A device is registered, or stays as it is.
LEMMA UpsertTypes ==
    ASSUME SessionsTypeOK, NEW u \in Users \cup {NoUser}, NEW f \in Family, NEW d, Upsert(d, u, f)
    PROVE  device' \in [Devices -> Registration]
<1>1. [user |-> u, family |-> f, revoked |-> FALSE] \in Registration
  BY DEF Registration
<1> QED
  BY <1>1 DEF Upsert, SessionsTypeOK

\* A token is revoked, and nothing else of it changes.
LEMMA RevokedRow ==
    ASSUME NEW r \in Row
    PROVE  /\ [r EXCEPT !.state = "revoked"] \in Row
           /\ [r EXCEPT !.state = "revoked"].state = "revoked"
           /\ [r EXCEPT !.state = "revoked"].user = r.user
           /\ [r EXCEPT !.state = "revoked"].family = r.family
           /\ [r EXCEPT !.state = "revoked"].device = r.device
           /\ [r EXCEPT !.state = "revoked"].origin = r.origin
  BY DEF Row

\* The fields of rows.
LEMMA RowFields ==
    ASSUME SessionsTypeOK
    PROVE  /\ \A t \in Tokens : /\ token[t] \in Row /\ token[t].device \in Device
                                /\ token[t].user \in Users \cup {NoUser}
           /\ \A h \in Handlers :
                /\ handler[h] \in Handler /\ handler[h].user \in Users \cup {NoUser}
                /\ handler[h].family \in Family /\ handler[h].device \in Device
                /\ handler[h].token \in Token /\ handler[h].seen \in SUBSET Tokens
           /\ \A d \in Device : FamilyOf(d) \in Family
<1>1. \A t \in Tokens : token[t] \in Row
  BY DEF SessionsTypeOK
<1>2. \A h \in Handlers : handler[h] \in Handler
  BY DEF SessionsTypeOK
<1>3. \A d \in Devices : device[d] \in Registration
  BY DEF SessionsTypeOK
<1>4. \A d \in Device : FamilyOf(d) \in Family
  BY <1>3 DEF FamilyOf, Device, Family, Registration
<1>5. \A h \in Handlers : /\ handler[h].user \in Users \cup {NoUser}
                          /\ handler[h].family \in Family /\ handler[h].device \in Device
                          /\ handler[h].token \in Token /\ handler[h].seen \in SUBSET Tokens
  BY <1>2 DEF Handler
<1>6. \A t \in Tokens : token[t].device \in Device /\ token[t].user \in Users \cup {NoUser}
  BY <1>1 DEF Row
<1> QED
  BY <1>1, <1>2, <1>4, <1>5, <1>6

LEMMA StepTypes ==
    ASSUME IInv, [SessionsNext]_vars
    PROVE  SessionsTypeOK'
<1>0. SessionsTypeOK /\ HandlersFit /\ TokensBelong
  BY DEF IInv, StoreInv
<1> USE <1>0
<1>1. ASSUME NEW u \in Users, NEW f \in Families, SetCurrentForUser(u, f)
      PROVE  SessionsTypeOK'
  BY <1>1 DEF SetCurrentForUser, Family, SessionsTypeOK
<1>2. ASSUME NEW u \in Users, NEW f \in Families, NEW d \in Devices,
             RegisterDevice(u, f, d)
      PROVE  SessionsTypeOK'
  <2>1. device' \in [Devices -> Registration]
    BY <1>2, UpsertTypes DEF RegisterDevice, Family
  <2> QED
    BY <1>2, <2>1 DEF RegisterDevice, SessionsTypeOK
<1>3. ASSUME NEW u \in Users, NEW f \in Families, NEW d \in Devices, NEW h \in Handlers,
             RevokeDevice(h, u, f, d)
      PROVE  SessionsTypeOK'
  <2>1. handler' \in [Handlers -> Handler]
    BY <1>3, RequestServed DEF RevokeDevice, Family, Device, Token, Steps
  <2> QED
    BY <1>3, <2>1 DEF RevokeDevice, SessionsTypeOK
<1>4. ASSUME NEW h \in Handlers, NEW u \in Users, NEW d \in Device, Login(h, u, d)
      PROVE  SessionsTypeOK'
  <2>1. current[u] \in Family /\ NoToken \in Token
    BY DEF SessionsTypeOK, Token
  <2>2. \E step \in Steps : Serve(h, step, u, current[u], d, NoToken)
    BY <1>4 DEF Login, Steps
  <2>3. handler' \in [Handlers -> Handler]
    BY <2>1, <2>2, RequestServed
  <2> QED
    BY <1>4, <2>3 DEF Login, SessionsTypeOK
<1>5. ASSUME NEW h \in Handlers, NEW t \in Tokens, Refresh(h, t)
      PROVE  SessionsTypeOK'
  <2>1. /\ token[t].user \in Users \cup {NoUser} /\ token[t].device \in Device
        /\ FamilyOf(token[t].device) \in Family
    BY RowFields
  <2>2. "scope" \in Steps /\ t \in Token /\ NoDevice \in Device
    BY DEF Steps, Token, Device
  <2>3. \E d \in Device : Serve(h, "scope", token[t].user, FamilyOf(token[t].device), d, t)
    BY <1>5, <2>1, <2>2 DEF Refresh
  <2>4. handler' \in [Handlers -> Handler]
    BY <2>1, <2>2, <2>3, RequestServed
  <2> QED
    BY <1>5, <2>4 DEF Refresh, SessionsTypeOK
<1>6. ASSUME NEW h \in Handlers, NEW t \in Tokens, Logout(h, t)
      PROVE  SessionsTypeOK'
  <2>1. token[t].user \in Users \cup {NoUser}
    BY RowFields
  <2>2. "logout" \in Steps /\ t \in Token /\ NoDevice \in Device /\ NoFamily \in Family
    BY DEF Steps, Token, Device, Family
  <2>3. handler' \in [Handlers -> Handler]
    BY <1>6, <2>1, <2>2, RequestServed DEF Logout
  <2> QED
    BY <1>6, <2>3 DEF Logout, SessionsTypeOK
<1>7. ASSUME NEW h \in Handlers, NEW t \in Tokens, InsertToken(h, t)
      PROVE  SessionsTypeOK'
  <2>1. [state |-> "live", user |-> handler[h].user, family |-> handler[h].family,
         device |-> handler[h].device, origin |-> t] \in Row
    BY RowFields DEF Row, Token
  <2>2. token' \in [Tokens -> Row]
    BY <1>7, <2>1 DEF InsertToken, SessionsTypeOK
  <2>3. handler' \in [Handlers -> Handler]
    BY <1>7, RequestLeft DEF InsertToken
  <2> QED
    BY <1>7, <2>2, <2>3 DEF InsertToken, SessionsTypeOK
<1>8. ASSUME NEW h \in Handlers, NEW t \in Tokens, Rotate(h, t)
      PROVE  SessionsTypeOK'
  <2> DEFINE r == handler[h]
             new == [state |-> "live", user |-> r.user, family |-> r.family,
                     device |-> r.device, origin |-> token[r.token].origin]
             old == [token[r.token] EXCEPT !.state = "revoked"]
  <2>1. r.token \in Tokens
    BY <1>8 DEF HandlersFit, Fits, Presenting, At, Rotate
  <2>2. token[r.token] \in Row
    BY <2>1, RowFields
  <2>3. old \in Row
    BY <2>2, RevokedRow
  <2>4. new \in Row
    BY <2>2, RowFields DEF Row
  <2>5. token' = [token EXCEPT ![r.token] = old, ![t] = new]
    BY <1>8 DEF Rotate
  <2> HIDE DEF old, new
  <2>6. token' \in [Tokens -> Row]
    BY <2>1, <2>3, <2>4, <2>5 DEF SessionsTypeOK
  <2>7. handler' \in [Handlers -> Handler]
    BY <1>8, RequestLeft DEF Rotate
  <2> QED
    BY <1>8, <2>6, <2>7 DEF Rotate, SessionsTypeOK
<1>9. ASSUME NEW h \in Handlers,
             MarkDevice(h) \/ Create(h) \/ ShareDevice(h) \/ LockToken(h)
      PROVE  SessionsTypeOK'
  <2>1. Leave(h) \/ \E step \in Steps : Go(h, step)
    BY <1>9 DEF MarkDevice, Create, ShareDevice, LockToken, Steps
  <2>2. handler' \in [Handlers -> Handler]
    BY <2>1, RequestLeft, RequestAdvances
  <2> QED
    BY <1>9, <2>2 DEF MarkDevice, Create, ShareDevice, LockToken, SessionsTypeOK
<1>14. ASSUME NEW h \in Handlers, SeeTokens(h)
       PROVE  SessionsTypeOK'
  <2> DEFINE seen == {t \in Tokens : Exists(t) /\ token[t].device = handler[h].device}
             r == [handler[h] EXCEPT !.at = "commit", !.seen = seen]
  <2>1. r \in Handler
    BY RowFields DEF Handler, Steps
  <2>2. handler' = [handler EXCEPT ![h] = r]
    BY <1>14 DEF SeeTokens
  <2> HIDE DEF r
  <2>3. handler' \in [Handlers -> Handler]
    BY <2>1, <2>2, RequestWritten
  <2> QED
    BY <1>14, <2>3 DEF SeeTokens, SessionsTypeOK
<1>10. ASSUME NEW h \in Handlers, CommitRevocation(h)
       PROVE  SessionsTypeOK'
  <2>1. handler' \in [Handlers -> Handler]
    BY <1>10, RequestLeft DEF CommitRevocation
  <2>2. token' \in [Tokens -> Row]
    BY <1>10, RowFields, RevokedRow DEF CommitRevocation, RevokeTokens
  <2>3. \A d \in Devices : [device[d] EXCEPT !.revoked = TRUE] \in Registration
    BY DEF SessionsTypeOK, Registration
  <2>4. device' \in [Devices -> Registration]
    BY <1>10, <2>3 DEF CommitRevocation, SessionsTypeOK
  <2> QED
    BY <1>10, <2>1, <2>2, <2>4 DEF CommitRevocation, SessionsTypeOK
<1>11. ASSUME NEW h \in Handlers, LoginDevice(h)
       PROVE  SessionsTypeOK'
  <2>1. Leave(h) \/ Go(h, "issue")
    BY <1>11 DEF LoginDevice
  <2>2. handler' \in [Handlers -> Handler]
    BY <2>1, RequestLeft, RequestAdvances DEF Steps
  <2>3. device' \in [Devices -> Registration]
    BY <1>11, RowFields, UpsertTypes DEF LoginDevice
  <2> QED
    BY <1>11, <2>2, <2>3 DEF LoginDevice, SessionsTypeOK
<1>12. ASSUME NEW h \in Handlers, Issue(h) \/ ReadScope(h)
       PROVE  SessionsTypeOK'
  <2>1. handler[h].user \in Users
    BY <1>12 DEF HandlersFit, Fits, TokensBelong, Presenting, LoggingIn, At, Issue, ReadScope
  <2>2. current[handler[h].user] \in Family /\ NoDevice \in Device
    BY <2>1 DEF SessionsTypeOK, Device
  <2>3. CASE Issue(h)
    <3> DEFINE r == [handler[h] EXCEPT !.at = "create", !.family = current[handler[h].user]]
    <3>1. r \in Handler
      BY <2>2, RowFields DEF Handler, Steps
    <3>2. Leave(h) \/ handler' = [handler EXCEPT ![h] = r]
      BY <2>3 DEF Issue
    <3> HIDE DEF r
    <3>3. handler' \in [Handlers -> Handler]
      BY <3>1, <3>2, RequestLeft, RequestWritten
    <3> QED
      BY <2>3, <3>3 DEF Issue, SessionsTypeOK
  <2>4. CASE ReadScope(h)
    <3>1. ASSUME NEW d \in Device
          PROVE  [handler[h] EXCEPT !.at = "share", !.family = current[handler[h].user],
                                    !.device = d] \in Handler
      BY <2>2, RowFields DEF Handler, Steps
    <3>2. \E r \in Handler : handler' = [handler EXCEPT ![h] = r]
      BY <2>2, <2>4, <3>1, RowFields DEF ReadScope
    <3>3. handler' \in [Handlers -> Handler]
      BY <3>2, RequestWritten
    <3> QED
      BY <2>4, <3>3 DEF ReadScope, SessionsTypeOK
  <2> QED
    BY <1>12, <2>3, <2>4
<1>13. ASSUME NEW h \in Handlers, RevokeToken(h) \/ Lose(h)
       PROVE  SessionsTypeOK'
  <2>1. handler' \in [Handlers -> Handler]
    BY <1>13, RequestLeft DEF RevokeToken, Lose
  <2>2. token' \in [Tokens -> Row]
    BY <1>13, RowFields, RevokedRow DEF RevokeToken, Lose, SessionsTypeOK
  <2> QED
    BY <1>13, <2>1, <2>2 DEF RevokeToken, Lose, SessionsTypeOK
<1>15. CASE UNCHANGED vars
  BY <1>15 DEF vars, SessionsTypeOK
<1> QED
  BY <1>1, <1>2, <1>3, <1>4, <1>5, <1>6, <1>7, <1>8, <1>9, <1>10, <1>11, <1>12, <1>13,
     <1>14, <1>15
  DEF SessionsNext

-----------------------------------------------------------------------------
(* Steps that change only what a request has got to *)

Locking == {"lock", "rotate", "mark", "commit"}

Moves(h, r) == handler' = [handler EXCEPT ![h] = r] /\ UNCHANGED <<current, device, token>>

\* A request may go on to whatever the store bears out and the locks allow.
LEMMA MoveKeeps ==
    ASSUME IInv, NEW h \in Handlers, NEW r, Moves(h, r), Fits(r),
           r.at \in Locking =>
             \A k \in Handlers \ {h} : Compatible(r, handler[k]) /\ Compatible(handler[k], r)
    PROVE  (StoreInv /\ HandlersFit /\ LocksHold)'
<1>1. /\ handler'[h] = r
      /\ \A k \in Handlers \ {h} : handler'[k] = handler[k]
  BY DEF Moves, IInv, SessionsTypeOK
<1>2. StoreInv'
  BY DEF IInv, StoreInv, Moves, TokensBelong, OneLiveToken, RevokedWithDevice, Exists, Live,
         Rotated
<1>3. HandlersFit'
  <2>1. \A x : Fits(x) => Fits(x)'
    BY DEF Moves, Fits, Exists, Live, Active, Rotated, Target, FamilyOf
  <2> SUFFICES ASSUME NEW k \in Handlers PROVE Fits(handler[k])'
    BY DEF HandlersFit
  <2>2. Fits(handler'[k])
    BY <1>1 DEF IInv, HandlersFit
  <2> QED
    BY <2>2, <1>1 DEF Moves, Fits, Exists, Live, Active, Rotated, Target, FamilyOf
<1>4. LocksHold'
  <2> SUFFICES ASSUME NEW j \in Handlers, NEW k \in Handlers, j # k
               PROVE  Compatible(handler[j], handler[k])'
    BY DEF LocksHold
  <2>1. Compatible(handler'[j], handler'[k])
    <3>1. r.at \notin Locking =>
            \A k1 \in Handlers \ {h} : Compatible(r, handler[k1]) /\ Compatible(handler[k1], r)
      BY DEF Compatible, Locking
    <3> QED
      BY <1>1, <3>1 DEF IInv, LocksHold
  <2> QED
    BY <2>1 DEF Compatible, Moves
<1> QED
  BY <1>2, <1>3, <1>4

LEMMA RevokeDeviceKeeps ==
    ASSUME IInv, NEW h \in Handlers, NEW u \in Users, NEW f \in Families, NEW d \in Devices,
           RevokeDevice(h, u, f, d)
    PROVE  (StoreInv /\ HandlersFit /\ LocksHold)'
<1> DEFINE r == [at |-> "revoke", user |-> u, family |-> f, device |-> d,
                 token |-> NoToken, seen |-> {}]
<1>1. Moves(h, r)
  BY DEF RevokeDevice, Serve, Moves
<1>2. Fits(r) /\ r.at \notin Locking
  BY DEF Fits, Presenting, Revoking, LoggingIn, Locking
<1> QED
  BY <1>1, <1>2, MoveKeeps

LEMMA MarkDeviceKeeps ==
    ASSUME IInv, NEW h \in Handlers, MarkDevice(h)
    PROVE  (StoreInv /\ HandlersFit /\ LocksHold)'
<1> DEFINE r == [handler[h] EXCEPT !.at = "mark"]
<1>1. handler[h] \in Handler /\ Fits(handler[h])
  BY DEF IInv, SessionsTypeOK, HandlersFit
<1>2. Moves(h, r)
  BY DEF MarkDevice, Go, Moves
<1>3. r.at = "mark" /\ r.device = handler[h].device /\ r.seen = handler[h].seen
  BY <1>1 DEF Handler
<1>4. Fits(r)
  BY <1>1, <1>3 DEF Fits, Presenting, Revoking, LoggingIn, MarkDevice, At
<1>5. \A k \in Handlers \ {h} : Compatible(r, handler[k]) /\ Compatible(handler[k], r)
  BY <1>3 DEF Compatible, MarkDevice, Shared
<1> QED
  BY <1>2, <1>4, <1>5, MoveKeeps

LEMMA SeeTokensKeeps ==
    ASSUME IInv, NEW h \in Handlers, SeeTokens(h)
    PROVE  (StoreInv /\ HandlersFit /\ LocksHold)'
<1> DEFINE seen == {t \in Tokens : Exists(t) /\ token[t].device = handler[h].device}
           r == [handler[h] EXCEPT !.at = "commit", !.seen = seen]
<1>1. handler[h] \in Handler /\ Fits(handler[h]) /\ handler[h].at = "mark"
  BY DEF IInv, SessionsTypeOK, HandlersFit, SeeTokens, At
<1>2. Moves(h, r)
  BY DEF SeeTokens, Moves
<1>3. r.at = "commit" /\ r.device = handler[h].device /\ r.seen = seen
  BY <1>1 DEF Handler
<1>4. Fits(r)
  BY <1>1, <1>3 DEF Fits, Presenting, Revoking, LoggingIn, Rotated
<1>5. \A k \in Handlers \ {h} : Compatible(r, handler[k]) /\ Compatible(handler[k], r)
  <2>1. \A k \in Handlers \ {h} :
          Compatible(handler[h], handler[k]) /\ Compatible(handler[k], handler[h])
    BY DEF IInv, LocksHold
  <2> QED
    BY <1>1, <1>3, <2>1 DEF Compatible
<1> QED
  BY <1>2, <1>4, <1>5, MoveKeeps

LEMMA LoginKeeps ==
    ASSUME IInv, NEW h \in Handlers, NEW u \in Users, NEW d \in Device, Login(h, u, d)
    PROVE  (StoreInv /\ HandlersFit /\ LocksHold)'
<1> DEFINE r == [at |-> IF d = NoDevice THEN "issue" ELSE "upsert", user |-> u,
                 family |-> current[u], device |-> d, token |-> NoToken, seen |-> {}]
<1>1. Moves(h, r)
  BY DEF Login, Serve, Moves
<1>2. current[u] \in Family
  BY DEF IInv, SessionsTypeOK
<1>3. Fits(r) /\ r.at \notin Locking
  BY <1>2 DEF Fits, Presenting, Revoking, LoggingIn, Locking, Login, Device, Family
<1> QED
  BY <1>1, <1>3, MoveKeeps

\* A request that is answered or lost.
LEMMA LeaveKeeps ==
    ASSUME IInv, NEW h \in Handlers, Leave(h), UNCHANGED <<current, device, token>>
    PROVE  (StoreInv /\ HandlersFit /\ LocksHold)'
<1>1. Moves(h, Free)
  BY DEF Leave, Moves
<1>2. Fits(Free) /\ Free.at \notin Locking
  BY DEF Fits, Free, Presenting, Revoking, LoggingIn, Locking
<1> QED
  BY <1>1, <1>2, MoveKeeps

LEMMA IssueKeeps ==
    ASSUME IInv, NEW h \in Handlers, Issue(h)
    PROVE  (StoreInv /\ HandlersFit /\ LocksHold)'
<1>1. CASE Leave(h)
  BY <1>1, LeaveKeeps DEF Issue
<1>2. CASE ~Leave(h)
  <2> DEFINE r == [handler[h] EXCEPT !.at = "create", !.family = current[handler[h].user]]
  <2>1. handler[h] \in Handler /\ Fits(handler[h]) /\ handler[h].at = "issue"
    BY DEF IInv, SessionsTypeOK, HandlersFit, Issue, At
  <2>2. Moves(h, r)
    BY <1>2 DEF Issue, Moves
  <2>3. r.at = "create" /\ r.user = handler[h].user /\ r.seen = handler[h].seen
    BY <2>1 DEF Handler
  <2>4. Fits(r) /\ r.at \notin Locking
    BY <2>1, <2>3 DEF Fits, Presenting, Revoking, LoggingIn, Locking
  <2> QED
    BY <2>2, <2>4, MoveKeeps
<1> QED
  BY <1>1, <1>2

LEMMA CreateKeeps ==
    ASSUME IInv, NEW h \in Handlers, Create(h)
    PROVE  (StoreInv /\ HandlersFit /\ LocksHold)'
<1>1. CASE Leave(h)
  BY <1>1, LeaveKeeps DEF Create
<1>2. CASE ~Leave(h)
  <2> DEFINE r == [handler[h] EXCEPT !.at = "insert"]
  <2>1. handler[h] \in Handler /\ Fits(handler[h]) /\ handler[h].at = "create"
    BY DEF IInv, SessionsTypeOK, HandlersFit, Create, At
  <2>2. Moves(h, r) /\ InScope(handler[h].device, handler[h].user)
    BY <1>2 DEF Create, Moves, Go
  <2>3. /\ r.at = "insert" /\ r.user = handler[h].user /\ r.seen = handler[h].seen
        /\ r.device = handler[h].device
    BY <2>1 DEF Handler
  <2>4. Fits(r) /\ r.at \notin Locking
    BY <2>1, <2>2, <2>3 DEF Fits, Presenting, Revoking, LoggingIn, Locking, InScope
  <2> QED
    BY <2>2, <2>4, MoveKeeps
<1> QED
  BY <1>1, <1>2

LEMMA PresentKeeps ==
    ASSUME IInv, NEW h \in Handlers, NEW t \in Tokens, Refresh(h, t) \/ Logout(h, t)
    PROVE  (StoreInv /\ HandlersFit /\ LocksHold)'
<1>1. PICK step, f, d :
        /\ step \in {"scope", "logout"}
        /\ Moves(h, [at |-> step, user |-> token[t].user, family |-> f, device |-> d,
                     token |-> t, seen |-> {}])
  BY DEF Refresh, Logout, Serve, Moves
<1> DEFINE r == [at |-> step, user |-> token[t].user, family |-> f, device |-> d,
                 token |-> t, seen |-> {}]
<1>2. Exists(t)
  BY DEF Refresh, Logout, Usable, Live, Exists
<1>3. Fits(r) /\ r.at \notin Locking
  BY <1>1, <1>2 DEF Fits, Presenting, Revoking, LoggingIn, Locking
<1> QED
  BY <1>1, <1>3, MoveKeeps

LEMMA ReadScopeKeeps ==
    ASSUME IInv, NEW h \in Handlers, ReadScope(h)
    PROVE  (StoreInv /\ HandlersFit /\ LocksHold)'
<1>1. handler[h] \in Handler /\ Fits(handler[h]) /\ handler[h].at = "scope"
  BY DEF IInv, SessionsTypeOK, HandlersFit, ReadScope, At
<1>2. PICK f, d : Moves(h, [handler[h] EXCEPT !.at = "share", !.family = f, !.device = d])
  BY DEF ReadScope, Moves
<1> DEFINE r == [handler[h] EXCEPT !.at = "share", !.family = f, !.device = d]
<1>3. /\ r.at = "share" /\ r.user = handler[h].user /\ r.seen = handler[h].seen
      /\ r.token = handler[h].token
  BY <1>1 DEF Handler
<1>4. Fits(r) /\ r.at \notin Locking
  BY <1>1, <1>3 DEF Fits, Presenting, Revoking, LoggingIn, Locking
<1> QED
  BY <1>2, <1>4, MoveKeeps

LEMMA ShareDeviceKeeps ==
    ASSUME IInv, NEW h \in Handlers, ShareDevice(h)
    PROVE  (StoreInv /\ HandlersFit /\ LocksHold)'
<1>1. CASE Leave(h)
  BY <1>1, LeaveKeeps DEF ShareDevice
<1>2. CASE ~Leave(h)
  <2> DEFINE r == [handler[h] EXCEPT !.at = "lock"]
  <2>1. handler[h] \in Handler /\ Fits(handler[h]) /\ handler[h].at = "share"
    BY DEF IInv, SessionsTypeOK, HandlersFit, ShareDevice, At
  <2>2. /\ Moves(h, r) /\ ~Exclusive(token[handler[h].token].device)
        /\ token[handler[h].token].device # NoDevice =>
             Active(token[handler[h].token].device)
    BY <1>2 DEF ShareDevice, Moves, Go
  <2>3. /\ r.at = "lock" /\ r.user = handler[h].user /\ r.seen = handler[h].seen
        /\ r.token = handler[h].token
    BY <2>1 DEF Handler
  <2>4. Fits(r)
    BY <2>1, <2>2, <2>3 DEF Fits, Presenting, Revoking, LoggingIn
  <2>5. \A k \in Handlers \ {h} : Compatible(r, handler[k]) /\ Compatible(handler[k], r)
    BY <2>2, <2>3 DEF Compatible, Exclusive
  <2> QED
    BY <2>2, <2>4, <2>5, MoveKeeps
<1> QED
  BY <1>1, <1>2

LEMMA LockTokenKeeps ==
    ASSUME IInv, NEW h \in Handlers, LockToken(h)
    PROVE  (StoreInv /\ HandlersFit /\ LocksHold)'
<1>1. CASE Leave(h)
  BY <1>1, LeaveKeeps DEF LockToken
<1>2. CASE ~Leave(h)
  <2> DEFINE r == [handler[h] EXCEPT !.at = "rotate"]
  <2>1. handler[h] \in Handler /\ Fits(handler[h]) /\ handler[h].at = "lock"
    BY DEF IInv, SessionsTypeOK, HandlersFit, LockToken, At
  <2>2. /\ Moves(h, r) /\ ~UserLocked(handler[h].user)
        /\ Live(handler[h].token) /\ InTarget(h)
    BY <1>2 DEF LockToken, Moves, Go, StillLive
  <2>3. /\ r.at = "rotate" /\ r.user = handler[h].user /\ r.seen = handler[h].seen
        /\ r.token = handler[h].token /\ r.family = handler[h].family
        /\ r.device = handler[h].device
    BY <2>1 DEF Handler
  <2>4. Fits(r)
    BY <2>1, <2>2, <2>3 DEF Fits, Presenting, Revoking, LoggingIn, InTarget, Target
  <2>5. \A k \in Handlers \ {h} : Compatible(r, handler[k]) /\ Compatible(handler[k], r)
    <3>1. \A k \in Handlers \ {h} :
            Compatible(handler[h], handler[k]) /\ Compatible(handler[k], handler[h])
      BY DEF IInv, LocksHold
    <3> QED
      BY <2>1, <2>2, <2>3, <3>1 DEF Compatible, UserLocked, At
  <2> QED
    BY <2>2, <2>4, <2>5, MoveKeeps
<1> QED
  BY <1>1, <1>2

-----------------------------------------------------------------------------
(* Steps that change the store *)

\* One request goes on without a lock, and the store still bears out the others.
LEMMA OthersKeep ==
    ASSUME IInv, NEW h \in Handlers, NEW r, handler' = [handler EXCEPT ![h] = r],
           Fits(r)', r.at \notin Locking,
           \A k \in Handlers \ {h} : \A x : x = handler[k] => Fits(x)',
           \A t \in Tokens : Exists(t) => token'[t].device = token[t].device
    PROVE  (HandlersFit /\ LocksHold)'
<1>1. /\ handler'[h] = r
      /\ \A k \in Handlers \ {h} : handler'[k] = handler[k]
  BY DEF IInv, SessionsTypeOK
<1>2. HandlersFit'
  BY <1>1 DEF HandlersFit
<1>3. LocksHold'
  <2> SUFFICES ASSUME NEW j \in Handlers, NEW k \in Handlers, j # k
               PROVE  Compatible(handler[j], handler[k])'
    BY DEF LocksHold
  <2>1. CASE j = h \/ k = h
    BY <1>1, <2>1 DEF Compatible, Locking
  <2>2. CASE j # h /\ k # h
    <3>1. Compatible(handler[j], handler[k]) /\ Fits(handler[j])
      BY DEF IInv, LocksHold, HandlersFit
    <3>2. handler[j].at \in {"lock", "rotate"} =>
            token'[handler[j].token].device = token[handler[j].token].device
      BY <3>1 DEF Fits, Presenting
    <3> QED
      BY <1>1, <2>2, <3>1, <3>2 DEF Compatible
  <2> QED
    BY <2>1, <2>2
<1> QED
  BY <1>2, <1>3

LEMMA SetCurrentKeeps ==
    ASSUME IInv, NEW u \in Users, NEW f \in Families, SetCurrentForUser(u, f)
    PROVE  (StoreInv /\ HandlersFit /\ LocksHold)'
<1>1. StoreInv'
  BY DEF SetCurrentForUser, IInv, StoreInv, TokensBelong, OneLiveToken, RevokedWithDevice,
         Exists, Live, Rotated
<1>2. HandlersFit'
  <2> SUFFICES ASSUME NEW k \in Handlers PROVE Fits(handler[k])'
    BY DEF HandlersFit
  <2>1. Fits(handler[k])
    BY DEF IInv, HandlersFit
  <2>2. handler[k].at = "rotate" => current'[handler[k].user] = current[handler[k].user]
    BY DEF SetCurrentForUser, UserLocked, At, IInv, SessionsTypeOK
  <2> QED
    BY <2>1, <2>2 DEF SetCurrentForUser, Fits, Exists, Live, Active, Rotated, Target, FamilyOf
<1>3. LocksHold'
  BY DEF SetCurrentForUser, IInv, LocksHold, Compatible
<1> QED
  BY <1>1, <1>2, <1>3

\* A registration changes no row there is.
LEMMA UpsertKeeps ==
    ASSUME IInv, NEW d \in Devices, NEW u \in Users, NEW f, Upsert(d, u, f),
           UNCHANGED <<current, token>>
    PROVE  /\ StoreInv'
           /\ \A x \in Handler : Fits(x) => Fits(x)'
<1>1. \A e \in Devices : device[e].user # NoUser => device'[e] = device[e]
  BY DEF IInv, SessionsTypeOK, Upsert, Registrable, Active, Registration
<1>2. \A t \in Tokens : Exists(t) /\ token[t].device # NoDevice =>
        token[t].device \in Devices /\ device[token[t].device].user # NoUser
  BY SessionsAssumption
  DEF IInv, SessionsTypeOK, StoreInv, TokensBelong, Row, Device
<1>3. TokensBelong' /\ OneLiveToken'
  BY <1>1, <1>2 DEF IInv, StoreInv, TokensBelong, OneLiveToken, Exists, Live
<1>4. RevokedWithDevice'
  BY <1>1, <1>2 DEF IInv, StoreInv, RevokedWithDevice, Rotated, Exists, Live
<1>5. ASSUME NEW x \in Handler, Fits(x)
      PROVE  Fits(x)'
  <2>1. x.at \in {"lock", "rotate"} /\ token[x.token].device # NoDevice =>
          device'[token[x.token].device] = device[token[x.token].device]
    BY <1>1, <1>2, <1>5 DEF Fits, Presenting
  <2>2. x.at = "insert" /\ x.device # NoDevice => device'[x.device].user = x.user
    BY <1>1, <1>5, SessionsAssumption DEF Fits, LoggingIn, Handler, Device
  <2>3. x.at = "rotate" => Target(x)'
    BY <1>5, <2>1 DEF Fits, Target, FamilyOf
  <2> QED
    BY <1>5, <2>1, <2>2, <2>3 DEF Fits, Exists, Live, Active, Rotated
<1> QED
  BY <1>3, <1>4, <1>5 DEF StoreInv

LEMMA RegisterDeviceKeeps ==
    ASSUME IInv, NEW u \in Users, NEW f \in Families, NEW d \in Devices,
           RegisterDevice(u, f, d)
    PROVE  (StoreInv /\ HandlersFit /\ LocksHold)'
<1>1. StoreInv' /\ \A x \in Handler : Fits(x) => Fits(x)'
  BY UpsertKeeps DEF RegisterDevice
<1>2. HandlersFit'
  <2> SUFFICES ASSUME NEW k \in Handlers PROVE Fits(handler[k])'
    BY DEF HandlersFit
  <2>1. handler'[k] = handler[k] /\ handler[k] \in Handler /\ Fits(handler[k])
    BY DEF RegisterDevice, IInv, SessionsTypeOK, HandlersFit
  <2>2. \A x \in Handler : x = handler[k] => Fits(x)'
    BY <1>1, <2>1
  <2> QED
    BY <2>1, <2>2
<1>3. LocksHold'
  BY DEF RegisterDevice, IInv, LocksHold, Compatible
<1> QED
  BY <1>1, <1>2, <1>3

LEMMA LoginDeviceKeeps ==
    ASSUME IInv, NEW h \in Handlers, LoginDevice(h)
    PROVE  (StoreInv /\ HandlersFit /\ LocksHold)'
<1> DEFINE q == handler[h]
<1>1. q \in Handler /\ Fits(q) /\ q.at = "upsert" /\ q.user \in Users /\ q.device \in Devices
  BY DEF IInv, SessionsTypeOK, HandlersFit, Fits, LoggingIn, LoginDevice, At
<1>2. StoreInv' /\ \A x \in Handler : Fits(x) => Fits(x)'
  BY <1>1, UpsertKeeps DEF LoginDevice
<1>3. PICK r \in {Free, [q EXCEPT !.at = "issue"]} : handler' = [handler EXCEPT ![h] = r]
  BY DEF LoginDevice, Go, Leave
<1>4. r.at \in {"idle", "issue"} /\ r.seen \subseteq q.seen
      /\ (r.at = "issue" => r.user = q.user)
  BY <1>1 DEF Handler, Free
<1>5. Fits(r)' /\ r.at \notin Locking
  BY <1>1, <1>4 DEF Fits, Presenting, Revoking, LoggingIn, Locking, Exists, LoginDevice
<1>6. \A k \in Handlers \ {h} : \A x : x = handler[k] => Fits(x)'
  BY <1>2 DEF IInv, SessionsTypeOK, HandlersFit
<1> QED
  BY <1>2, <1>3, <1>5, <1>6, OthersKeep DEF LoginDevice

LEMMA FreeFits == Fits(Free)' /\ Free.at \notin Locking
  BY DEF Fits, Free, Presenting, Revoking, LoggingIn, Locking

LEMMA InsertTokenKeeps ==
    ASSUME IInv, NEW h \in Handlers, NEW t \in Tokens, InsertToken(h, t)
    PROVE  (StoreInv /\ HandlersFit /\ LocksHold)'
<1> DEFINE q == handler[h]
<1>1. q \in Handler /\ Fits(q) /\ q.at = "insert" /\ q.user \in Users
  BY DEF IInv, SessionsTypeOK, HandlersFit, Fits, LoggingIn, InsertToken, At
<1>2. /\ ~Exists(t) /\ token[t].state = "none"
      /\ token'[t] = [state |-> "live", user |-> q.user, family |-> q.family,
                      device |-> q.device, origin |-> t]
      /\ \A x \in Tokens : x # t => token'[x] = token[x]
  BY DEF InsertToken, IInv, SessionsTypeOK, Exists
<1>3. \A x \in Tokens : Exists(x) => x # t /\ token[x].origin # t /\ token[x].origin \in Tokens
  BY <1>2 DEF IInv, StoreInv, TokensBelong
<1>4. TokensBelong'
  BY <1>1, <1>2, <1>3 DEF IInv, StoreInv, TokensBelong, Exists, InsertToken, Fits
<1>5. OneLiveToken'
  BY <1>2, <1>3 DEF IInv, StoreInv, OneLiveToken, Exists, Live
<1>6. RevokedWithDevice'
  BY <1>2 DEF IInv, StoreInv, RevokedWithDevice, Rotated, Exists, Live, InsertToken
<1>7. ASSUME NEW k \in Handlers \ {h}, NEW x, x = handler[k]
      PROVE  Fits(x)'
  <2>1. Fits(x) /\ x \in Handler
    BY <1>7 DEF IInv, SessionsTypeOK, HandlersFit
  <2>2. x.at \in Presenting => x.token \in Tokens /\ token'[x.token] = token[x.token]
    BY <1>3, <1>2, <2>1 DEF Fits
  <2>3. \A y \in Tokens : Rotated(y)' => Rotated(y) /\ token'[y] = token[y]
    BY <1>2 DEF Rotated, Exists
  <2>4. \A y \in x.seen : Exists(y)'
    BY <1>2, <2>1 DEF Fits, Exists, Handler
  <2> QED
    BY <2>1, <2>2, <2>3, <2>4
    DEF Fits, Presenting, Exists, Live, Active, Target, FamilyOf, InsertToken
<1>8. (HandlersFit /\ LocksHold)'
  BY <1>3, <1>2, <1>7, FreeFits, OthersKeep DEF InsertToken, Leave
<1> QED
  BY <1>4, <1>5, <1>6, <1>8 DEF StoreInv

LEMMA RotateKeeps ==
    ASSUME IInv, NEW h \in Handlers, NEW t \in Tokens, Rotate(h, t)
    PROVE  (StoreInv /\ HandlersFit /\ LocksHold)'
<1> DEFINE q == handler[h]
           old == token[q.token]
<1>1. q \in Handler /\ Fits(q) /\ q.at = "rotate"
  BY DEF IInv, SessionsTypeOK, HandlersFit, Rotate, At
<1>2. /\ q.token \in Tokens /\ Live(q.token) /\ old.user = q.user /\ Target(q)
      /\ old.device # NoDevice => Active(old.device)
  BY <1>1 DEF Fits, Presenting
<1>3. /\ ~Exists(t) /\ token[t].state = "none" /\ t # q.token
      /\ token'[t] = [state |-> "live", user |-> q.user, family |-> q.family,
                      device |-> q.device, origin |-> old.origin]
      /\ token'[q.token] = [old EXCEPT !.state = "revoked"]
      /\ \A x \in Tokens : x \notin {t, q.token} => token'[x] = token[x]
  BY <1>2 DEF Rotate, IInv, SessionsTypeOK, Exists, Live
<1>4. /\ old \in Row /\ token'[q.token].state = "revoked"
      /\ token'[q.token].user = old.user /\ token'[q.token].device = old.device
      /\ token'[q.token].origin = old.origin
  BY <1>2, <1>3 DEF Row, IInv, SessionsTypeOK
<1>5. q.device = NoDevice \/ q.device = old.device
  BY <1>2 DEF Target
<1>6. \A x \in Tokens : Exists(x) => x # t /\ token[x].origin # t /\ token[x].origin \in Tokens
  BY <1>3 DEF IInv, StoreInv, TokensBelong
<1>7. Exists(q.token)
  BY <1>2 DEF Live, Exists
<1>8. TokensBelong'
  <2> SUFFICES ASSUME NEW x \in Tokens
               PROVE  (/\ ~Exists(x) => token[x] = NoRow
                       /\ Exists(x) => /\ token[x].user \in Users
                                       /\ token[x].origin \in Tokens
                                       /\ Exists(token[x].origin)
                                       /\ token[x].device # NoDevice =>
                                            device[token[x].device].user = token[x].user)'
    BY DEF TokensBelong
  <2>1. \A y \in Tokens : Exists(y) => Exists(y)'
    BY <1>3, <1>4 DEF Exists
  <2>5. /\ old.user \in Users /\ old.origin \in Tokens /\ Exists(old.origin)
        /\ old.device # NoDevice => device[old.device].user = old.user
    BY <1>2, <1>7 DEF IInv, StoreInv, TokensBelong
  <2>6. token'[old.origin].state # "none" /\ device' = device
    BY <1>3, <1>4, <2>5 DEF Rotate, Exists
  <2>2. CASE x = t
    <3>1. /\ token'[x].state = "live" /\ token'[x].user = old.user
          /\ token'[x].origin = old.origin /\ token'[x].device = q.device
      BY <1>2, <1>3, <2>2
    <3> QED
      BY <1>5, <2>5, <2>6, <3>1 DEF Exists
  <2>3. CASE x = q.token
    <3>1. /\ token'[x].state = "revoked" /\ token'[x].user = old.user
          /\ token'[x].origin = old.origin /\ token'[x].device = old.device
      BY <1>4, <2>3
    <3> QED
      BY <2>5, <2>6, <3>1 DEF Exists
  <2>4. CASE x \notin {t, q.token}
    <3>1. token'[x] = token[x] /\ (Exists(x)' <=> Exists(x))
      BY <1>3, <2>4 DEF Exists
    <3>2. /\ ~Exists(x) => token[x] = NoRow
          /\ Exists(x) => /\ token[x].user \in Users
                          /\ token[x].origin \in Tokens /\ Exists(token[x].origin)
                          /\ token[x].device # NoDevice =>
                               device[token[x].device].user = token[x].user
      BY DEF IInv, StoreInv, TokensBelong
    <3> HIDE DEF old, q
    <3> QED
      BY <2>1, <2>6, <3>1, <3>2
  <2> QED
    BY <2>2, <2>3, <2>4
<1>9. OneLiveToken'
  <2>1. \A x \in Tokens : Live(x)' => x = t \/ (x # q.token /\ Live(x) /\ token'[x] = token[x])
    BY <1>3, <1>4 DEF Live
  <2>2. \A x \in Tokens : Live(x) /\ token[x].origin = old.origin => x = q.token
    BY <1>2 DEF IInv, StoreInv, OneLiveToken
  <2> QED
    BY <1>3, <2>1, <2>2 DEF IInv, StoreInv, OneLiveToken
<1>10. RevokedWithDevice'
  <2> SUFFICES ASSUME NEW x \in Tokens, Rotated(x)', token'[x].device # NoDevice,
                      device'[token'[x].device].revoked, Live(x)'
               PROVE  FALSE
    BY DEF RevokedWithDevice
  <2>1. device' = device
    BY DEF Rotate
  <2>2. CASE x = t
    BY <1>2, <1>3, <1>5, <2>1, <2>2 DEF Active
  <2>3. CASE x # t
    <3>1. x # q.token
      BY <1>4 DEF Live
    <3> QED
      BY <1>3, <2>1, <2>3, <3>1 DEF IInv, StoreInv, RevokedWithDevice, Rotated, Exists, Live
  <2> QED
    BY <2>2, <2>3
<1>11. ASSUME NEW k \in Handlers \ {h}, NEW x, x = handler[k]
       PROVE  Fits(x)'
  <2>1. Fits(x) /\ x \in Handler
    BY <1>11 DEF IInv, SessionsTypeOK, HandlersFit
  <2>2. Compatible(q, x) /\ Compatible(x, q)
    BY <1>11 DEF IInv, LocksHold
  <2>3. \A y \in Tokens : Exists(y) => Exists(y)' /\ token'[y].user = token[y].user
                                       /\ token'[y].device = token[y].device
    BY <1>3, <1>4 DEF Exists
  <2>4. x.at \in Presenting => x.token \in Tokens /\ Exists(x.token)
    BY <2>1 DEF Fits
  <2>5. x.at = "rotate" => Live(x.token)' /\ Target(x)'
    <3> SUFFICES ASSUME x.at = "rotate" PROVE Live(x.token)' /\ Target(x)'
      OBVIOUS
    <3>1. x.token # q.token /\ x.token # t
      BY <1>1, <1>2, <1>6, <2>1, <2>2, <2>4 DEF Compatible, Fits, Presenting
    <3>2. token'[x.token] = token[x.token]
      BY <1>3, <2>4, <3>1 DEF Presenting
    <3> QED
      BY <2>1, <3>2 DEF Fits, Live, Target, FamilyOf, Rotate
  <2>6. x.at = "commit" =>
          \A y \in Tokens : Rotated(y)' /\ token'[y].device = x.device => y \in x.seen
    <3> SUFFICES ASSUME x.at = "commit", NEW y \in Tokens, Rotated(y)',
                        token'[y].device = x.device
                 PROVE  y \in x.seen
      OBVIOUS
    <3>1. x.device \in Devices /\ x.device # NoDevice /\ x.device # old.device
      BY <1>1, <2>1, <2>2, SessionsAssumption DEF Fits, Revoking, Compatible
    <3>2. y # t
      BY <1>3, <1>5, <3>1
    <3>3. y # q.token
      BY <1>4, <3>1
    <3> QED
      BY <1>3, <2>1, <3>2, <3>3 DEF Fits, Rotated, Exists
  <2>7. \A y \in x.seen : Exists(y)'
    BY <2>1, <2>3 DEF Fits, Handler
  <2>8. x.at \in {"lock", "rotate"} /\ token'[x.token].device # NoDevice =>
          Active(token[x.token].device)'
    BY <2>1, <2>3, <2>4 DEF Fits, Presenting, Active, Rotate
  <2> QED
    BY <2>1, <2>3, <2>4, <2>5, <2>6, <2>7, <2>8 DEF Fits, Rotate
<1>12. \A x \in Tokens : Exists(x) => token'[x].device = token[x].device
  BY <1>3, <1>4 DEF Exists
<1>13. (HandlersFit /\ LocksHold)'
  BY <1>11, <1>12, FreeFits, OthersKeep DEF Rotate, Leave
<1> QED
  BY <1>8, <1>9, <1>10, <1>13 DEF StoreInv

\* Tokens that are only revoked, of which none is being rotated.
LEMMA RevocationKeepsOthers ==
    ASSUME IInv, NEW S \in SUBSET Tokens, \A t \in S : Exists(t) /\ ~TokenLocked(t),
           token' = RevokeTokens(S), NEW k \in Handlers, UNCHANGED current,
           \A e \in Devices : /\ device'[e].user = device[e].user
                              /\ device'[e].family = device[e].family,
           \A e \in Devices : Shared(e) => device'[e] = device[e]
    PROVE  \A x : x = handler[k] => Fits(x)'
<1> SUFFICES ASSUME NEW x, x = handler[k] PROVE Fits(x)'
  OBVIOUS
<1>1. Fits(x) /\ x \in Handler
  BY DEF IInv, SessionsTypeOK, HandlersFit
<1>2. \A t \in Tokens : /\ token[t] \in Row
                        /\ t \notin S => token'[t] = token[t]
                        /\ token'[t].state = "none" <=> token[t].state = "none"
                        /\ token'[t].user = token[t].user
                        /\ token'[t].device = token[t].device
                        /\ token'[t].origin = token[t].origin
  BY DEF RevokeTokens, Exists, IInv, SessionsTypeOK, Row
<1>3. x.at \in Presenting => x.token \in Tokens
  BY <1>1 DEF Fits
<1>4. x.at \in {"lock", "rotate"} /\ token[x.token].device # NoDevice =>
        /\ token[x.token].device \in Devices
        /\ device'[token[x.token].device] = device[token[x.token].device]
  <2> SUFFICES ASSUME x.at \in {"lock", "rotate"}, token[x.token].device # NoDevice
               PROVE  /\ token[x.token].device \in Devices
                      /\ device'[token[x.token].device] = device[token[x.token].device]
    OBVIOUS
  <2>1. token[x.token].device \in Devices
    <3>1. x.token \in Tokens /\ token[x.token] \in Row
      BY <1>2, <1>3 DEF Presenting
    <3> QED
      BY <3>1 DEF Row, Device
  <2>2. Shared(token[x.token].device)
    BY DEF Shared
  <2> QED
    BY <2>1, <2>2
<1>5. x.at = "rotate" => Live(x.token)' /\ Target(x)'
  <2> SUFFICES ASSUME x.at = "rotate" PROVE Live(x.token)' /\ Target(x)'
    OBVIOUS
  <2>1. x.token \notin S
    BY DEF TokenLocked, At
  <2>2. x.token \in Tokens /\ token'[x.token] = token[x.token]
    BY <1>2, <1>3, <2>1 DEF Presenting
  <2> QED
    BY <1>1, <1>4, <2>2 DEF Fits, Live, Target, FamilyOf
<1>6. x.at = "insert" /\ x.device # NoDevice => device'[x.device].user = x.user
  BY <1>1 DEF Fits, Handler, Device
<1>7. \A y \in x.seen : Exists(y)'
  BY <1>1, <1>2 DEF Fits, Handler, Exists
<1>8. x.at = "commit" =>
        \A t \in Tokens : Rotated(t)' /\ token'[t].device = x.device => t \in x.seen
  BY <1>1, <1>2 DEF Fits, Rotated, Exists
<1>9. x.at \in {"lock", "rotate"} /\ token'[x.token].device # NoDevice =>
        Active(token[x.token].device)'
  BY <1>1, <1>2, <1>3, <1>4 DEF Fits, Active, Presenting
<1>10. x.at \in Presenting => Exists(x.token)' /\ token'[x.token].user = x.user
  BY <1>1, <1>2 DEF Fits, Exists
<1> QED
  BY <1>1, <1>3, <1>5, <1>6, <1>7, <1>8, <1>9, <1>10 DEF Fits

LEMMA CommitRevocationKeeps ==
    ASSUME IInv, NEW h \in Handlers, CommitRevocation(h)
    PROVE  (StoreInv /\ HandlersFit /\ LocksHold)'
<1> DEFINE q == handler[h]
<1>1. /\ q \in Handler /\ Fits(q) /\ q.at = "commit" /\ q.seen \in SUBSET Tokens
      /\ q.device \in Devices
  BY DEF IInv, SessionsTypeOK, HandlersFit, CommitRevocation, At, Handler, Fits, Revoking
<1>2. \A t \in q.seen : Exists(t) /\ ~TokenLocked(t)
  BY <1>1 DEF Fits, CommitRevocation
<1>3. /\ device'[q.device].revoked = TRUE
      /\ \A e \in Devices : /\ device'[e].user = device[e].user
                            /\ device'[e].family = device[e].family
                            /\ e # q.device => device'[e] = device[e]
  BY <1>1 DEF CommitRevocation, IInv, SessionsTypeOK, Registration
<1>4. ~Shared(q.device)
  <2>1. \A k \in Handlers \ {h} : Compatible(handler[k], q)
    BY DEF IInv, LocksHold
  <2> QED
    BY <1>1, <2>1 DEF Shared, Compatible
<1>5. /\ token' = RevokeTokens(q.seen)
      /\ \A t \in Tokens : /\ t \notin q.seen => token'[t] = token[t]
                           /\ t \in q.seen => token'[t].state = "revoked"
                           /\ token'[t].state = "none" <=> token[t].state = "none"
                           /\ token'[t].user = token[t].user
                           /\ token'[t].device = token[t].device
                           /\ token'[t].origin = token[t].origin
  BY <1>2 DEF CommitRevocation, RevokeTokens, Exists, IInv, SessionsTypeOK, Row
<1>6. \A t \in Tokens : token[t].device \in Devices \cup {NoDevice}
  BY DEF IInv, SessionsTypeOK, Row, Device
<1>7. TokensBelong'
  <2>1. \A t \in q.seen : token[t].state # "none"
    BY <1>2 DEF Exists
  <2> QED
    BY <1>3, <1>5, <1>6, <2>1 DEF IInv, StoreInv, TokensBelong, Exists
<1>8. OneLiveToken'
  <2>1. \A t \in Tokens : token'[t].state = "live" => token[t].state = "live"
    BY <1>5
  <2> QED
    BY <1>5, <2>1 DEF IInv, StoreInv, OneLiveToken, Live
<1>9. RevokedWithDevice'
  <2> SUFFICES ASSUME NEW t \in Tokens, Rotated(t)', token'[t].device # NoDevice,
                      device'[token'[t].device].revoked, Live(t)'
               PROVE  FALSE
    BY DEF RevokedWithDevice
  <2>1. t \notin q.seen /\ Rotated(t) /\ Live(t)
    BY <1>5 DEF Live, Rotated, Exists
  <2>2. token[t].device # q.device
    BY <1>1, <2>1 DEF Fits
  <2> QED
    BY <1>3, <1>5, <1>6, <2>1, <2>2 DEF IInv, StoreInv, RevokedWithDevice
<1>10. \A k \in Handlers \ {h} : \A x : x = handler[k] => Fits(x)'
  BY <1>1, <1>2, <1>3, <1>4, <1>5, RevocationKeepsOthers DEF CommitRevocation
<1>11. (HandlersFit /\ LocksHold)'
  BY <1>5, <1>10, FreeFits, OthersKeep DEF CommitRevocation, Leave
<1> QED
  BY <1>7, <1>8, <1>9, <1>11 DEF StoreInv

LEMMA RevokeTokenKeeps ==
    ASSUME IInv, NEW h \in Handlers, RevokeToken(h)
    PROVE  (StoreInv /\ HandlersFit /\ LocksHold)'
<1> DEFINE q == handler[h]
<1>1. Fits(q) /\ q.token \in Tokens /\ Exists(q.token) /\ ~TokenLocked(q.token)
  BY DEF IInv, HandlersFit, RevokeToken, At, Fits, Presenting
<1>2. /\ token' = RevokeTokens({q.token})
      /\ \A t \in Tokens : /\ t # q.token => token'[t] = token[t]
                           /\ token'[t].state = "live" => token[t].state = "live"
                           /\ token'[t].state = "none" <=> token[t].state = "none"
                           /\ token'[t].user = token[t].user
                           /\ token'[t].device = token[t].device
                           /\ token'[t].origin = token[t].origin
  BY <1>1 DEF RevokeToken, RevokeTokens, Exists, Live, IInv, SessionsTypeOK, Row
<1>3. TokensBelong'
  <2>1. token[q.token].state # "none" /\ device' = device
    BY <1>1 DEF Exists, RevokeToken
  <2>2. \A t \in Tokens : token'[t].state = "none" => token'[t] = token[t]
    BY <1>2, <2>1
  <2>3. \A t \in Tokens : token[t].state # "none" =>
          /\ token[t].user \in Users
          /\ token[t].origin \in Tokens /\ token[token[t].origin].state # "none"
          /\ token[t].device # NoDevice => device[token[t].device].user = token[t].user
    BY DEF IInv, StoreInv, TokensBelong, Exists
  <2>4. \A t \in Tokens : token[t].state = "none" => token[t] = NoRow
    BY DEF IInv, StoreInv, TokensBelong, Exists
  <2> QED
    BY <1>2, <2>1, <2>2, <2>3, <2>4 DEF TokensBelong, Exists
<1>4. OneLiveToken' /\ RevokedWithDevice'
  <2>1. device' = device
    BY DEF RevokeToken
  <2>2. OneLiveToken'
    BY <1>2 DEF IInv, StoreInv, OneLiveToken, Live
  <2>3. RevokedWithDevice'
    BY <1>2, <2>1 DEF IInv, StoreInv, RevokedWithDevice, Rotated, Exists, Live
  <2> QED
    BY <2>2, <2>3
<1>5. \A k \in Handlers \ {h} : \A x : x = handler[k] => Fits(x)'
  <2>1. {q.token} \in SUBSET Tokens /\ \A t \in {q.token} : Exists(t) /\ ~TokenLocked(t)
    BY <1>1
  <2>2. device' = device /\ current' = current
    BY DEF RevokeToken
  <2> QED
    BY <1>2, <2>1, <2>2, RevocationKeepsOthers
<1>6. (HandlersFit /\ LocksHold)'
  BY <1>2, <1>5, FreeFits, OthersKeep DEF RevokeToken, Leave
<1> QED
  BY <1>3, <1>4, <1>6 DEF StoreInv

-----------------------------------------------------------------------------
(* The theorems *)

LEMMA InitInv == SessionsInit => IInv
<1> SUFFICES ASSUME SessionsInit PROVE IInv
  OBVIOUS
<1>1. SessionsTypeOK
  BY DEF SessionsInit, SessionsTypeOK, Unregistered, Registration, NoRow, Row, Free, Handler,
         Steps, Family, Device, Token
<1>2. StoreInv
  BY DEF SessionsInit, StoreInv, TokensBelong, OneLiveToken, RevokedWithDevice, Exists, Live,
         Rotated, NoRow
<1>3. HandlersFit /\ LocksHold
  BY DEF SessionsInit, HandlersFit, LocksHold, Fits, Compatible, Free, Presenting, Revoking,
         LoggingIn
<1> QED
  BY <1>1, <1>2, <1>3 DEF IInv

LEMMA StepInv == IInv /\ [SessionsNext]_vars => IInv'
<1> SUFFICES ASSUME IInv, [SessionsNext]_vars PROVE (StoreInv /\ HandlersFit /\ LocksHold)'
  BY StepTypes DEF IInv
<1>1. CASE UNCHANGED vars
  <2>1. StoreInv'
    <3>1. TokensBelong'
      BY <1>1 DEF vars, IInv, StoreInv, TokensBelong, Exists
    <3>2. OneLiveToken'
      BY <1>1 DEF vars, IInv, StoreInv, OneLiveToken, Live
    <3>3. RevokedWithDevice'
      BY <1>1 DEF vars, IInv, StoreInv, RevokedWithDevice, Rotated, Exists, Live
    <3> QED
      BY <3>1, <3>2, <3>3 DEF StoreInv
  <2>2. ASSUME NEW h \in Handlers
        PROVE  Fits(handler[h])'
    <3>1. Fits(handler[h])
      BY DEF IInv, HandlersFit
    <3>2. Target(handler[h])' <=> Target(handler[h])
      BY <1>1 DEF vars, Target, FamilyOf
    <3>3. \A t : /\ Exists(t)' <=> Exists(t)
                 /\ Live(t)' <=> Live(t)
                 /\ Rotated(t)' <=> Rotated(t)
      BY <1>1 DEF vars, Exists, Live, Rotated
    <3>4. \A d : Active(d)' <=> Active(d)
      BY <1>1 DEF vars, Active
    <3> QED
      BY <1>1, <3>1, <3>2, <3>3, <3>4 DEF vars, Fits
  <2>3. LocksHold'
    BY <1>1 DEF vars, IInv, LocksHold, Compatible
  <2> QED
    BY <2>1, <2>2, <2>3 DEF HandlersFit
<1>2. ASSUME NEW u \in Users, NEW f \in Families,
             \/ SetCurrentForUser(u, f)
             \/ \E d \in Devices : \/ RegisterDevice(u, f, d)
                                   \/ \E h \in Handlers : RevokeDevice(h, u, f, d)
      PROVE  (StoreInv /\ HandlersFit /\ LocksHold)'
  BY <1>2, SetCurrentKeeps, RegisterDeviceKeeps, RevokeDeviceKeeps
<1>3. ASSUME NEW h \in Handlers,
             \/ \E u \in Users, d \in Device : Login(h, u, d)
             \/ \E t \in Tokens : Refresh(h, t) \/ Logout(h, t) \/ InsertToken(h, t) \/ Rotate(h, t)
      PROVE  (StoreInv /\ HandlersFit /\ LocksHold)'
  BY <1>3, LoginKeeps, PresentKeeps, InsertTokenKeeps, RotateKeeps
<1>4. ASSUME NEW h \in Handlers,
             \/ MarkDevice(h) \/ SeeTokens(h) \/ CommitRevocation(h)
             \/ LoginDevice(h) \/ Issue(h) \/ Create(h)
             \/ ReadScope(h) \/ ShareDevice(h) \/ LockToken(h) \/ RevokeToken(h) \/ Lose(h)
      PROVE  (StoreInv /\ HandlersFit /\ LocksHold)'
  BY <1>4, MarkDeviceKeeps, SeeTokensKeeps, CommitRevocationKeeps, LoginDeviceKeeps, IssueKeeps,
     CreateKeeps, ReadScopeKeeps, ShareDeviceKeeps, LockTokenKeeps, RevokeTokenKeeps, LeaveKeeps
  DEF Lose
<1> QED
  BY <1>1, <1>2, <1>3, <1>4 DEF SessionsNext

\* However many requests present a refresh token, a login has one token at a time that
\* can be used.
THEOREM TokensDoNotMultiply == SessionsSpec => []SessionsInv
<1>1. IInv => SessionsInv
  BY DEF IInv, StoreInv, SessionsInv
<1> QED
  BY <1>1, InitInv, StepInv, PTL DEF SessionsSpec

\* No token a rotation made survives the revocation of its device.
THEOREM RevocationReachesRotations == SessionsSpec => []RevokedWithDevice
<1>1. IInv => RevokedWithDevice
  BY DEF IInv, StoreInv
<1> QED
  BY <1>1, InitInv, StepInv, PTL DEF SessionsSpec

InScopeOf(t) ==
    LET r == token'[t] IN
    /\ r.family = current'[r.user]
    /\ r.device # NoDevice =>
         /\ device'[r.device].user = r.user /\ device'[r.device].family = r.family
         /\ ~device'[r.device].revoked

\* Of all steps only a rotation makes a token that is not a login of its own.
LEMMA OnlyRotateRotates ==
    ASSUME IInv, [SessionsNext]_vars, NEW t \in Tokens, ~Exists(t), Rotated(t)'
    PROVE  \E h \in Handlers, x \in Tokens : Rotate(h, x)
<1>1. CASE token' = token
  BY <1>1 DEF Rotated, Exists
<1>2. ASSUME NEW h \in Handlers, NEW x \in Tokens, InsertToken(h, x)
      PROVE  FALSE
  BY <1>2 DEF InsertToken, IInv, SessionsTypeOK, Rotated, Exists
<1>3. ASSUME NEW h \in Handlers, CommitRevocation(h)
      PROVE  FALSE
  <2>1. t \notin handler[h].seen
    BY DEF IInv, HandlersFit, Fits
  <2> QED
    BY <1>3, <2>1 DEF CommitRevocation, RevokeTokens, Rotated, Exists
<1>4. ASSUME NEW h \in Handlers, RevokeToken(h)
      PROVE  FALSE
  <2>1. handler[h].token # t
    BY <1>4 DEF IInv, HandlersFit, Fits, Presenting, RevokeToken, At
  <2> QED
    BY <1>4, <2>1 DEF RevokeToken, IInv, SessionsTypeOK, Rotated, Exists
<1>5. CASE UNCHANGED vars
  BY <1>1, <1>5 DEF vars
<1>6. CASE SessionsNext
  BY <1>1, <1>2, <1>3, <1>4, <1>6
  DEF SessionsNext, SetCurrentForUser, RegisterDevice, RevokeDevice, Login, Refresh, Logout,
      MarkDevice, SeeTokens, LoginDevice, Issue, Create, ReadScope, ShareDevice, LockToken, Lose
<1> QED
  BY <1>5, <1>6

\* Whatever a rotation read before, it answers for the family and the device that are
\* right when it commits.
THEOREM RotationsAreInScope == SessionsSpec => RotatesInScope
<1>1. ASSUME IInv, [SessionsNext]_vars, NEW t \in Tokens, ~Exists(t), Rotated(t)'
      PROVE  InScopeOf(t)
  <2>1. PICK h \in Handlers, x \in Tokens : Rotate(h, x)
    BY <1>1, OnlyRotateRotates
  <2> DEFINE q == handler[h]
  <2>2. Fits(q) /\ q.at = "rotate" /\ q \in Handler
    BY <1>1, <2>1 DEF IInv, SessionsTypeOK, HandlersFit, Rotate, At
  <2>3. /\ q.token \in Tokens /\ Live(q.token) /\ token[q.token].user = q.user
        /\ token[q.token].device # NoDevice => Active(token[q.token].device)
        /\ Target(q)
    BY <2>2 DEF Fits, Presenting
  <2>4. x = t /\ x # q.token
    BY <1>1, <2>1, <2>3 DEF Rotate, IInv, SessionsTypeOK, Rotated, Exists, Live
  <2>5. /\ token'[t] = [state |-> "live", user |-> q.user, family |-> q.family,
                        device |-> q.device, origin |-> token[q.token].origin]
        /\ current' = current /\ device' = device
    BY <1>1, <2>1, <2>4 DEF Rotate, IInv, SessionsTypeOK
  <2>6. token[q.token].device # NoDevice =>
          device[token[q.token].device].user = token[q.token].user
    BY <1>1, <2>3 DEF IInv, StoreInv, TokensBelong, Exists, Live
  <2> QED
    BY <2>3, <2>5, <2>6 DEF InScopeOf, Target, Active, FamilyOf
<1>2. IInv /\ [SessionsNext]_vars =>
        [\A t \in Tokens : ~Exists(t) /\ Rotated(t)' => InScopeOf(t)]_vars
  BY <1>1
<1> QED
  BY <1>2, InitInv, StepInv, PTL DEF SessionsSpec, RotatesInScope, InScopeOf
=============================================================================
