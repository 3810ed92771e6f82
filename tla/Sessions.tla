------------------------------- MODULE Sessions -------------------------------
(***************************************************************************)
(* Refresh tokens and sync devices: login, rotation, logout, registration  *)
(* and revocation of a device.                                             *)
(*                                                                         *)
(* Every statement sees what is committed when it begins.  A rotation      *)
(* holds a share lock on its device and then locks the token and the user; *)
(* a revocation holds the device exclusively until it commits.  A new      *)
(* login locks nothing.                                                    *)
(***************************************************************************)
EXTENDS Naturals, FiniteSets

CONSTANTS
    Users, Families, Devices, Tokens,
    MemberOf,     \* MemberOf[u]: the families u is a member of
    Managers,     \* <<u, f>>: u is owner or admin of f
    NoUser, NoFamily, NoDevice, NoToken,
    Handlers      \* connections

ASSUME SessionsAssumption ==
    /\ MemberOf \in [Users -> SUBSET Families]
    /\ Managers \subseteq Users \X Families
    /\ NoUser \notin Users /\ NoFamily \notin Families
    /\ NoDevice \notin Devices /\ NoToken \notin Tokens

VARIABLES
    current,      \* users.current_family_id
    device,       \* sync_devices
    token,        \* refresh_tokens
    handler       \* handler[h]: the request a connection serves

vars == <<current, device, token, handler>>

Family == Families \cup {NoFamily}
Device == Devices \cup {NoDevice}
Token == Tokens \cup {NoToken}

Registration == [user : Users \cup {NoUser}, family : Family, revoked : BOOLEAN]

Unregistered == [user |-> NoUser, family |-> NoFamily, revoked |-> FALSE]

\* family: of the access token issued with it.  The family_id of the row is the one
\* of its device: both are NULL, or neither.  origin: the login it descends from.
Row == [state : {"none", "live", "revoked"}, user : Users \cup {NoUser},
        family : Family, device : Device, origin : Token]

NoRow == [state |-> "none", user |-> NoUser, family |-> NoFamily,
          device |-> NoDevice, origin |-> NoToken]

Steps == {"idle", "upsert", "issue", "create", "insert",
          "scope", "share", "lock", "rotate", "logout", "revoke", "mark", "commit"}

Handler == [at : Steps, user : Users \cup {NoUser}, family : Family,
            device : Device, token : Token, seen : SUBSET Tokens]

Free == [at |-> "idle", user |-> NoUser, family |-> NoFamily, device |-> NoDevice,
         token |-> NoToken, seen |-> {}]

SessionsTypeOK ==
    /\ current \in [Users -> Family]
    /\ device \in [Devices -> Registration]
    /\ token \in [Tokens -> Row]
    /\ handler \in [Handlers -> Handler]

SessionsInit ==
    /\ current = [u \in Users |-> NoFamily]
    /\ device = [d \in Devices |-> Unregistered]
    /\ token = [t \in Tokens |-> NoRow]
    /\ handler = [h \in Handlers |-> Free]

-----------------------------------------------------------------------------

At(h, step) == handler[h].at = step
Go(h, step) == handler' = [handler EXCEPT ![h].at = step]
Leave(h) == handler' = [handler EXCEPT ![h] = Free]
Serve(h, step, u, f, d, t) ==
    handler' = [handler EXCEPT ![h] = [at |-> step, user |-> u, family |-> f,
                                       device |-> d, token |-> t, seen |-> {}]]

Exists(t) == token[t].state # "none"
Live(t) == token[t].state = "live"
Active(d) == device[d].user # NoUser /\ ~device[d].revoked

FamilyOf(d) == IF d = NoDevice THEN NoFamily ELSE device[d].family

\* Between the first statement of a revocation and its commit.
Exclusive(d) == \E k \in Handlers : handler[k].at \in {"mark", "commit"} /\ handler[k].device = d

\* Mutant: the device is read without FOR SHARE.
NeverShared(d) == FALSE

Shared(d) == \E k \in Handlers :
    handler[k].at \in {"lock", "rotate"} /\ token[handler[k].token].device = d

TokenLocked(t) == \E k \in Handlers : At(k, "rotate") /\ handler[k].token = t

\* Mutant: FOR UPDATE OF rt.
UserNeverLocked(u) == FALSE

UserLocked(u) == \E k \in Handlers : At(k, "rotate") /\ handler[k].user = u

-----------------------------------------------------------------------------
(* Devices *)

\* AuthorizeClaims: an access token of a family serves as long as its user is a
\* member, whichever family is current; some token the user has names no device.
Authorized(u, f) == f \in MemberOf[u]

\* A device id stays with the user and the family it was first registered for.
Registrable(d, u, f) ==
    \/ device[d].user = NoUser
    \/ device[d].user = u /\ device[d].family = f /\ Active(d)

\* INSERT ... ON CONFLICT DO UPDATE, which waits for whoever has locked the row.
Upsert(d, u, f) ==
    /\ ~Exclusive(d) /\ ~Shared(d)
    /\ device' = IF Registrable(d, u, f)
                 THEN [device EXCEPT ![d] = [user |-> u, family |-> f, revoked |-> FALSE]]
                 ELSE device

RegisterDevice(u, f, d) ==
    /\ Authorized(u, f)
    /\ Upsert(d, u, f)
    /\ UNCHANGED <<current, token, handler>>

MayRevoke(u, f, d) == <<u, f>> \in Managers \/ device[d].user = u

RevokeDevice(h, u, f, d) ==
    /\ Authorized(u, f)
    /\ device[d].family = f /\ MayRevoke(u, f, d) /\ ~device[d].revoked
    /\ At(h, "idle") /\ Serve(h, "revoke", u, f, d, NoToken)
    /\ UNCHANGED <<current, device, token>>

MarkDevice(h) ==
    /\ At(h, "revoke") /\ ~Exclusive(handler[h].device) /\ ~Shared(handler[h].device)
    /\ Go(h, "mark")
    /\ UNCHANGED <<current, device, token>>

\* Which tokens the second statement updates is settled when it begins.
SeeTokens(h) ==
    /\ At(h, "mark")
    /\ handler' = [handler EXCEPT ![h].at = "commit",
           ![h].seen = {t \in Tokens : Exists(t) /\ token[t].device = handler[h].device}]
    /\ UNCHANGED <<current, device, token>>

RevokeTokens(seen) == [t \in Tokens |->
    IF t \in seen THEN [token[t] EXCEPT !.state = "revoked"] ELSE token[t]]

CommitRevocation(h) ==
    /\ At(h, "commit") /\ \A t \in handler[h].seen : ~TokenLocked(t)
    /\ device' = [device EXCEPT ![handler[h].device].revoked = TRUE]
    /\ token' = RevokeTokens(handler[h].seen)
    /\ Leave(h)
    /\ UNCHANGED current

-----------------------------------------------------------------------------
(* Login *)

\* A device needs a family to be selected.
Login(h, u, d) ==
    /\ d # NoDevice => current[u] # NoFamily
    /\ At(h, "idle")
    /\ Serve(h, IF d = NoDevice THEN "issue" ELSE "upsert", u, current[u], d, NoToken)
    /\ UNCHANGED <<current, device, token>>

LoginDevice(h) ==
    LET r == handler[h] IN
    /\ At(h, "upsert") /\ Upsert(r.device, r.user, r.family)
    /\ IF Registrable(r.device, r.user, r.family) THEN Go(h, "issue") ELSE Leave(h)
    /\ UNCHANGED <<current, token>>

\* issueAuth: the family is read again.
Issue(h) ==
    LET r == handler[h] IN
    /\ At(h, "issue")
    /\ IF r.family # NoFamily /\ current[r.user] # r.family THEN Leave(h)
       ELSE handler' = [handler EXCEPT ![h].at = "create", ![h].family = current[r.user]]
    /\ UNCHANGED <<current, device, token>>

\* device_scope, as it was when the statement began.
InScope(d, u) == d # NoDevice =>
    device[d].user = u /\ device[d].family = current[u] /\ Active(d)

Create(h) ==
    /\ At(h, "create")
    /\ IF InScope(handler[h].device, handler[h].user) THEN Go(h, "insert") ELSE Leave(h)
    /\ UNCHANGED <<current, device, token>>

InsertToken(h, t) ==
    LET r == handler[h] IN
    /\ At(h, "insert") /\ ~Exists(t) /\ ~UserLocked(r.user)
    /\ token' = [token EXCEPT ![t] = [state |-> "live", user |-> r.user,
                     family |-> r.family, device |-> r.device, origin |-> t]]
    /\ Leave(h)
    /\ UNCHANGED <<current, device>>

-----------------------------------------------------------------------------
(* Rotation and logout *)

\* FindByHash, and that the token is neither revoked nor expired; a request that
\* comes too late is one that is lost.
Usable(t) == Live(t) /\ (token[t].device # NoDevice => Active(token[t].device))

Refresh(h, t) ==
    LET r == token[t] IN
    /\ Usable(t)
    /\ At(h, "idle")
    /\ Serve(h, "scope", r.user, FamilyOf(r.device),
             IF FamilyOf(r.device) = current[r.user] THEN r.device ELSE NoDevice, t)
    /\ UNCHANGED <<current, device, token>>

\* The device is not carried into another family.
ReadScope(h) ==
    LET r == handler[h] IN
    /\ At(h, "scope")
    /\ handler' = [handler EXCEPT ![h] = [r EXCEPT !.at = "share",
           !.family = current[r.user],
           !.device = IF r.family # NoFamily /\ r.family = current[r.user]
                      THEN r.device ELSE NoDevice]]
    /\ UNCHANGED <<current, device, token>>

\* Rotate: the device before the token, as in a revocation.
ShareDevice(h) ==
    LET d == token[handler[h].token].device IN
    /\ At(h, "share") /\ ~Exclusive(d)
    /\ IF d # NoDevice /\ ~Active(d) THEN Leave(h) ELSE Go(h, "lock")
    /\ UNCHANGED <<current, device, token>>

\* Mutant: what was read before the lock is believed.
StillBelieved(t) == TRUE

StillLive(t) == Live(t)

\* The replacement is for the current family, and keeps the device unless the
\* family has changed.
InTarget(h) ==
    LET r == handler[h] d == token[r.token].device IN
    /\ r.family = current[r.user]
    /\ IF r.device # NoDevice
       THEN r.device = d /\ FamilyOf(d) = r.family
       ELSE d # NoDevice => FamilyOf(d) # current[r.user]

LockToken(h) ==
    /\ At(h, "lock") /\ ~TokenLocked(handler[h].token) /\ ~UserLocked(handler[h].user)
    /\ IF StillLive(handler[h].token) /\ InTarget(h) THEN Go(h, "rotate") ELSE Leave(h)
    /\ UNCHANGED <<current, device, token>>

Rotate(h, t) ==
    LET r == handler[h] IN
    /\ At(h, "rotate") /\ ~Exists(t)
    /\ token' = [token EXCEPT
           ![r.token].state = "revoked",
           ![t] = [state |-> "live", user |-> r.user, family |-> r.family,
                   device |-> r.device, origin |-> token[r.token].origin]]
    /\ Leave(h)
    /\ UNCHANGED <<current, device>>

Logout(h, t) ==
    /\ Usable(t)
    /\ At(h, "idle") /\ Serve(h, "logout", token[t].user, NoFamily, NoDevice, t)
    /\ UNCHANGED <<current, device, token>>

RevokeToken(h) ==
    /\ At(h, "logout") /\ ~TokenLocked(handler[h].token)
    /\ token' = [token EXCEPT ![handler[h].token].state = "revoked"]
    /\ Leave(h)
    /\ UNCHANGED <<current, device>>

-----------------------------------------------------------------------------

\* A family is selected when it is created or joined; here, at any time.
SetCurrentForUser(u, f) ==
    /\ f \in MemberOf[u] /\ ~UserLocked(u)
    /\ current' = [current EXCEPT ![u] = f]
    /\ UNCHANGED <<device, token, handler>>

\* The process stops or the connection breaks: what is open rolls back.
Lose(h) ==
    /\ ~At(h, "idle")
    /\ Leave(h)
    /\ UNCHANGED <<current, device, token>>

SessionsNext ==
    \/ \E u \in Users, f \in Families :
         \/ SetCurrentForUser(u, f)
         \/ \E d \in Devices :
              \/ RegisterDevice(u, f, d)
              \/ \E h \in Handlers : RevokeDevice(h, u, f, d)
    \/ \E h \in Handlers :
         \/ \E u \in Users, d \in Device : Login(h, u, d)
         \/ \E t \in Tokens : \/ Refresh(h, t) \/ Logout(h, t)
                              \/ InsertToken(h, t) \/ Rotate(h, t)
         \/ MarkDevice(h) \/ SeeTokens(h) \/ CommitRevocation(h)
         \/ LoginDevice(h) \/ Issue(h) \/ Create(h)
         \/ ReadScope(h) \/ ShareDevice(h) \/ LockToken(h) \/ RevokeToken(h)
         \/ Lose(h)

SessionsSpec == SessionsInit /\ [][SessionsNext]_vars

-----------------------------------------------------------------------------
(* Properties *)

\* However many requests present one refresh token at once, a login has one token at
\* a time that can be used: rotations of one token do not multiply it.
OneLiveToken ==
    \A s, t \in Tokens : Live(s) /\ Live(t) /\ token[s].origin = token[t].origin => s = t

SessionsInv == SessionsTypeOK /\ OneLiveToken

Rotated(t) == Exists(t) /\ token[t].origin # t

\* The revocation of a device revokes every token a rotation has made for it, also
\* the one of a rotation under way when the revocation began.
RevokedWithDevice ==
    \A t \in Tokens : Rotated(t) /\ token[t].device # NoDevice =>
        (device[token[t].device].revoked => ~Live(t))

\* Whatever a rotation read before, its answer is for the family that is current when
\* it commits, and names a device only if that is one of the user in this family
\* which is not revoked by then.
RotatesInScope ==
    [][\A t \in Tokens : ~Exists(t) /\ Rotated(t)' =>
         LET r == token'[t] IN
         /\ r.family = current'[r.user]
         /\ r.device # NoDevice =>
              /\ device'[r.device].user = r.user /\ device'[r.device].family = r.family
              /\ ~device'[r.device].revoked]_vars
=============================================================================
