------------------------------- MODULE Families -------------------------------
(***************************************************************************)
(* Accounts, families and invitations.                                     *)
(*                                                                         *)
(* A request is served in steps: each read, each transaction and each      *)
(* statement that commits by itself is one.  Joining a family locks the    *)
(* invitation, and its insert and the count of the use commit together;    *)
(* that the family then becomes the user's current one is a statement of   *)
(* its own, and the process may stop before it.                            *)
(***************************************************************************)
EXTENDS Naturals, FiniteSets

CONSTANTS
    Users,        \* people, by their email
    Families, Invites,
    NoFamily, NoInvite,
    Uses,         \* how many uses an invitation may be made for
    Modes,        \* registration modes
    Before,       \* who had an account when the server started
    Handlers      \* connections

ASSUME FamiliesAssumption ==
    /\ IsFiniteSet(Users) /\ Before \subseteq Users
    /\ NoFamily \notin Families /\ NoInvite \notin Invites
    /\ Uses \subseteq Nat \ {0} /\ Modes \subseteq {"first_setup", "invite_only", "open"}

VARIABLES
    mode,
    accounts,     \* users
    member,       \* member[f][u]: the role of u in f
    current,      \* users.current_family_id
    tokens,       \* tokens[u]: the families u may hold an access token for
    invite,       \* family_invites
    expired,      \* invitations past expires_at
    handler,      \* handler[h]: the request a connection serves
    told,         \* the family a user was last told to be in
    via           \* via[f][u]: the invitation u joined f with

vars == <<mode, accounts, member, current, tokens, invite, expired, handler, told, via>>
familyVars == <<member, invite, via>>
selection == <<current, tokens>>

Role == {"none", "owner", "member"}

Invite == [family : Families \cup {NoFamily}, max : Nat, used : Nat]

NotMade == [family |-> NoFamily, max |-> 0, used |-> 0]

Free == [at |-> "idle"]

\* late: whether the invitation was past expiry when the request began.
Handler == [at : {"register", "invite", "member", "redeem", "insert", "select"},
            user : Users, family : Families \cup {NoFamily},
            invite : Invites \cup {NoInvite}, late : SUBSET Invites]

FamiliesTypeOK ==
    /\ mode \in Modes /\ accounts \in SUBSET Users
    /\ member \in [Families -> [Users -> Role]]
    /\ current \in [Users -> Families \cup {NoFamily}]
    /\ tokens \in [Users -> SUBSET (Families \cup {NoFamily})]
    /\ invite \in [Invites -> Invite] /\ expired \in SUBSET Invites
    /\ handler \in [Handlers -> {Free} \cup Handler]
    /\ told \in [Users -> Families \cup {NoFamily}]
    /\ via \in [Families -> [Users -> Invites \cup {NoInvite}]]

FamiliesInit ==
    /\ mode \in Modes /\ accounts = Before
    /\ member = [f \in Families |-> [u \in Users |-> "none"]]
    /\ current = [u \in Users |-> NoFamily] /\ tokens = [u \in Users |-> {}]
    /\ invite = [i \in Invites |-> NotMade] /\ expired = {}
    /\ handler = [h \in Handlers |-> Free]
    /\ told = [u \in Users |-> NoFamily]
    /\ via = [f \in Families |-> [u \in Users |-> NoInvite]]

-----------------------------------------------------------------------------

At(h, step) == handler[h].at = step
Go(h, step) == handler' = [handler EXCEPT ![h].at = step]
Leave(h) == handler' = [handler EXCEPT ![h] = Free]
Serve(h, step, u, f, i, late) ==
    handler' = [handler EXCEPT ![h] =
         [at |-> step, user |-> u, family |-> f, invite |-> i, late |-> late]]

\* The family is known; only its selection is left.
GoSelect(h, u, f) == Serve(h, "select", u, f, NoInvite, {})

IsMember(f, u) == member[f][u] # "none"

ListMembers(f) == {u \in Users : IsMember(f, u)}

\* The membership a token is issued for.
CurrentFamily(u) ==
    IF current[u] # NoFamily /\ IsMember(current[u], u) THEN current[u] ELSE NoFamily

\* A device is registered in the current family only.
MayLogIn(u) == CurrentFamily(u) # NoFamily

\* No code makes anybody an admin, who could invite, too.
CanCreateInvite(f, u) == member[f][u] = "owner"

Made(i) == invite[i].family # NoFamily
UsedUp(i) == invite[i].used >= invite[i].max

-----------------------------------------------------------------------------
(* Accounts *)

\* The check of the mode counts the users; the account is created by a statement
\* of its own, so two first accounts may both find none.
Closed == mode = "invite_only" \/ (mode = "first_setup" /\ accounts # {})

Register(h, u) ==
    /\ ~Closed
    /\ At(h, "idle") /\ Serve(h, "register", u, NoFamily, NoInvite, {})
    /\ UNCHANGED <<mode, accounts, familyVars, selection, expired, told>>

\* The email is unique.
CreateUser(h) ==
    /\ At(h, "register")
    /\ accounts' = accounts \cup {handler[h].user}
    /\ Leave(h)
    /\ UNCHANGED <<mode, familyVars, selection, expired, told>>

-----------------------------------------------------------------------------
(* Families and invitations *)

\* Mutant: the creator is a member like any other.
CreateWithMember(u, f) == member' = [member EXCEPT ![f][u] = "member"]

CreateWithOwner(u, f) == member' = [member EXCEPT ![f][u] = "owner"]

CreateFamily(h, u, f) ==
    /\ u \in accounts /\ ListMembers(f) = {}
    /\ CreateWithOwner(u, f)
    /\ At(h, "idle") /\ GoSelect(h, u, f)
    /\ UNCHANGED <<mode, accounts, selection, invite, expired, told, via>>

\* The family is the one of the access token: it was current when the token was
\* issued, and need not be any more.
CreateInvite(u, f, i, n) ==
    /\ ~Made(i) /\ f \in tokens[u] /\ CanCreateInvite(f, u)
    /\ invite' = [invite EXCEPT ![i] = [family |-> f, max |-> n, used |-> 0]]
    /\ UNCHANGED <<mode, accounts, member, selection, expired, handler, told, via>>

Expire(i) ==
    /\ i \notin expired
    /\ expired' = expired \cup {i}
    /\ UNCHANGED <<mode, accounts, familyVars, selection, handler, told>>

-----------------------------------------------------------------------------
(* Joining *)

Join(h, u, i) ==
    /\ u \in accounts
    /\ At(h, "idle") /\ Serve(h, "invite", u, NoFamily, i, expired \cap {i})
    /\ UNCHANGED <<mode, accounts, familyVars, selection, expired, told>>

Asked(h) == handler[h].invite

Redeemable(h) == /\ Made(Asked(h)) /\ ~UsedUp(Asked(h))
                 /\ Asked(h) \notin handler[h].late

\* INVITE_INVALID, INVITE_EXPIRED or INVITE_EXHAUSTED.
FindInvite(h) ==
    /\ At(h, "invite")
    /\ IF Redeemable(h)
       THEN handler' = [handler EXCEPT ![h].at = "member",
                                       ![h].family = invite[Asked(h)].family]
       ELSE Leave(h)
    /\ UNCHANGED <<mode, accounts, familyVars, selection, expired, told>>

Tell(h, answered) ==
    told' = IF answered THEN [told EXCEPT ![handler[h].user] = handler[h].family] ELSE told

\* Who is a member already is told so at once.
AlreadyMember(h, answered) ==
    /\ At(h, "member") /\ IsMember(handler[h].family, handler[h].user)
    /\ Tell(h, answered)
    /\ Leave(h)
    /\ UNCHANGED <<mode, accounts, familyVars, selection, expired>>

NotYetMember(h) ==
    /\ At(h, "member") /\ ~IsMember(handler[h].family, handler[h].user)
    /\ Go(h, "redeem")
    /\ UNCHANGED <<mode, accounts, familyVars, selection, expired, told>>

\* The row of an invitation is locked until its use is counted.
Locked(i) == \E k \in Handlers : At(k, "insert") /\ handler[k].invite = i

\* JoinWithInvite up to the insert: what was read before is checked again.
Redeem(h) ==
    /\ At(h, "redeem") /\ ~Locked(Asked(h))
    /\ IF ~Redeemable(h) THEN Leave(h)
       ELSE IF IsMember(handler[h].family, handler[h].user)
       THEN GoSelect(h, handler[h].user, handler[h].family)
       ELSE Go(h, "insert")
    /\ UNCHANGED <<mode, accounts, familyVars, selection, expired, told>>

\* Mutant: ON CONFLICT ... DO UPDATE.
NoViolation(f, u) == FALSE

\* (family_id, user_id) is unique: of two invitations to one family a user joins
\* with one, the other transaction rolls back.
UniqueViolation(f, u) == IsMember(f, u)

CountUse(i) == [invite EXCEPT ![i].used = @ + 1]

\* The count repeats the conditions of the read; when they fail, the insert before
\* it rolls back, too.
Countable(h) == Redeemable(h)

Insert(h) ==
    LET f == handler[h].family u == handler[h].user i == Asked(h) IN
    /\ At(h, "insert")
    /\ IF UniqueViolation(f, u) \/ ~Countable(h)
       THEN Leave(h) /\ UNCHANGED familyVars
       ELSE /\ member' = [member EXCEPT ![f][u] = "member"]
            /\ invite' = CountUse(i)
            /\ via' = [via EXCEPT ![f][u] = i]
            /\ GoSelect(h, u, f)
    /\ UNCHANGED <<mode, accounts, selection, expired, told>>

\* SetCurrentForUser, after the transaction of a creation or of a join.  A login or
\* a refresh may follow at once, and its token keeps this family.
Select(h, answered) ==
    /\ At(h, "select") /\ IsMember(handler[h].family, handler[h].user)
    /\ current' = [current EXCEPT ![handler[h].user] = handler[h].family]
    /\ tokens' = [tokens EXCEPT ![handler[h].user] = @ \cup {handler[h].family}]
    /\ Tell(h, answered)
    /\ Leave(h)
    /\ UNCHANGED <<mode, accounts, familyVars, expired>>

\* The process stops or the connection breaks between two steps.
Lose(h) ==
    /\ ~At(h, "idle")
    /\ Leave(h)
    /\ UNCHANGED <<mode, accounts, familyVars, selection, expired, told>>

-----------------------------------------------------------------------------

FamiliesNext ==
    \/ \E u \in Users, f \in Families, i \in Invites, n \in Uses : CreateInvite(u, f, i, n)
    \/ \E i \in Invites : Expire(i)
    \/ \E h \in Handlers :
         \/ \E u \in Users : \/ Register(h, u)
                             \/ \E f \in Families : CreateFamily(h, u, f)
                             \/ \E i \in Invites : Join(h, u, i)
         \/ CreateUser(h) \/ FindInvite(h) \/ NotYetMember(h) \/ Redeem(h) \/ Insert(h)
         \/ \E answered \in BOOLEAN : AlreadyMember(h, answered) \/ Select(h, answered)
         \/ Lose(h)

FamiliesSpec == FamiliesInit /\ [][FamiliesNext]_vars

-----------------------------------------------------------------------------
(* Properties *)

Joined(i) == {u \in Users : via[invite[i].family][u] = i}

\* However many people redeem an invitation at once, and however often one of them
\* retries after a lost answer or a crash, it is used once per person who joined
\* with it, and never more often than it was made for.
UsesAreJoins ==
    \A i \in Invites : Made(i) =>
        invite[i].used = Cardinality(Joined(i)) /\ invite[i].used <= invite[i].max

\* A family has members only together with one owner, and whoever is no owner came
\* with an invitation to this family.
OneOwner ==
    \A f \in Families : \A u \in ListMembers(f) :
        /\ \E o \in Users : \A v \in Users : member[f][v] = "owner" <=> v = o
        /\ member[f][u] = "member" <=> via[f][u] # NoInvite
        /\ via[f][u] # NoInvite => invite[via[f][u]].family = f

\* No request changes or ends a membership: an owner who follows the own
\* invitation, or a member who follows a second one, stays what they are, and the
\* invitation keeps its use.
MembersStay ==
    [][\A f \in Families, u \in Users : IsMember(f, u) =>
         member'[f][u] = member[f][u] /\ via'[f][u] = via[f][u]]_vars

\* The order of a first connection: create or join a family, then log in with the
\* device, which a current family is required for.
JoinedMayLogIn == \A u \in Users : told[u] # NoFamily => MayLogIn(u)
=============================================================================
