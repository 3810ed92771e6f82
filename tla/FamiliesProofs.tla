---------------------------- MODULE FamiliesProofs ----------------------------
(***************************************************************************)
(* Invitations are used once per person who joined, and every family keeps *)
(* its one owner, for any number of users, families, invitations and       *)
(* connections.                                                            *)
(***************************************************************************)
EXTENDS Families, FiniteSetTheorems, TLAPS

Reading == {"invite", "member", "redeem", "insert"}
Found == {"member", "redeem", "insert"}

\* What the request r has read of its invitation still holds.
StillTrue(r) ==
    /\ r.at \in Reading => r.invite \in Invites
    /\ r.at \in Found => Made(r.invite) /\ r.family = invite[r.invite].family
    /\ r.at = "insert" => ~UsedUp(r.invite)

WhatWasRead == \A h \in Handlers : StillTrue(handler[h])

\* The row lock: one redemption of an invitation at a time is past its checks.
OneAtATime ==
    \A h, k \in Handlers :
        At(h, "insert") /\ At(k, "insert") /\ Asked(h) = Asked(k) => h = k

\* Who came with an invitation came to its family, and is a member.
Came == \A f \in Families, u \in Users : via[f][u] # NoInvite =>
            Made(via[f][u]) /\ invite[via[f][u]].family = f /\ IsMember(f, u)

\* An invitation is made by an owner, and families are not left.
Inhabited == \A i \in Invites : Made(i) => ListMembers(invite[i].family) # {}

StoreInv == Came /\ Inhabited /\ UsesAreJoins /\ OneOwner

IInv == FamiliesTypeOK /\ WhatWasRead /\ OneAtATime /\ StoreInv

\* The step of one connection that leaves invitations alone.
Moves(h, r) == handler' = [handler EXCEPT ![h] = r] /\ UNCHANGED invite

-----------------------------------------------------------------------------
(* Steps of a connection *)

\* What families and invitations promise depends on nothing else.
LEMMA StoreKept ==
    ASSUME StoreInv, UNCHANGED familyVars
    PROVE  StoreInv'
  BY DEF StoreInv, familyVars, Came, Inhabited, UsesAreJoins, OneOwner, Made, Joined,
         ListMembers, IsMember

\* A connection may go on to whatever the store bears out.
LEMMA HandlersKept ==
    ASSUME FamiliesTypeOK, WhatWasRead, OneAtATime, NEW h \in Handlers, NEW r,
           Moves(h, r), StillTrue(r), r.at = "insert" => ~Locked(r.invite)
    PROVE  (WhatWasRead /\ OneAtATime)'
<1>1. /\ handler'[h] = r
      /\ \A k \in Handlers : k # h => handler'[k] = handler[k]
  BY DEF Moves, FamiliesTypeOK
<1>2. WhatWasRead'
  BY <1>1 DEF WhatWasRead, StillTrue, Moves, Made, UsedUp
<1>3. OneAtATime'
  BY <1>1 DEF OneAtATime, At, Asked, Locked
<1> QED BY <1>2, <1>3

\* A request that asks for no invitation, or is over.
LEMMA NothingRead ==
    ASSUME NEW r, r.at \in {"idle", "register", "select"}
    PROVE  StillTrue(r) /\ r.at # "insert"
  BY DEF StillTrue, Reading, Found

-----------------------------------------------------------------------------
(* Types *)

\* One entry of a table of families and users is written.
LEMMA OneEntry ==
    ASSUME NEW S, NEW t \in [Families -> [Users -> S]], NEW f \in Families, NEW u \in Users,
           NEW s \in S
    PROVE  /\ [t EXCEPT ![f][u] = s] \in [Families -> [Users -> S]]
           /\ \A g \in Families, v \in Users :
                [t EXCEPT ![f][u] = s][g][v] = IF g = f /\ v = u THEN s ELSE t[g][v]
  OBVIOUS

\* A use is counted on one invitation, and nothing else of it changes.
LEMMA Counted ==
    ASSUME FamiliesTypeOK, NEW i \in Invites
    PROVE  /\ CountUse(i) \in [Invites -> Invite]
           /\ \A j \in Invites :
                /\ CountUse(i)[j].family = invite[j].family
                /\ CountUse(i)[j].max = invite[j].max
                /\ CountUse(i)[j].used = IF j = i THEN invite[j].used + 1 ELSE invite[j].used
<1> DEFINE r == [invite[i] EXCEPT !.used = invite[i].used + 1]
<1>1. invite[i] \in Invite /\ \A j \in Invites : invite[j] \in Invite
  BY DEF FamiliesTypeOK
<1>2. invite[i].used \in Nat
  BY <1>1 DEF Invite
<1>3. r \in Invite /\ r.family = invite[i].family /\ r.max = invite[i].max
      /\ r.used = invite[i].used + 1
  BY <1>1, <1>2 DEF Invite
<1>4. CountUse(i) = [invite EXCEPT ![i] = r]
  BY DEF FamiliesTypeOK, CountUse
<1> HIDE DEF r
<1> QED BY <1>1, <1>3, <1>4 DEF FamiliesTypeOK

LEMMA TypesInit == FamiliesInit => FamiliesTypeOK
  BY FamiliesAssumption DEF FamiliesInit, FamiliesTypeOK, NotMade, Invite, Free, Role

\* A request that has not ended has all its fields.
LEMMA Serving ==
    ASSUME FamiliesTypeOK, NEW h \in Handlers, ~At(h, "idle")
    PROVE  handler[h] \in Handler
  BY DEF FamiliesTypeOK, At, Free

\* What is written over a request is the end of it or another request.
LEMMA RequestWritten ==
    ASSUME FamiliesTypeOK, NEW h \in Handlers, NEW r \in {Free} \cup Handler,
           handler' = [handler EXCEPT ![h] = r]
    PROVE  handler' \in [Handlers -> {Free} \cup Handler]
  BY DEF FamiliesTypeOK

LEMMA RequestLeft ==
    ASSUME FamiliesTypeOK, NEW h \in Handlers, Leave(h)
    PROVE  handler' \in [Handlers -> {Free} \cup Handler]
  BY RequestWritten DEF Leave

LEMMA RequestServed ==
    ASSUME FamiliesTypeOK, NEW h \in Handlers, NEW step, NEW u \in Users,
           NEW f \in Families \cup {NoFamily}, NEW i \in Invites \cup {NoInvite},
           NEW late \in SUBSET Invites,
           step \in {"register", "invite", "member", "redeem", "insert", "select"},
           Serve(h, step, u, f, i, late)
    PROVE  handler' \in [Handlers -> {Free} \cup Handler]
<1> DEFINE r == [at |-> step, user |-> u, family |-> f, invite |-> i, late |-> late]
<1>1. r \in Handler
  BY DEF Handler
<1>2. handler' = [handler EXCEPT ![h] = r]
  BY DEF Serve
<1> HIDE DEF r
<1> QED BY <1>1, <1>2, RequestWritten

LEMMA RequestAdvances ==
    ASSUME FamiliesTypeOK, NEW h \in Handlers, handler[h] \in Handler,
           NEW step \in {"register", "invite", "member", "redeem", "insert", "select"},
           Go(h, step)
    PROVE  handler' \in [Handlers -> {Free} \cup Handler]
<1> DEFINE r == [handler[h] EXCEPT !.at = step]
<1>1. r \in Handler
  BY DEF Handler
<1>2. handler' = [handler EXCEPT ![h] = r]
  BY DEF Go
<1> HIDE DEF r
<1> QED BY <1>1, <1>2, RequestWritten

LEMMA TypesStep == FamiliesTypeOK /\ WhatWasRead /\ [FamiliesNext]_vars => FamiliesTypeOK'
<1> SUFFICES ASSUME FamiliesTypeOK, WhatWasRead, [FamiliesNext]_vars PROVE FamiliesTypeOK'
  OBVIOUS
<1>2. ASSUME NEW u \in Users, NEW f \in Families, NEW i \in Invites, NEW n \in Uses,
             CreateInvite(u, f, i, n)
      PROVE  FamiliesTypeOK'
  <2>1. [family |-> f, max |-> n, used |-> 0] \in Invite
    BY FamiliesAssumption DEF Invite
  <2>2. invite' \in [Invites -> Invite]
    BY <1>2, <2>1 DEF CreateInvite, FamiliesTypeOK
  <2> QED BY <1>2, <2>2 DEF CreateInvite, selection, FamiliesTypeOK
<1>3. ASSUME NEW i \in Invites, Expire(i) PROVE FamiliesTypeOK'
  BY <1>3 DEF Expire, familyVars, selection, FamiliesTypeOK
<1>4. ASSUME NEW h \in Handlers, NEW u \in Users, Register(h, u) PROVE FamiliesTypeOK'
  <2>1. handler' \in [Handlers -> {Free} \cup Handler]
    BY <1>4, RequestServed DEF Register
  <2> QED BY <1>4, <2>1 DEF Register, familyVars, selection, FamiliesTypeOK
<1>5. ASSUME NEW h \in Handlers, NEW u \in Users, NEW f \in Families, CreateFamily(h, u, f)
      PROVE  FamiliesTypeOK'
  <2>1. handler' \in [Handlers -> {Free} \cup Handler]
    BY <1>5, RequestServed DEF CreateFamily, GoSelect
  <2>2. member \in [Families -> [Users -> Role]] /\ "owner" \in Role
    BY DEF FamiliesTypeOK, Role
  <2>3. member' \in [Families -> [Users -> Role]]
    BY <1>5, <2>2, OneEntry DEF CreateFamily, CreateWithOwner
  <2> QED BY <1>5, <2>1, <2>3 DEF CreateFamily, selection, FamiliesTypeOK
<1>6. ASSUME NEW h \in Handlers, NEW u \in Users, NEW i \in Invites, Join(h, u, i)
      PROVE  FamiliesTypeOK'
  <2>1. expired \cap {i} \in SUBSET Invites
    OBVIOUS
  <2>2. handler' \in [Handlers -> {Free} \cup Handler]
    BY <1>6, <2>1, RequestServed DEF Join
  <2> QED BY <1>6, <2>2 DEF Join, familyVars, selection, FamiliesTypeOK
<1>7. ASSUME NEW h \in Handlers, CreateUser(h) PROVE FamiliesTypeOK'
  <2>1. handler[h].user \in Users
    BY <1>7, Serving DEF CreateUser, At, Handler
  <2>2. handler' \in [Handlers -> {Free} \cup Handler]
    BY <1>7, RequestLeft DEF CreateUser
  <2>3. accounts' \in SUBSET Users
    BY <1>7, <2>1 DEF CreateUser, FamiliesTypeOK
  <2> QED BY <1>7, <2>2, <2>3 DEF CreateUser, familyVars, selection, FamiliesTypeOK
<1>8. ASSUME NEW h \in Handlers, FindInvite(h) PROVE FamiliesTypeOK'
  <2>1. handler[h] \in Handler /\ Asked(h) \in Invites
    BY <1>8, Serving DEF FindInvite, At, WhatWasRead, StillTrue, Reading, Asked
  <2>2. invite[Asked(h)].family \in Families \cup {NoFamily}
    BY <2>1 DEF Invite, FamiliesTypeOK
  <2> DEFINE r == [handler[h] EXCEPT !.at = "member", !.family = invite[Asked(h)].family]
  <2>3. r \in Handler
    BY <2>1, <2>2 DEF Handler
  <2>4. handler' = [handler EXCEPT ![h] = r] \/ Leave(h)
    BY <1>8 DEF FindInvite
  <2> HIDE DEF r
  <2>5. handler' \in [Handlers -> {Free} \cup Handler]
    BY <2>3, <2>4, RequestWritten, RequestLeft
  <2> QED BY <1>8, <2>5 DEF FindInvite, familyVars, selection, FamiliesTypeOK
<1>9. ASSUME NEW h \in Handlers, NotYetMember(h) PROVE FamiliesTypeOK'
  <2>1. handler[h] \in Handler
    BY <1>9, Serving DEF NotYetMember, At
  <2>2. handler' \in [Handlers -> {Free} \cup Handler]
    BY <1>9, <2>1, RequestAdvances DEF NotYetMember
  <2> QED BY <1>9, <2>2 DEF NotYetMember, familyVars, selection, FamiliesTypeOK
<1>10. ASSUME NEW h \in Handlers, Redeem(h) PROVE FamiliesTypeOK'
  <2>1. handler[h] \in Handler
    BY <1>10, Serving DEF Redeem, At
  <2>2. handler[h].user \in Users /\ handler[h].family \in Families \cup {NoFamily}
    BY <2>1 DEF Handler
  <2>3. Leave(h) \/ GoSelect(h, handler[h].user, handler[h].family) \/ Go(h, "insert")
    BY <1>10 DEF Redeem
  <2>4. handler' \in [Handlers -> {Free} \cup Handler]
    BY <2>1, <2>2, <2>3, RequestLeft, RequestServed, RequestAdvances DEF GoSelect
  <2> QED BY <1>10, <2>4 DEF Redeem, familyVars, selection, FamiliesTypeOK
<1>11. ASSUME NEW h \in Handlers, Insert(h) PROVE FamiliesTypeOK'
  <2>1. /\ handler[h] \in Handler /\ Asked(h) \in Invites
        /\ handler[h].family \in Families
    BY <1>11, Serving DEF Insert, At, WhatWasRead, StillTrue, Reading, Found, Asked,
       Invite, Made, FamiliesTypeOK
  <2>2. CASE UniqueViolation(handler[h].family, handler[h].user) \/ ~Countable(h)
    <3>1. handler' \in [Handlers -> {Free} \cup Handler]
      BY <1>11, <2>2, RequestLeft DEF Insert
    <3> QED BY <1>11, <2>2, <3>1 DEF Insert, familyVars, selection, FamiliesTypeOK
  <2>3. CASE ~UniqueViolation(handler[h].family, handler[h].user) /\ Countable(h)
    <3>3. handler[h].user \in Users
      BY <2>1 DEF Handler
    <3>2. handler' \in [Handlers -> {Free} \cup Handler]
      BY <1>11, <2>1, <2>3, <3>3, RequestServed DEF Insert, GoSelect
    <3>4. member' \in [Families -> [Users -> Role]]
      <4>1. "member" \in Role
        BY DEF Role
      <4>2. [member EXCEPT ![handler[h].family][handler[h].user] = "member"]
                \in [Families -> [Users -> Role]]
        BY <2>1, <3>3, <4>1, OneEntry DEF FamiliesTypeOK
      <4> QED BY <1>11, <2>3, <4>2 DEF Insert
    <3>5. via' \in [Families -> [Users -> Invites \cup {NoInvite}]]
      <4>1. [via EXCEPT ![handler[h].family][handler[h].user] = Asked(h)]
                \in [Families -> [Users -> Invites \cup {NoInvite}]]
        BY <2>1, <3>3, OneEntry DEF FamiliesTypeOK
      <4> QED BY <1>11, <2>3, <4>1 DEF Insert
    <3>6. invite' \in [Invites -> Invite]
      BY <1>11, <2>3, <2>1, Counted DEF Insert
    <3> QED BY <1>11, <3>2, <3>4, <3>5, <3>6 DEF Insert, selection, FamiliesTypeOK
  <2> QED BY <2>2, <2>3
<1>12. ASSUME NEW h \in Handlers, NEW answered \in BOOLEAN,
              AlreadyMember(h, answered) \/ Select(h, answered)
       PROVE  FamiliesTypeOK'
  <2>1. handler[h].user \in Users /\ handler[h].family \in Families \cup {NoFamily}
    BY <1>12, Serving DEF AlreadyMember, Select, At, Handler
  <2>2. handler' \in [Handlers -> {Free} \cup Handler]
    BY <1>12, RequestLeft DEF AlreadyMember, Select
  <2>3. /\ told \in [Users -> Families \cup {NoFamily}]
        /\ current \in [Users -> Families \cup {NoFamily}]
        /\ tokens \in [Users -> SUBSET (Families \cup {NoFamily})]
    BY DEF FamiliesTypeOK
  <2>4. told' \in [Users -> Families \cup {NoFamily}]
    BY <1>12, <2>1, <2>3 DEF AlreadyMember, Select, Tell
  <2>5. current' \in [Users -> Families \cup {NoFamily}]
    BY <1>12, <2>1, <2>3 DEF AlreadyMember, Select, selection
  <2>6. tokens' \in [Users -> SUBSET (Families \cup {NoFamily})]
    BY <1>12, <2>1, <2>3 DEF AlreadyMember, Select, selection
  <2> QED
    BY <1>12, <2>2, <2>4, <2>5, <2>6 DEF AlreadyMember, Select, familyVars, selection, FamiliesTypeOK
<1>13. ASSUME NEW h \in Handlers, Lose(h) PROVE FamiliesTypeOK'
  <2>1. handler' \in [Handlers -> {Free} \cup Handler]
    BY <1>13, RequestLeft DEF Lose
  <2> QED BY <1>13, <2>1 DEF Lose, familyVars, selection, FamiliesTypeOK
<1>14. CASE UNCHANGED vars
  BY <1>14 DEF vars, FamiliesTypeOK
<1> QED
  BY <1>2, <1>3, <1>4, <1>5, <1>6, <1>7, <1>8, <1>9, <1>10, <1>11, <1>12, <1>13, <1>14
  DEF FamiliesNext

-----------------------------------------------------------------------------
(* The initial state *)

LEMMA InitIInv == FamiliesInit => IInv
<1> SUFFICES ASSUME FamiliesInit PROVE IInv
  OBVIOUS
<1>1. FamiliesTypeOK
  BY TypesInit
<1>2. WhatWasRead /\ OneAtATime
  BY DEF FamiliesInit, WhatWasRead, StillTrue, OneAtATime, Free, At, Reading, Found
<1>3. StoreInv
  BY DEF FamiliesInit, StoreInv, Came, Inhabited, UsesAreJoins, OneOwner, Made, NotMade,
         ListMembers, IsMember
<1> QED BY <1>1, <1>2, <1>3 DEF IInv

-----------------------------------------------------------------------------
(* Steps that leave the store alone *)

LEMMA QuietStep ==
    ASSUME IInv, NEW h \in Handlers, NEW r, Moves(h, r), UNCHANGED familyVars,
           StillTrue(r), r.at = "insert" => ~Locked(r.invite)
    PROVE  (WhatWasRead /\ OneAtATime /\ StoreInv)'
  BY HandlersKept, StoreKept DEF IInv

\* What ends a request, or only chooses the family it is about.
LEMMA EndsQuietly ==
    ASSUME IInv, NEW h \in Handlers, NEW r, handler' = [handler EXCEPT ![h] = r],
           UNCHANGED familyVars, r.at \in {"idle", "register", "select"}
    PROVE  (WhatWasRead /\ OneAtATime /\ StoreInv)'
<1>1. StillTrue(r) /\ r.at # "insert"
  BY NothingRead
<1>2. Moves(h, r)
  BY DEF Moves, familyVars
<1> QED BY <1>1, <1>2, QuietStep

LEMMA JoinStep ==
    ASSUME IInv, NEW h \in Handlers, NEW u \in Users, NEW i \in Invites, Join(h, u, i)
    PROVE  (WhatWasRead /\ OneAtATime /\ StoreInv)'
<1> DEFINE r == [at |-> "invite", user |-> u, family |-> NoFamily, invite |-> i,
                 late |-> expired \cap {i}]
<1>1. Moves(h, r)
  BY DEF Join, Serve, Moves, familyVars
<1>2. StillTrue(r) /\ r.at # "insert"
  BY DEF StillTrue, Reading, Found
<1> QED BY <1>1, <1>2, QuietStep DEF Join

LEMMA FindInviteStep ==
    ASSUME IInv, NEW h \in Handlers, FindInvite(h)
    PROVE  (WhatWasRead /\ OneAtATime /\ StoreInv)'
<1>1. CASE Redeemable(h)
  <2> DEFINE r == [handler[h] EXCEPT !.at = "member", !.family = invite[Asked(h)].family]
  <2>1. handler[h] \in Handler /\ handler[h].invite \in Invites
    BY Serving DEF FindInvite, At, IInv, WhatWasRead, StillTrue, Reading
  <2>2. r.at = "member" /\ r.family = invite[Asked(h)].family /\ r.invite = Asked(h)
    BY <2>1 DEF Handler, Asked
  <2>3. StillTrue(r)
    BY <1>1, <2>1, <2>2 DEF StillTrue, Redeemable, Asked, Reading, Found
  <2>4. Moves(h, r)
    BY <1>1, <2>1 DEF FindInvite, Moves, familyVars, IInv, FamiliesTypeOK
  <2> HIDE DEF r
  <2> QED BY <2>2, <2>3, <2>4, QuietStep DEF FindInvite
<1>2. CASE ~Redeemable(h)
  BY <1>2, EndsQuietly DEF FindInvite, Leave, Free
<1> QED BY <1>1, <1>2

LEMMA NotYetMemberStep ==
    ASSUME IInv, NEW h \in Handlers, NotYetMember(h)
    PROVE  (WhatWasRead /\ OneAtATime /\ StoreInv)'
<1> DEFINE r == [handler[h] EXCEPT !.at = "redeem"]
<1>1. handler[h] \in Handler /\ StillTrue(handler[h]) /\ handler[h].at = "member"
  BY Serving DEF NotYetMember, At, IInv, WhatWasRead
<1>2. r.at = "redeem" /\ r.family = handler[h].family /\ r.invite = handler[h].invite
  BY <1>1 DEF Handler
<1>3. StillTrue(r)
  BY <1>1, <1>2 DEF StillTrue, Reading, Found
<1>4. Moves(h, r)
  BY <1>1 DEF NotYetMember, Go, Moves, familyVars, IInv, FamiliesTypeOK
<1> HIDE DEF r
<1> QED BY <1>2, <1>3, <1>4, QuietStep DEF NotYetMember

LEMMA RedeemStep ==
    ASSUME IInv, NEW h \in Handlers, Redeem(h)
    PROVE  (WhatWasRead /\ OneAtATime /\ StoreInv)'
<1>1. CASE ~Redeemable(h)
  BY <1>1, EndsQuietly DEF Redeem, Leave, Free
<1>2. CASE Redeemable(h) /\ IsMember(handler[h].family, handler[h].user)
  BY <1>2, EndsQuietly DEF Redeem, GoSelect, Serve
<1>3. CASE Redeemable(h) /\ ~IsMember(handler[h].family, handler[h].user)
  <2> DEFINE r == [handler[h] EXCEPT !.at = "insert"]
  <2>1. handler[h] \in Handler /\ StillTrue(handler[h]) /\ handler[h].at = "redeem"
    BY Serving DEF Redeem, At, IInv, WhatWasRead
  <2>2. r.at = "insert" /\ r.family = handler[h].family /\ r.invite = handler[h].invite
    BY <2>1 DEF Handler
  <2>3. StillTrue(r)
    BY <1>3, <2>1, <2>2 DEF StillTrue, Redeemable, Asked, Reading, Found
  <2>4. Moves(h, r) /\ ~Locked(r.invite)
    BY <1>3, <2>1, <2>2 DEF Redeem, Go, Moves, familyVars, IInv, FamiliesTypeOK, Asked
  <2> HIDE DEF r
  <2> QED BY <2>3, <2>4, QuietStep DEF Redeem
<1> QED BY <1>1, <1>2, <1>3

-----------------------------------------------------------------------------
(* Steps that change the store *)

LEMMA CreateFamilyStep ==
    ASSUME IInv, NEW h \in Handlers, NEW u \in Users, NEW f \in Families,
           CreateFamily(h, u, f)
    PROVE  (WhatWasRead /\ OneAtATime /\ StoreInv)'
<1> DEFINE r == [at |-> "select", user |-> u, family |-> f, invite |-> NoInvite, late |-> {}]
<1>1. (WhatWasRead /\ OneAtATime)'
  <2>1. Moves(h, r)
    BY DEF CreateFamily, GoSelect, Serve, Moves
  <2>2. StillTrue(r) /\ r.at # "insert"
    BY NothingRead
  <2> QED BY <2>1, <2>2, HandlersKept DEF IInv
<1>2. /\ \A v \in Users : member[f][v] = "none" /\ via[f][v] = NoInvite
      /\ \A g \in Families, v \in Users :
           member'[g][v] = IF g = f /\ v = u THEN "owner" ELSE member[g][v]
  <2>1. \A v \in Users : member[f][v] = "none"
    BY DEF CreateFamily, ListMembers, IsMember
  <2>2. \A v \in Users : via[f][v] = NoInvite
    BY <2>1 DEF IInv, StoreInv, Came, IsMember
  <2>3. member \in [Families -> [Users -> Role]] /\ "owner" \in Role
    BY DEF IInv, FamiliesTypeOK, Role
  <2> QED BY <2>1, <2>2, <2>3, OneEntry DEF CreateFamily, CreateWithOwner
<1>3. invite' = invite /\ via' = via
  BY DEF CreateFamily
<1>4. Came'
  BY <1>2, <1>3 DEF IInv, StoreInv, Came, Made, IsMember
<1>5. Inhabited'
  <2> SUFFICES ASSUME NEW i \in Invites, Made(i) PROVE (ListMembers(invite[i].family) # {})'
    BY <1>3 DEF Inhabited, Made
  <2>1. invite[i].family \in Families
    BY DEF IInv, FamiliesTypeOK, Invite, Made
  <2>2. PICK v \in Users : member[invite[i].family][v] # "none"
    BY DEF IInv, StoreInv, Inhabited, ListMembers, IsMember
  <2> QED BY <1>2, <1>3, <2>1, <2>2 DEF ListMembers, IsMember
<1>6. UsesAreJoins'
  BY <1>3 DEF IInv, StoreInv, UsesAreJoins, Made, Joined
<1>7. OneOwner'
  <2> SUFFICES ASSUME NEW g \in Families, NEW v \in Users, member'[g][v] # "none"
               PROVE  /\ \E o \in Users : \A w \in Users : member'[g][w] = "owner" <=> w = o
                      /\ member'[g][v] = "member" <=> via[g][v] # NoInvite
                      /\ via[g][v] # NoInvite => invite[via[g][v]].family = g
    BY <1>3 DEF OneOwner, ListMembers, IsMember
  <2>1. CASE g = f
    BY <1>2, <2>1
  <2>2. CASE g # f
    <3>1. \A w \in Users : member'[g][w] = member[g][w]
      BY <1>2, <2>2
    <3>2. v \in ListMembers(g)
      BY <3>1 DEF ListMembers, IsMember
    <3> QED BY <3>1, <3>2 DEF IInv, StoreInv, OneOwner
  <2> QED BY <2>1, <2>2
<1> QED BY <1>1, <1>4, <1>5, <1>6, <1>7 DEF StoreInv

LEMMA CreateInviteStep ==
    ASSUME IInv, NEW u \in Users, NEW f \in Families, NEW i \in Invites, NEW n \in Uses,
           CreateInvite(u, f, i, n)
    PROVE  (WhatWasRead /\ OneAtATime /\ StoreInv)'
<1>1. /\ invite'[i] = [family |-> f, max |-> n, used |-> 0] /\ f # NoFamily /\ n \in Nat
      /\ \A j \in Invites : j # i => invite'[j] = invite[j]
  BY FamiliesAssumption DEF CreateInvite, IInv, FamiliesTypeOK
<1>2. ~Made(i) /\ UNCHANGED <<handler, member, via>> /\ member[f][u] = "owner"
  BY DEF CreateInvite, CanCreateInvite
<1>3. WhatWasRead'
  BY <1>1, <1>2 DEF IInv, WhatWasRead, StillTrue, Made, UsedUp, Found, Reading
<1>4. OneAtATime'
  BY <1>2 DEF IInv, OneAtATime, At, Asked
<1>5. \A g \in Families, v \in Users : via[g][v] # i
  BY <1>2, FamiliesAssumption DEF IInv, StoreInv, Came, Made
<1>6. Came'
  <2> SUFFICES ASSUME NEW g \in Families, NEW v \in Users, via[g][v] # NoInvite
               PROVE  /\ invite'[via[g][v]].family # NoFamily
                      /\ invite'[via[g][v]].family = g /\ member[g][v] # "none"
    BY <1>2 DEF Came, Made, IsMember
  <2>1. via[g][v] \in Invites /\ via[g][v] # i
    BY <1>5 DEF IInv, FamiliesTypeOK
  <2> QED BY <1>1, <2>1 DEF IInv, StoreInv, Came, Made, IsMember
<1>7. Inhabited'
  BY <1>1, <1>2 DEF IInv, StoreInv, Inhabited, Made, ListMembers, IsMember
<1>8. UsesAreJoins'
  <2> SUFFICES ASSUME NEW j \in Invites, Made(j)'
               PROVE  (invite[j].used = Cardinality(Joined(j)) /\ invite[j].used <= invite[j].max)'
    BY DEF UsesAreJoins
  <2>1. CASE j = i
    <3>1. Joined(i)' = {}
      BY <1>1, <1>2, <1>5 DEF Joined
    <3> QED BY <1>1, <2>1, <3>1, FS_EmptySet
  <2>2. CASE j # i
    BY <1>1, <1>2, <2>2 DEF IInv, StoreInv, UsesAreJoins, Made, Joined
  <2> QED BY <2>1, <2>2
<1>9. OneOwner'
  <2> SUFFICES ASSUME NEW g \in Families, NEW v \in Users, member[g][v] # "none"
               PROVE  /\ \E o \in Users : \A w \in Users : member[g][w] = "owner" <=> w = o
                      /\ member[g][v] = "member" <=> via[g][v] # NoInvite
                      /\ via[g][v] # NoInvite => invite'[via[g][v]].family = g
    BY <1>2 DEF OneOwner, ListMembers, IsMember
  <2>1. v \in ListMembers(g)
    BY DEF ListMembers, IsMember
  <2>2. via[g][v] # NoInvite => invite'[via[g][v]].family = g
    BY <1>2, <1>6 DEF Came
  <2> QED BY <2>1, <2>2 DEF IInv, StoreInv, OneOwner
<1> QED BY <1>3, <1>4, <1>6, <1>7, <1>8, <1>9 DEF StoreInv

LEMMA InsertStep ==
    ASSUME IInv, NEW h \in Handlers, Insert(h)
    PROVE  (WhatWasRead /\ OneAtATime /\ StoreInv)'
<1> DEFINE f == handler[h].family
           u == handler[h].user
           i == Asked(h)
           r == [at |-> "select", user |-> u, family |-> f, invite |-> NoInvite, late |-> {}]
<1>1. /\ u \in Users /\ i \in Invites /\ f \in Families
      /\ Made(i) /\ ~UsedUp(i) /\ invite[i].family = f /\ At(h, "insert")
  <2>1. handler[h] \in Handler /\ StillTrue(handler[h]) /\ handler[h].at = "insert"
    BY Serving DEF Insert, At, IInv, WhatWasRead
  <2>2. i \in Invites /\ Made(i) /\ ~UsedUp(i) /\ invite[i].family = f /\ u \in Users
    BY <2>1 DEF StillTrue, Reading, Found, Asked, Handler
  <2>3. invite[i].family \in Families
    BY <2>2 DEF IInv, FamiliesTypeOK, Invite, Made
  <2> QED BY <2>1, <2>2, <2>3 DEF At
<1>2. CASE IsMember(f, u) \/ ~Countable(h)
  BY <1>2, EndsQuietly DEF Insert, UniqueViolation, Leave, Free
<1>3. CASE ~IsMember(f, u) /\ Countable(h)
  <2>1. /\ handler' = [handler EXCEPT ![h] = r]
        /\ member' = [member EXCEPT ![f][u] = "member"]
        /\ via' = [via EXCEPT ![f][u] = i]
        /\ invite' = CountUse(i)
    BY <1>3 DEF Insert, UniqueViolation, GoSelect, Serve
  <2> HIDE DEF f, u, i
  <2>2. /\ \A g \in Families, v \in Users :
             member'[g][v] = IF g = f /\ v = u THEN "member" ELSE member[g][v]
        /\ \A g \in Families, v \in Users :
             via'[g][v] = IF g = f /\ v = u THEN i ELSE via[g][v]
    <3>1. /\ member \in [Families -> [Users -> Role]] /\ "member" \in Role
          /\ via \in [Families -> [Users -> Invites \cup {NoInvite}]]
      BY DEF IInv, FamiliesTypeOK, Role
    <3>2. \A g \in Families, v \in Users :
             member'[g][v] = IF g = f /\ v = u THEN "member" ELSE member[g][v]
      BY <1>1, <2>1, <3>1, OneEntry
    <3>3. \A g \in Families, v \in Users :
             via'[g][v] = IF g = f /\ v = u THEN i ELSE via[g][v]
      BY <1>1, <2>1, <3>1, OneEntry
    <3> QED BY <3>2, <3>3
  <2>3. \A j \in Invites :
           /\ invite'[j].family = invite[j].family /\ invite'[j].max = invite[j].max
           /\ invite'[j].used = IF j = i THEN invite[j].used + 1 ELSE invite[j].used
    BY <1>1, <2>1, Counted DEF IInv
  <2>4. i # NoInvite /\ via[f][u] = NoInvite /\ member[f][u] = "none"
    BY <1>1, <1>3, FamiliesAssumption DEF IInv, StoreInv, Came, IsMember
  <2>5. \A g \in Families, v \in Users : member[g][v] # "none" => ~(g = f /\ v = u)
    BY <2>4
  <2>6. WhatWasRead' /\ OneAtATime'
    <3>1. /\ handler'[h] = r /\ \A k \in Handlers : k # h => handler'[k] = handler[k]
      BY <2>1 DEF IInv, FamiliesTypeOK
    <3>2. OneAtATime'
      BY <3>1 DEF IInv, OneAtATime, At, Asked
    <3>3. ASSUME NEW k \in Handlers, k # h PROVE StillTrue(handler[k])'
      <4>1. StillTrue(handler[k]) /\ handler'[k] = handler[k]
        BY <3>1, <3>3 DEF IInv, WhatWasRead
      <4>2. handler[k].at = "insert" => handler[k].invite # i
        BY <1>1, <3>3 DEF IInv, OneAtATime, At, Asked, i
      <4> QED BY <2>3, <4>1, <4>2 DEF StillTrue, Made, UsedUp, Reading, Found
    <3>4. StillTrue(handler[h])'
      BY <3>1 DEF StillTrue, Reading, Found
    <3> QED BY <3>2, <3>3, <3>4 DEF WhatWasRead
  <2>7. Came'
    <3> SUFFICES ASSUME NEW g \in Families, NEW v \in Users, via'[g][v] # NoInvite
                 PROVE  /\ invite'[via'[g][v]].family # NoFamily
                        /\ invite'[via'[g][v]].family = g /\ member'[g][v] # "none"
      BY DEF Came, Made, IsMember
    <3>1. CASE g = f /\ v = u
      BY <1>1, <2>2, <2>3, <3>1 DEF Made
    <3>2. CASE ~(g = f /\ v = u)
      <4>1. via[g][v] \in Invites /\ via'[g][v] = via[g][v] /\ member'[g][v] = member[g][v]
        BY <2>2, <3>2 DEF IInv, FamiliesTypeOK
      <4> QED BY <2>3, <4>1 DEF IInv, StoreInv, Came, Made, IsMember
    <3> QED BY <3>1, <3>2
  <2>8. Inhabited'
    <3> SUFFICES ASSUME NEW j \in Invites, Made(j) PROVE (ListMembers(invite[j].family) # {})'
      BY <2>3 DEF Inhabited, Made
    <3>1. invite[j].family \in Families
      BY DEF IInv, FamiliesTypeOK, Invite, Made
    <3>2. PICK v \in Users : member[invite[j].family][v] # "none"
      BY DEF IInv, StoreInv, Inhabited, ListMembers, IsMember
    <3> QED BY <2>2, <2>3, <3>1, <3>2 DEF ListMembers, IsMember
  <2>9. UsesAreJoins'
    <3> SUFFICES ASSUME NEW j \in Invites, Made(j)'
                 PROVE  invite'[j].used = Cardinality(Joined(j)') /\ invite'[j].used <= invite'[j].max
      BY DEF UsesAreJoins
    <3>1. /\ invite[j].family \in Families /\ invite[j].used \in Nat /\ invite[j].max \in Nat
          /\ invite[j].used = Cardinality(Joined(j)) /\ invite[j].used <= invite[j].max
      BY <2>3 DEF IInv, FamiliesTypeOK, Invite, StoreInv, UsesAreJoins, Made
    <3>2. CASE j = i
      <4>1. Joined(j)' = Joined(j) \cup {u}
        BY <1>1, <2>2, <2>3, <3>1, <3>2 DEF Joined
      <4>2. u \notin Joined(j) /\ IsFiniteSet(Joined(j))
        BY <1>1, <2>4, <3>2, FamiliesAssumption, FS_Subset DEF Joined
      <4>3. Cardinality(Joined(j)') = Cardinality(Joined(j)) + 1
        BY <4>1, <4>2, FS_AddElement
      <4> QED BY <1>1, <2>3, <3>1, <3>2, <4>3 DEF UsedUp
    <3>3. CASE j # i
      <4>1. Joined(j)' = Joined(j)
        <5>1. invite'[j].family = invite[j].family
          BY <2>3
        <5>2. \A v \in Users :
                 via'[invite[j].family][v] = j <=> via[invite[j].family][v] = j
          BY <2>2, <2>4, <3>1, <3>3, FamiliesAssumption
        <5> QED BY <5>1, <5>2 DEF Joined
      <4> QED BY <2>3, <3>1, <3>3, <4>1
    <3> QED BY <3>2, <3>3
  <2>10. OneOwner'
    <3> SUFFICES ASSUME NEW g \in Families, NEW v \in Users, member'[g][v] # "none"
                 PROVE  /\ \E o \in Users : \A w \in Users : member'[g][w] = "owner" <=> w = o
                        /\ member'[g][v] = "member" <=> via'[g][v] # NoInvite
                        /\ via'[g][v] # NoInvite => invite'[via'[g][v]].family = g
      BY DEF OneOwner, ListMembers, IsMember
    <3>1. PICK m \in Users : member[g][m] # "none"
      <4>1. CASE g = f
        BY <1>1, <4>1 DEF IInv, StoreInv, Inhabited, ListMembers, IsMember
      <4>2. CASE g # f
        BY <2>2, <4>2
      <4> QED BY <4>1, <4>2
    <3>2. PICK o \in Users : \A w \in Users : member[g][w] = "owner" <=> w = o
      BY <3>1 DEF IInv, StoreInv, OneOwner, ListMembers, IsMember
    <3>3. \A w \in Users : member'[g][w] = "owner" <=> w = o
      BY <2>2, <2>4, <3>2
    <3>4. member'[g][v] = "member" <=> via'[g][v] # NoInvite
      <4>1. CASE g = f /\ v = u
        BY <2>2, <2>4, <4>1
      <4>2. CASE ~(g = f /\ v = u)
        BY <2>2, <4>2 DEF IInv, StoreInv, OneOwner, ListMembers, IsMember
      <4> QED BY <4>1, <4>2
    <3>5. via'[g][v] # NoInvite => invite'[via'[g][v]].family = g
      BY <2>7 DEF Came
    <3> QED BY <3>3, <3>4, <3>5
  <2> QED BY <2>6, <2>7, <2>8, <2>9, <2>10 DEF StoreInv
<1> QED BY <1>2, <1>3

-----------------------------------------------------------------------------
(* The theorems *)

LEMMA Untouched ==
    ASSUME IInv, UNCHANGED handler, UNCHANGED familyVars
    PROVE  (WhatWasRead /\ OneAtATime /\ StoreInv)'
<1>1. StoreInv'
  BY StoreKept DEF IInv
<1>2. WhatWasRead' /\ OneAtATime'
  BY DEF IInv, familyVars, WhatWasRead, StillTrue, OneAtATime, Made, UsedUp, At, Asked
<1> QED BY <1>1, <1>2

LEMMA IInvStep == IInv /\ [FamiliesNext]_vars => IInv'
<1> SUFFICES ASSUME IInv, [FamiliesNext]_vars PROVE IInv'
  OBVIOUS
<1> DEFINE Rest == WhatWasRead /\ OneAtATime /\ StoreInv
<1>1. FamiliesTypeOK'
  BY TypesStep DEF IInv
<1>3. ASSUME NEW i \in Invites, Expire(i) PROVE Rest'
  BY <1>3, Untouched DEF Expire
<1>4. ASSUME NEW h \in Handlers, NEW u \in Users, Register(h, u) PROVE Rest'
  BY <1>4, EndsQuietly DEF Register, Serve
<1>5. ASSUME NEW h \in Handlers, CreateUser(h) PROVE Rest'
  BY <1>5, EndsQuietly DEF CreateUser, Leave, Free
<1>6. ASSUME NEW h \in Handlers, NEW answered \in BOOLEAN,
             AlreadyMember(h, answered) \/ Select(h, answered)
      PROVE  Rest'
  BY <1>6, EndsQuietly DEF AlreadyMember, Select, Leave, Free
<1>7. ASSUME NEW h \in Handlers, Lose(h) PROVE Rest'
  BY <1>7, EndsQuietly DEF Lose, Leave, Free
<1>8. ASSUME UNCHANGED vars PROVE Rest'
  <2>1. UNCHANGED handler /\ UNCHANGED familyVars
    BY <1>8 DEF vars, familyVars
  <2> QED BY <2>1, Untouched
<1>9. Rest'
  <2> HIDE DEF Rest
  <2>1. ASSUME NEW u \in Users, NEW f \in Families, NEW i \in Invites, NEW n \in Uses,
               CreateInvite(u, f, i, n)
        PROVE  Rest'
    BY <2>1, CreateInviteStep DEF Rest
  <2>2. ASSUME NEW h \in Handlers, NEW u \in Users, NEW f \in Families, CreateFamily(h, u, f)
        PROVE  Rest'
    BY <2>2, CreateFamilyStep DEF Rest
  <2>3. ASSUME NEW h \in Handlers, NEW u \in Users, NEW i \in Invites, Join(h, u, i)
        PROVE  Rest'
    BY <2>3, JoinStep DEF Rest
  <2>4. ASSUME NEW h \in Handlers,
               FindInvite(h) \/ NotYetMember(h) \/ Redeem(h) \/ Insert(h)
        PROVE  Rest'
    BY <2>4, FindInviteStep, NotYetMemberStep, RedeemStep, InsertStep DEF Rest
  <2>5. ASSUME FamiliesNext PROVE Rest'
    <3>1. CASE \E h \in Handlers :
                 \/ \E u \in Users : \/ Register(h, u)
                                     \/ \E f \in Families : CreateFamily(h, u, f)
                                     \/ \E i \in Invites : Join(h, u, i)
                 \/ CreateUser(h) \/ FindInvite(h) \/ NotYetMember(h) \/ Redeem(h) \/ Insert(h)
                 \/ \E answered \in BOOLEAN : AlreadyMember(h, answered) \/ Select(h, answered)
                 \/ Lose(h)
      BY <1>4, <1>5, <1>6, <1>7, <2>2, <2>3, <2>4, <3>1
    <3> QED BY <1>3, <2>1, <2>5, <3>1 DEF FamiliesNext
  <2> QED BY <1>8, <2>5
<1> QED BY <1>1, <1>9 DEF IInv

\* Accounts, memberships, invitations and requests keep their types.
THEOREM FamiliesTypes == FamiliesSpec => []FamiliesTypeOK
<1>1. IInv => FamiliesTypeOK
  BY DEF IInv
<1> QED BY InitIInv, IInvStep, <1>1, PTL DEF FamiliesSpec

\* However many connections redeem an invitation at once, in whatever order and with
\* whatever retries and crashes, it is used once per person who joined with it, and
\* never more often than it was made for.
THEOREM InvitationsAreUsedOnce == FamiliesSpec => []UsesAreJoins
<1>1. IInv => UsesAreJoins
  BY DEF IInv, StoreInv
<1> QED BY InitIInv, IInvStep, <1>1, PTL DEF FamiliesSpec

\* A family with members has one owner, and everybody else came with an invitation
\* to this family.
THEOREM FamiliesHaveOneOwner == FamiliesSpec => []OneOwner
<1>1. IInv => OneOwner
  BY DEF IInv, StoreInv
<1> QED BY InitIInv, IInvStep, <1>1, PTL DEF FamiliesSpec

\* No request changes or ends a membership.
THEOREM MembershipsLast == FamiliesSpec => MembersStay
<1> DEFINE Stay == \A f \in Families, u \in Users : IsMember(f, u) =>
                     member'[f][u] = member[f][u] /\ via'[f][u] = via[f][u]
<1>1. IInv /\ [FamiliesNext]_vars => [Stay]_vars
  <2> SUFFICES ASSUME IInv, FamiliesNext PROVE Stay
    BY DEF vars
  <2>1. ASSUME NEW h \in Handlers, NEW u \in Users, NEW f \in Families, CreateFamily(h, u, f)
        PROVE  Stay
    <3>1. member \in [Families -> [Users -> Role]] /\ "owner" \in Role
      BY DEF IInv, FamiliesTypeOK, Role
    <3>2. \A g \in Families, v \in Users :
             member'[g][v] = IF g = f /\ v = u THEN "owner" ELSE member[g][v]
      BY <2>1, <3>1, OneEntry DEF CreateFamily, CreateWithOwner
    <3> QED BY <2>1, <3>2 DEF CreateFamily, ListMembers, IsMember
  <2>2. ASSUME NEW h \in Handlers, Insert(h) PROVE Stay
    <3> DEFINE f == handler[h].family
               u == handler[h].user
    <3>1. CASE IsMember(f, u) \/ ~Countable(h)
      BY <2>2, <3>1 DEF Insert, UniqueViolation, familyVars
    <3>2. CASE ~IsMember(f, u) /\ Countable(h)
      BY <2>2, <3>2 DEF Insert, UniqueViolation, IInv, FamiliesTypeOK, IsMember
    <3> QED BY <3>1, <3>2
  <2> QED
    BY <2>1, <2>2 DEF FamiliesNext, CreateInvite, Expire, Register, Join,
       CreateUser, FindInvite, NotYetMember, Redeem, AlreadyMember, Select, Lose, familyVars
<1> QED BY InitIInv, IInvStep, <1>1, PTL DEF FamiliesSpec, MembersStay
=============================================================================
