----------------------------- MODULE FamilyFeed -----------------------------
(***************************************************************************)
(* What the NAS promises a family about its change feed, independent of    *)
(* transactions, locks and pages (docs/nas/01-domain-sync-model.md,        *)
(* section 2: "pull reads by cursor only").                                *)
(*                                                                         *)
(* Each family owns an append-only feed of cursors.  A device always holds *)
(* a prefix of the feed of its family, and only ever extends it.           *)
(***************************************************************************)
EXTENDS Naturals

CONSTANTS
    Families,   \* families served by one NAS
    Readers,    \* devices that pull
    FamilyOf,   \* the family of each device
    MaxCursor   \* bound on the identity sequence

VARIABLES
    feed,       \* feed[f]: cursors published to family f
    got         \* got[r]: cursors device r holds

vars == <<feed, got>>

Cursors == 1 .. MaxCursor

Init ==
    /\ feed = [f \in Families |-> {}]
    /\ got = [r \in Readers |-> {}]

\* One transaction publishes one or more changes, all of them after whatever
\* the family has already seen.
Publish(f) ==
    \E batch \in (SUBSET Cursors) \ {{}} :
        /\ \A c \in batch, d \in feed[f] : d < c
        /\ feed' = [feed EXCEPT ![f] = @ \cup batch]
        /\ UNCHANGED got

IsPrefix(part, whole) ==
    /\ part \subseteq whole
    /\ \A c \in part, d \in whole : d < c => d \in part

Extend(r) ==
    \E part \in SUBSET feed[FamilyOf[r]] :
        /\ IsPrefix(part, feed[FamilyOf[r]])
        /\ got[r] \subseteq part
        /\ got' = [got EXCEPT ![r] = part]
        /\ UNCHANGED feed

Next ==
    \/ \E f \in Families : Publish(f)
    \/ \E r \in Readers : Extend(r)

Spec == Init /\ [][Next]_vars
=============================================================================
