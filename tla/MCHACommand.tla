----------------------------- MODULE MCHACommand -----------------------------
EXTENDS HACommand, Integers, TLC

CONSTANTS lamp, phone, tablet, none, nocall, w1, w2, admin1, heat, HEAT, cool

NoOwner == [e \in Entities |-> NoDevice]

Give(d) == [request |-> "r", device |-> d, entity |-> lamp, role |-> "member", command |-> "on"]

\* One request id, used by two devices.
MCCalls == {Give(phone), Give(tablet)}

\* The lamp is discovered; a member may switch it on and off.
Installed ==
    /\ integration = [phase |-> "live", enabled |-> TRUE, status |-> "healthy", token |-> 1]
    /\ device = [x \in HADevices |-> [id |-> 0, live |-> FALSE]]
    /\ entity = [e \in Entities |-> [known |-> TRUE, live |-> TRUE, device |-> 0]]
    /\ grant = [k \in Entities \X Roles |-> [live |-> TRUE, commands |-> Commands]]
    /\ admin = [a \in Admins |-> Idle]
    /\ tokens = 1
    /\ discoveries = 0

\* The tablet is revoked, and the phone uses the request id of a command of the
\* tablet whose handler is still under way.
TabletGone ==
    /\ ledger = [r \in Requests |-> [status |-> "none", call |-> NoCall]]
    /\ audit = [r \in Requests |-> [result |-> "none", call |-> NoCall]]
    /\ receipt = [k \in Devices \X Requests |-> NoCall]
    /\ revoked = {tablet}
    /\ worker = [w \in Workers |->
         IF w = w2 THEN [Free EXCEPT !.at = "reserve", !.call = Give(tablet), !.sync = TRUE]
         ELSE Free]
    /\ performed = [c \in Calls |-> 0]
    /\ told = {}

\* Values inside and outside of the ranges a request may have.
MCBrightness == {-1, 100}
MCTemperatures == {16, 24, 201}

\* HEAT is heat in capitals.
MCLower == (HEAT :> heat) @@ [m \in {heat, cool} |-> m]

TabletGoneInit == Installed /\ TabletGone

TabletGoneSpec == TabletGoneInit /\ [][CommandNext]_vars /\ CommandFairness
=============================================================================
