---------------------------- MODULE GatewayProofs ----------------------------
(***************************************************************************)
(* What owners and admins see of the integration is consistent and a       *)
(* deletion is final, for any number of entities, devices, roles, commands *)
(* and connections, and whatever is bounded in the runs.                   *)
(***************************************************************************)
EXTENDS Gateway, TLAPS

\* What is written later was right when it was read: the requests that write the
\* whole row have read a live one in which enabled and status agree, and a test
\* has read one that is enabled.
WhatWasRead ==
    \A a \in Admins : admin[a].op \in {"update", "test"} =>
        /\ admin[a].read.phase = "live"
        /\ admin[a].read.enabled <=> admin[a].read.status # "disabled"
        /\ admin[a].op = "test" => admin[a].read.enabled

GatewayIInv == GatewayInv /\ WhatWasRead

-----------------------------------------------------------------------------
(* Requests *)

\* What a request has to be, by its kind.
LEMMA RequestFields ==
    ASSUME GatewayTypeOK, NEW a \in Admins
    PROVE  /\ admin[a] \in Pending
           /\ admin[a].op = "update" => admin[a].read \in Integration /\ admin[a].patch \in Patches
           /\ admin[a].op = "test" => admin[a].read \in Integration
           /\ admin[a].op \in {"devices", "entities", "attach"} =>
                admin[a].found \in SUBSET Entities /\ admin[a].id \in 1 .. MaxDiscoveries
           /\ admin[a].op = "grant" =>
                /\ admin[a].entity \in Entities /\ admin[a].role \in Roles
                /\ admin[a].permission \in Permission
<1>1. admin[a] \in Pending
  BY DEF GatewayTypeOK
<1>2. admin[a].op = "update" => admin[a] \in [op : {"update"}, read : Integration, patch : Patches]
  BY <1>1 DEF Pending, Idle
<1>3. admin[a].op = "test" => admin[a] \in [op : {"test"}, read : Integration]
  BY <1>1 DEF Pending, Idle
<1>4. admin[a].op \in {"devices", "entities", "attach"} =>
        admin[a] \in [op : {"devices", "entities", "attach"}, found : SUBSET Entities,
                      id : 1 .. MaxDiscoveries]
  BY <1>1 DEF Pending, Idle
<1>5. admin[a].op = "grant" =>
        admin[a] \in [op : {"grant"}, entity : Entities, role : Roles, permission : Permission]
  BY <1>1 DEF Pending, Idle
<1> QED
  BY <1>1, <1>2, <1>3, <1>4, <1>5

\* The request of one connection changes, the others' stay.
LEMMA RequestWritten ==
    ASSUME GatewayTypeOK, WhatWasRead, NEW a \in Admins, NEW r \in Pending, Become(a, r),
           r.op \in {"update", "test"} =>
             /\ r.read.phase = "live" /\ (r.read.enabled <=> r.read.status # "disabled")
             /\ r.op = "test" => r.read.enabled
    PROVE  admin' \in [Admins -> Pending] /\ WhatWasRead'
<1>1. /\ admin \in [Admins -> Pending]
      /\ admin' = [admin EXCEPT ![a] = r]
  BY DEF GatewayTypeOK, Become
<1>2. admin' \in [Admins -> Pending]
  BY <1>1
<1>3. ASSUME NEW b \in Admins
      PROVE  admin'[b] = IF b = a THEN r ELSE admin[b]
  BY <1>1
<1>4. WhatWasRead'
  BY <1>3 DEF WhatWasRead
<1> QED
  BY <1>2, <1>4

LEMMA RequestOver ==
    ASSUME GatewayTypeOK, WhatWasRead, NEW a \in Admins, Become(a, Idle)
    PROVE  admin' \in [Admins -> Pending] /\ WhatWasRead'
<1>1. Idle \in Pending /\ Idle.op = "idle"
  BY DEF Pending, Idle
<1> QED
  BY <1>1, RequestWritten

\* A request begins or goes on, and writes no row.
LEMMA QuietStep ==
    ASSUME GatewayIInv, NEW a \in Admins, NEW r \in Pending, Become(a, r),
           r.op \notin {"update", "test"},
           UNCHANGED <<integration, device, entity, grant, tokens>>,
           discoveries' \in 0 .. MaxDiscoveries
    PROVE  GatewayIInv'
<1>1. admin' \in [Admins -> Pending] /\ WhatWasRead'
  BY RequestWritten DEF GatewayIInv, GatewayInv
<1> QED
  BY <1>1 DEF GatewayIInv, GatewayInv, GatewayTypeOK, StatusAgreesWithEnabled, ReferencesLead

-----------------------------------------------------------------------------
(* The row of the integration *)

\* A whole row is written over the integration, unless that has been deleted.
LEMMA RowWritten ==
    ASSUME GatewayIInv, NEW a \in Admins, NEW row \in Integration,
           row.enabled <=> row.status # "disabled", Written(row), Become(a, Idle),
           tokens' \in 0 .. MaxToken, UNCHANGED <<device, entity, grant, discoveries>>
    PROVE  GatewayIInv'
<1>1. admin' \in [Admins -> Pending] /\ WhatWasRead'
  BY RequestOver DEF GatewayIInv, GatewayInv
<1>2. integration' \in Integration /\ StatusAgreesWithEnabled'
  BY DEF Written, GatewayIInv, GatewayInv, GatewayTypeOK, StatusAgreesWithEnabled
<1>3. ReferencesLead'
  BY DEF GatewayIInv, GatewayInv, ReferencesLead
<1> QED
  BY <1>1, <1>2, <1>3 DEF GatewayIInv, GatewayInv, GatewayTypeOK

\* What an update makes of the row it has read.
LEMMA PatchedRow ==
    ASSUME NEW row \in Integration, NEW patch \in Patches,
           row.enabled <=> row.status # "disabled",
           tokens \in 0 .. MaxToken, patch = "token" => tokens < MaxToken
    PROVE  /\ Patched(row, patch) \in Integration
           /\ Patched(row, patch).enabled <=> Patched(row, patch).status # "disabled"
<1>1. CASE patch = "token"
  <2>1. tokens + 1 \in 0 .. MaxToken
    BY <1>1, GatewayAssumption
  <2> QED
    BY <1>1, <2>1 DEF Patched, Integration
<1>2. CASE patch = "disable"
  BY <1>2 DEF Patched, Integration, Statuses
<1>3. CASE patch = "enable"
  BY <1>3 DEF Patched, Integration, Statuses
<1> QED
  BY <1>1, <1>2, <1>3, GatewayAssumption

LEMMA UpdateKeeps ==
    ASSUME GatewayIInv, NEW a \in Admins, WriteUpdate(a)
    PROVE  GatewayIInv'
<1> DEFINE row == Patched(admin[a].read, admin[a].patch)
<1>1. admin[a].read \in Integration /\ admin[a].patch \in Patches
  BY RequestFields DEF WriteUpdate, GatewayIInv, GatewayInv
<1>2. admin[a].read.enabled <=> admin[a].read.status # "disabled"
  BY DEF WriteUpdate, GatewayIInv, WhatWasRead
<1>3. tokens \in 0 .. MaxToken
  BY DEF GatewayIInv, GatewayInv, GatewayTypeOK
<1>4. row \in Integration /\ (row.enabled <=> row.status # "disabled")
  BY <1>1, <1>2, <1>3, PatchedRow DEF WriteUpdate
<1>5. tokens' \in 0 .. MaxToken
  BY <1>3, GatewayAssumption DEF WriteUpdate
<1>6. Written(row) /\ Become(a, Idle) /\ UNCHANGED <<device, entity, grant, discoveries>>
  BY DEF WriteUpdate
<1> HIDE DEF row
<1> QED
  BY <1>4, <1>5, <1>6, RowWritten

LEMMA TestKeeps ==
    ASSUME GatewayIInv, NEW a \in Admins, NEW status \in TestStatuses, EndTest(a, status)
    PROVE  GatewayIInv'
<1> DEFINE row == Tested(admin[a].read, status)
<1>1. admin[a].read \in Integration
  BY RequestFields DEF EndTest, GatewayIInv, GatewayInv
<1>2. admin[a].read.enabled
  BY DEF EndTest, GatewayIInv, WhatWasRead
<1>3. row \in Integration /\ (row.enabled <=> row.status # "disabled")
  BY <1>1, <1>2 DEF Tested, Integration, Statuses, TestStatuses
<1>4. tokens' \in 0 .. MaxToken
  BY DEF EndTest, GatewayIInv, GatewayInv, GatewayTypeOK
<1>5. Written(row) /\ Become(a, Idle) /\ UNCHANGED <<device, entity, grant, discoveries>>
  BY DEF EndTest
<1> HIDE DEF row
<1> QED
  BY <1>3, <1>4, <1>5, RowWritten

LEMMA CreateKeeps ==
    ASSUME GatewayIInv, CreateIntegration
    PROVE  GatewayIInv'
<1>1. NewIntegration \in Integration /\ tokens' \in 0 .. MaxToken
  BY GatewayAssumption DEF NewIntegration, Integration, Statuses, CreateIntegration
<1>2. StatusAgreesWithEnabled'
  BY DEF CreateIntegration, NewIntegration, StatusAgreesWithEnabled
<1>3. WhatWasRead' /\ ReferencesLead'
  BY DEF CreateIntegration, GatewayIInv, GatewayInv, WhatWasRead, ReferencesLead
<1> QED
  BY <1>1, <1>2, <1>3 DEF CreateIntegration, GatewayIInv, GatewayInv, GatewayTypeOK

\* A deletion ends: rows stop being live, and every row keeps its id.
LEMMA DeleteKeeps ==
    ASSUME GatewayIInv, NEW a \in Admins, FinishDelete(a)
    PROVE  GatewayIInv'
<1>0. GatewayTypeOK /\ ReferencesLead
  BY DEF GatewayIInv, GatewayInv
<1>1. admin' \in [Admins -> Pending] /\ WhatWasRead'
  BY RequestOver DEF FinishDelete, GatewayIInv, GatewayInv
<1>2. integration' \in Integration /\ StatusAgreesWithEnabled'
  BY <1>0 DEF FinishDelete, GatewayTypeOK, Integration, Statuses, StatusAgreesWithEnabled
<1>3. ASSUME NEW x \in HADevices
      PROVE  device'[x] \in [id : 0 .. MaxDiscoveries, live : BOOLEAN] /\ device'[x].id = device[x].id
  BY <1>0 DEF FinishDelete, GatewayTypeOK
<1>4. ASSUME NEW e \in Entities
      PROVE  /\ entity'[e] \in [known : BOOLEAN, live : BOOLEAN, device : 0 .. MaxDiscoveries]
             /\ entity'[e].device = entity[e].device
  BY <1>0 DEF FinishDelete, GatewayTypeOK
<1>5. ASSUME NEW k \in Entities \X Roles
      PROVE  grant'[k] \in Permission
  BY <1>0 DEF FinishDelete, GatewayTypeOK, Permission
<1>6. GatewayTypeOK'
  BY <1>0, <1>1, <1>2, <1>3, <1>4, <1>5 DEF FinishDelete, GatewayTypeOK
<1>7. ReferencesLead'
  BY <1>0, <1>3, <1>4, GatewayAssumption DEF ReferencesLead
<1> QED
  BY <1>1, <1>2, <1>6, <1>7 DEF GatewayIInv, GatewayInv

-----------------------------------------------------------------------------
(* Discovery *)

\* A device row gets another id only after the entities have let go of it.
LEMMA DevicesKeep ==
    ASSUME GatewayIInv, NEW a \in Admins, ReplaceDevices(a)
    PROVE  GatewayIInv'
<1> DEFINE found == admin[a].found
           id == admin[a].id
           r == [admin[a] EXCEPT !.op = "entities"]
<1>0. GatewayTypeOK /\ ReferencesLead /\ WhatWasRead
  BY DEF GatewayIInv, GatewayInv
<1>1. found \in SUBSET Entities /\ id \in 1 .. MaxDiscoveries
  BY <1>0, RequestFields DEF ReplaceDevices
<1>2. admin[a] \in [op : {"devices", "entities", "attach"}, found : SUBSET Entities, id : 1 .. MaxDiscoveries]
  BY <1>0, RequestFields DEF ReplaceDevices, Pending, Idle
<1>3. r \in Pending /\ r.op = "entities"
  BY <1>2 DEF Pending
<1>4. admin' \in [Admins -> Pending] /\ WhatWasRead'
  BY <1>0, <1>3, RequestWritten DEF ReplaceDevices
<1>5. ASSUME NEW x \in HADevices
      PROVE  /\ device'[x] \in [id : 0 .. MaxDiscoveries, live : BOOLEAN]
             /\ x \notin Reported(found) => device'[x].id = device[x].id
  <2>1. device[x] \in [id : 0 .. MaxDiscoveries, live : BOOLEAN]
    BY <1>0 DEF GatewayTypeOK
  <2>2. id \in 0 .. MaxDiscoveries
    BY <1>1, GatewayAssumption
  <2>3. device'[x] = IF x \in Reported(found) THEN [id |-> id, live |-> TRUE]
                     ELSE [device[x] EXCEPT !.live = FALSE]
    BY DEF ReplaceDevices
  <2> HIDE DEF found, id
  <2>4. CASE x \in Reported(found)
    BY <2>2, <2>3, <2>4
  <2>5. CASE x \notin Reported(found)
    BY <2>1, <2>3, <2>5
  <2> QED
    BY <2>4, <2>5
<1>6. ASSUME NEW e \in Entities
      PROVE  /\ entity'[e] \in [known : BOOLEAN, live : BOOLEAN, device : 0 .. MaxDiscoveries]
             /\ entity'[e].device =
                  IF DeviceOf[e] \in Reported(found) THEN 0 ELSE entity[e].device
  <2>1. entity[e] \in [known : BOOLEAN, live : BOOLEAN, device : 0 .. MaxDiscoveries]
    BY <1>0 DEF GatewayTypeOK
  <2>2. 0 \in 0 .. MaxDiscoveries
    BY GatewayAssumption
  <2>3. entity'[e] = IF DeviceOf[e] \in Reported(found) THEN [entity[e] EXCEPT !.device = 0]
                     ELSE entity[e]
    BY DEF ReplaceDevices, Detached
  <2> QED
    BY <2>1, <2>2, <2>3
<1>7. GatewayTypeOK'
  BY <1>0, <1>4, <1>5, <1>6 DEF ReplaceDevices, Detached, GatewayTypeOK
<1>8. ReferencesLead'
  BY <1>0, <1>5, <1>6, GatewayAssumption DEF ReferencesLead
<1>9. StatusAgreesWithEnabled'
  BY DEF ReplaceDevices, GatewayIInv, GatewayInv, StatusAgreesWithEnabled
<1> QED
  BY <1>4, <1>7, <1>8, <1>9 DEF GatewayIInv, GatewayInv

\* An entity refers to the row of its device only if that has the id of this
\* discovery.
LEMMA EntitiesKeep ==
    ASSUME GatewayIInv, NEW a \in Admins, ReplaceEntities(a)
    PROVE  GatewayIInv'
<1> DEFINE found == admin[a].found
           id == admin[a].id
<1>0. GatewayTypeOK /\ ReferencesLead /\ WhatWasRead
  BY DEF GatewayIInv, GatewayInv
<1>1. found \in SUBSET Entities /\ id \in 1 .. MaxDiscoveries
  BY <1>0, RequestFields DEF ReplaceEntities
<1>2. admin' \in [Admins -> Pending] /\ WhatWasRead'
  BY <1>0, RequestOver DEF ReplaceEntities
<1>3. ASSUME NEW e \in Entities
      PROVE  /\ entity'[e] \in [known : BOOLEAN, live : BOOLEAN, device : 0 .. MaxDiscoveries]
             /\ entity'[e].device # 0 =>
                  IF e \in found
                  THEN /\ DeviceOf[e] # NoDevice
                       /\ entity'[e].device = id /\ device[DeviceOf[e]].id = id
                  ELSE entity'[e].device = entity[e].device
  <2>1. entity[e] \in [known : BOOLEAN, live : BOOLEAN, device : 0 .. MaxDiscoveries]
    BY <1>0 DEF GatewayTypeOK
  <2>2. 0 \in 0 .. MaxDiscoveries /\ id \in 0 .. MaxDiscoveries
    BY <1>1, GatewayAssumption
  <2>3. entity'[e] = IF e \in found THEN Upserted(e, id) ELSE [entity[e] EXCEPT !.live = FALSE]
    BY DEF ReplaceEntities
  <2>4. e \in found => DeviceThere(e, id)
    BY DEF ReplaceEntities
  <2> HIDE DEF found, id
  <2>5. CASE e \in found
    BY <2>2, <2>3, <2>4, <2>5 DEF Upserted, DeviceThere
  <2>6. CASE e \notin found
    BY <2>1, <2>3, <2>6
  <2> QED
    BY <2>5, <2>6
<1>4. device' = device /\ DOMAIN entity' = Entities
      /\ entity' = [e \in Entities |-> entity'[e]]
  BY DEF ReplaceEntities
<1>5. GatewayTypeOK'
  BY <1>0, <1>2, <1>3, <1>4 DEF ReplaceEntities, GatewayTypeOK
<1>6. ReferencesLead'
  BY <1>0, <1>3, <1>4 DEF ReferencesLead
<1>7. StatusAgreesWithEnabled'
  BY DEF ReplaceEntities, GatewayIInv, GatewayInv, StatusAgreesWithEnabled
<1> QED
  BY <1>2, <1>5, <1>6, <1>7 DEF GatewayIInv, GatewayInv

LEMMA GrantKeeps ==
    ASSUME GatewayIInv, NEW a \in Admins, FinishGrant(a)
    PROVE  GatewayIInv'
<1>0. GatewayTypeOK /\ WhatWasRead
  BY DEF GatewayIInv, GatewayInv
<1>1. admin' \in [Admins -> Pending] /\ WhatWasRead'
  BY <1>0, RequestOver DEF FinishGrant
<1>2. admin[a].permission \in Permission
  BY <1>0, RequestFields DEF FinishGrant
<1>3. grant' \in [Entities \X Roles -> Permission]
  BY <1>0, <1>2 DEF FinishGrant, GatewayTypeOK
<1> QED
  BY <1>0, <1>1, <1>3 DEF FinishGrant, GatewayIInv, GatewayInv, GatewayTypeOK,
     StatusAgreesWithEnabled, ReferencesLead

-----------------------------------------------------------------------------
(* The requests that only begin, go on or end *)

LEMMA ReadKeeps ==
    ASSUME GatewayIInv, NEW a \in Admins,
           StartTest(a) \/ \E patch \in Patches : ReadForUpdate(a, patch)
    PROVE  GatewayIInv'
<1>0. GatewayTypeOK /\ WhatWasRead /\ integration \in Integration /\ StatusAgreesWithEnabled
  BY DEF GatewayIInv, GatewayInv, GatewayTypeOK
<1>1. ASSUME StartTest(a)
      PROVE  admin' \in [Admins -> Pending] /\ WhatWasRead'
  <2> DEFINE r == [op |-> "test", read |-> integration]
  <2>1. r \in Pending /\ r.op = "test" /\ r.read = integration
    BY <1>0 DEF Pending
  <2>2. integration.phase = "live" /\ integration.enabled /\ integration.status # "disabled"
    BY <1>1 DEF StartTest, Live, Usable
  <2>3. Become(a, r)
    BY <1>1 DEF StartTest
  <2> HIDE DEF r
  <2> QED
    BY <1>0, <2>1, <2>2, <2>3, RequestWritten
<1>2. ASSUME NEW patch \in Patches, ReadForUpdate(a, patch)
      PROVE  admin' \in [Admins -> Pending] /\ WhatWasRead'
  <2> DEFINE r == [op |-> "update", read |-> integration, patch |-> patch]
  <2>1. r \in Pending /\ r.op = "update" /\ r.read = integration
    BY <1>0 DEF Pending
  <2>2. /\ integration.phase = "live"
        /\ integration.enabled <=> integration.status # "disabled"
    BY <1>0, <1>2 DEF ReadForUpdate, Live, StatusAgreesWithEnabled
  <2>3. Become(a, r)
    BY <1>2 DEF ReadForUpdate
  <2> HIDE DEF r
  <2> QED
    BY <1>0, <2>1, <2>2, <2>3, RequestWritten
<1>3. admin' \in [Admins -> Pending] /\ WhatWasRead'
  BY <1>1, <1>2
<1>4. UNCHANGED <<integration, device, entity, grant, tokens, discoveries>>
  BY DEF StartTest, ReadForUpdate
<1> QED
  BY <1>3, <1>4 DEF GatewayIInv, GatewayInv, GatewayTypeOK, StatusAgreesWithEnabled, ReferencesLead

LEMMA RequestKeeps ==
    ASSUME GatewayIInv, NEW a \in Admins,
           \/ StartDelete(a) \/ DeleteEntities(a) \/ DeleteDevices(a)
           \/ StartDiscover(a) \/ LookUpDevices(a)
           \/ \E found \in SUBSET Entities : Found(a, found)
           \/ \E e \in Entities, role \in Roles, commands \in SUBSET Commands :
                StartGrant(a, e, role, commands)
           \/ Abandon(a)
    PROVE  GatewayIInv'
<1>0. discoveries \in 0 .. MaxDiscoveries
  BY DEF GatewayIInv, GatewayInv, GatewayTypeOK
<1>1. CASE StartDelete(a)
  <2> DEFINE r == [op |-> "granted", grants |-> {k \in Entities \X Roles : grant[k].live},
                  entities |-> {}, devices |-> {}]
  <2>1. r \in Pending /\ r.op = "granted"
    BY DEF Pending
  <2>2. Become(a, r) /\ UNCHANGED <<integration, device, entity, grant, tokens, discoveries>>
    BY <1>1 DEF StartDelete
  <2> HIDE DEF r
  <2> QED
    BY <1>0, <2>1, <2>2, QuietStep
<1>2. CASE StartDiscover(a)
  <2>1. [op |-> "find"] \in Pending
    BY DEF Pending
  <2> QED
    BY <1>0, <1>2, <2>1, QuietStep DEF StartDiscover
<1>3. ASSUME NEW found \in SUBSET Entities, Found(a, found)
      PROVE  GatewayIInv'
  <2> DEFINE r == [op |-> "devices", found |-> found, id |-> discoveries + 1]
  <2>1. discoveries + 1 \in 1 .. MaxDiscoveries /\ discoveries' \in 0 .. MaxDiscoveries
    BY <1>0, <1>3, GatewayAssumption DEF Found
  <2>2. r \in Pending /\ r.op = "devices"
    BY <2>1 DEF Pending
  <2>3. Become(a, r) /\ UNCHANGED <<integration, device, entity, grant, tokens>>
    BY <1>3 DEF Found
  <2> HIDE DEF r
  <2> QED
    BY <2>1, <2>2, <2>3, QuietStep
<1>4. ASSUME NEW e \in Entities, NEW role \in Roles, NEW commands \in SUBSET Commands,
             StartGrant(a, e, role, commands)
      PROVE  GatewayIInv'
  <2> DEFINE p == [live |-> TRUE, commands |-> commands]
             r == [op |-> "grant", entity |-> e, role |-> role, permission |-> p]
  <2>1. p \in Permission
    BY DEF Permission
  <2>2. Become(a, r) /\ UNCHANGED <<integration, device, entity, grant, tokens, discoveries>>
    BY <1>4 DEF StartGrant
  <2> HIDE DEF p
  <2>3. r \in Pending /\ r.op = "grant"
    BY <2>1 DEF Pending
  <2> HIDE DEF r
  <2> QED
    BY <1>0, <2>2, <2>3, QuietStep
<1>5. CASE Abandon(a)
  <2>1. Idle \in Pending /\ Idle.op = "idle"
    BY DEF Pending, Idle
  <2> QED
    BY <1>0, <1>5, <2>1, QuietStep DEF Abandon
<1>6. CASE DeleteEntities(a) \/ DeleteDevices(a)
  <2> DEFINE D == [op : {"granted", "listed", "delete"}, grants : SUBSET (Entities \X Roles),
                   entities : SUBSET Entities, devices : SUBSET HADevices]
             r == IF DeleteEntities(a)
                  THEN [admin[a] EXCEPT !.op = "listed",
                                        !.entities = {e \in Entities : entity[e].live}]
                  ELSE [admin[a] EXCEPT !.op = "delete",
                                        !.devices = {x \in HADevices : device[x].live}]
  <2>1. admin[a] \in Pending /\ admin[a].op \in {"granted", "listed"}
    BY <1>6, RequestFields DEF DeleteEntities, DeleteDevices, GatewayIInv, GatewayInv
  <2>2. admin[a] \in D
    BY <2>1 DEF Pending, Idle
  <2>3. r \in D /\ r.op \in {"listed", "delete"}
    BY <2>2
  <2>4. r \in Pending
    BY <2>3 DEF Pending
  <2>5. Become(a, r) /\ UNCHANGED <<integration, device, entity, grant, tokens, discoveries>>
    BY <1>6 DEF DeleteEntities, DeleteDevices
  <2> HIDE DEF D, r
  <2> QED
    BY <1>0, <2>3, <2>4, <2>5, QuietStep
<1>7. CASE LookUpDevices(a)
  <2> DEFINE r == [admin[a] EXCEPT !.op = "attach"]
  <2>1. admin[a] \in [op : {"devices", "entities", "attach"}, found : SUBSET Entities,
                      id : 1 .. MaxDiscoveries]
    BY <1>7, RequestFields DEF LookUpDevices, GatewayIInv, GatewayInv, Pending, Idle
  <2>2. r \in Pending /\ r.op = "attach"
    BY <2>1 DEF Pending
  <2>3. Become(a, r) /\ UNCHANGED <<integration, device, entity, grant, tokens, discoveries>>
    BY <1>7 DEF LookUpDevices
  <2> HIDE DEF r
  <2> QED
    BY <1>0, <2>2, <2>3, QuietStep
<1> QED
  BY <1>1, <1>2, <1>3, <1>4, <1>5, <1>6, <1>7

-----------------------------------------------------------------------------
(* The theorems *)

LEMMA GatewayIInvInit == GatewayInit => GatewayIInv
<1> SUFFICES ASSUME GatewayInit PROVE GatewayIInv
  OBVIOUS
<1>1. GatewayTypeOK
  BY GatewayAssumption
  DEF GatewayInit, GatewayTypeOK, Integration, Statuses, NoPermission, Permission, Pending
<1>2. StatusAgreesWithEnabled /\ ReferencesLead /\ WhatWasRead
  BY DEF GatewayInit, StatusAgreesWithEnabled, ReferencesLead, WhatWasRead, Idle
<1> QED
  BY <1>1, <1>2 DEF GatewayIInv, GatewayInv

LEMMA GatewayIInvStep == GatewayIInv /\ [GatewayNext]_gatewayVars => GatewayIInv'
<1> SUFFICES ASSUME GatewayIInv, [GatewayNext]_gatewayVars PROVE GatewayIInv'
  OBVIOUS
<1>1. CASE UNCHANGED gatewayVars
  BY <1>1 DEF gatewayVars, GatewayIInv, GatewayInv, GatewayTypeOK, StatusAgreesWithEnabled,
     ReferencesLead, WhatWasRead
<1>2. CASE GatewayNext
  BY <1>2, CreateKeeps, UpdateKeeps, TestKeeps, DeleteKeeps, DevicesKeep, EntitiesKeep,
     GrantKeeps, ReadKeeps, RequestKeeps
  DEF GatewayNext
<1> QED
  BY <1>1, <1>2

\* What an admin sees of the integration is consistent, however the requests that
\* read it, call Home Assistant and write it overlap: enabled and status agree, and
\* an entity's device reference leads to the row of its own device.
THEOREM IntegrationIsConsistent == GatewaySpec => []GatewayInv
<1>1. GatewayIInv => GatewayInv
  BY DEF GatewayIInv
<1> QED
  BY <1>1, GatewayIInvInit, GatewayIInvStep, PTL DEF GatewaySpec

\* A request that was under way when the integration was deleted neither brings it
\* back nor changes it.
THEOREM DeletedForGood == GatewaySpec => DeletionIsFinal
<1>1. ASSUME GatewayNext, integration.phase = "deleted"
      PROVE  integration' = integration
  BY <1>1
  DEF GatewayNext, CreateIntegration, ReadForUpdate, WriteUpdate, StartTest, EndTest, StartDelete,
      DeleteEntities, DeleteDevices, FinishDelete, StartDiscover, LookUpDevices, Found,
      ReplaceDevices, ReplaceEntities, StartGrant, FinishGrant, Abandon, Written, Live
<1>2. [GatewayNext]_gatewayVars =>
        [integration.phase = "deleted" => integration' = integration]_gatewayVars
  BY <1>1
<1> QED
  BY <1>2, PTL DEF GatewaySpec, DeletionIsFinal
=============================================================================
