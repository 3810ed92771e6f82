------------------------------- MODULE Gateway -------------------------------
(***************************************************************************)
(* The Home Assistant integration of a family: its address and token, the  *)
(* devices and entities discovered through it, and the commands a role may *)
(* give to an entity.                                                      *)
(*                                                                         *)
(* The requests of owners and admins read the integration, call Home       *)
(* Assistant and write, each in a statement or a READ COMMITTED            *)
(* transaction of its own, so what they read may be outdated when they     *)
(* write.  A deletion holds the rows it has seen until it commits.         *)
(***************************************************************************)
EXTENDS Naturals

CONSTANTS
    Entities,       \* entity ids Home Assistant may report
    HADevices,      \* devices Home Assistant may report
    DeviceOf,       \* DeviceOf[e]: the device of e, or NoDevice
    NoDevice,
    Roles,
    Commands,
    Admins,         \* connections of owners and admins
    Patches,        \* what an update may change: "token", "disable", "enable"
    MaxToken,       \* bound on the tokens issued
    MaxDiscoveries  \* bound on the discoveries

ASSUME GatewayAssumption ==
    /\ NoDevice \notin HADevices
    /\ DeviceOf \in [Entities -> HADevices \cup {NoDevice}]
    /\ Patches \subseteq {"token", "disable", "enable"}
    /\ MaxToken \in Nat \ {0} /\ MaxDiscoveries \in Nat

VARIABLES
    integration,  \* the row of ha_integrations
    device,       \* ha_devices: the id a device's row has (0: no row), and whether it is live
    entity,       \* ha_entities: the id of the device row referred to (0: none)
    grant,        \* ha_entity_permissions by entity and role
    admin,        \* admin[a]: the request a connection works on
    tokens,       \* number of tokens issued so far
    discoveries   \* number of discoveries so far; newID of their device rows

gatewayVars == <<integration, device, entity, grant, admin, tokens, discoveries>>

Statuses == {"unknown", "healthy", "unavailable", "invalid_credentials", "disabled"}

Integration == [phase : {"absent", "live", "deleted"}, enabled : BOOLEAN,
                status : Statuses, token : 0 .. MaxToken]

Permission == [live : BOOLEAN, commands : SUBSET Commands]

Idle == [op |-> "idle"]

Pending ==
    {Idle}
    \cup [op : {"update"}, read : Integration, patch : Patches]
    \cup [op : {"test"}, read : Integration]
    \cup [op : {"find"}]
    \cup [op : {"devices", "entities", "attach"}, found : SUBSET Entities, id : 1 .. MaxDiscoveries]
    \cup [op : {"grant"}, entity : Entities, role : Roles, permission : Permission]
    \cup [op : {"granted", "listed", "delete"}, grants : SUBSET (Entities \X Roles),
          entities : SUBSET Entities, devices : SUBSET HADevices]

GatewayTypeOK ==
    /\ integration \in Integration
    /\ device \in [HADevices -> [id : 0 .. MaxDiscoveries, live : BOOLEAN]]
    /\ entity \in [Entities -> [known : BOOLEAN, live : BOOLEAN, device : 0 .. MaxDiscoveries]]
    /\ grant \in [Entities \X Roles -> Permission]
    /\ admin \in [Admins -> Pending]
    /\ tokens \in 0 .. MaxToken
    /\ discoveries \in 0 .. MaxDiscoveries

NoPermission == [live |-> FALSE, commands |-> {}]

GatewayInit ==
    /\ integration = [phase |-> "absent", enabled |-> FALSE, status |-> "unknown", token |-> 0]
    /\ device = [x \in HADevices |-> [id |-> 0, live |-> FALSE]]
    /\ entity = [e \in Entities |-> [known |-> FALSE, live |-> FALSE, device |-> 0]]
    /\ grant = [k \in Entities \X Roles |-> NoPermission]
    /\ admin = [a \in Admins |-> Idle]
    /\ tokens = 0
    /\ discoveries = 0

-----------------------------------------------------------------------------
(* Reading *)

Live == integration.phase = "live"

\* integrationWithToken: enabled and with a token.
Usable(row) == row.enabled /\ row.status # "disabled" /\ row.token > 0

Deleting(a) == admin[a].op \in {"granted", "listed", "delete"}
Attaching(a) == admin[a].op = "attach"

\* The rows a deletion or the second half of a discovery has locked.
EntitiesHeld ==
    UNION {admin[a].entities : a \in {b \in Admins : Deleting(b)}}
    \cup UNION {admin[a].found : a \in {b \in Admins : Attaching(b)}}
DevicesHeld == UNION {admin[a].devices : a \in {b \in Admins : Deleting(b)}}
GrantsHeld == UNION {admin[a].grants : a \in {b \in Admins : Deleting(b)}}
IntegrationHeld == \E a \in Admins : Attaching(a)

-----------------------------------------------------------------------------
(* The integration's own row *)

Become(a, request) == admin' = [admin EXCEPT ![a] = request]

NewIntegration == [phase |-> "live", enabled |-> TRUE, status |-> "unknown", token |-> 1]

CreateIntegration ==
    /\ integration.phase = "absent"
    /\ integration' = NewIntegration
    /\ tokens' = 1
    /\ UNCHANGED <<device, entity, grant, admin, discoveries>>

\* UpdateIntegration reads the row ...
ReadForUpdate(a, patch) ==
    /\ admin[a] = Idle /\ Live
    /\ patch = "token" => tokens < MaxToken
    /\ Become(a, [op |-> "update", read |-> integration, patch |-> patch])
    /\ UNCHANGED <<integration, device, entity, grant, tokens, discoveries>>

Patched(row, patch) ==
    CASE patch = "token" -> [row EXCEPT !.token = tokens + 1]
      [] patch = "disable" -> [row EXCEPT !.enabled = FALSE, !.status = "disabled"]
      [] patch = "enable" ->
           [row EXCEPT !.enabled = TRUE,
                       !.status = IF row.status = "disabled" THEN "unknown" ELSE row.status]

\* Mutant: the row is written whether it is still there or not.
WrittenBlindly(row) == integration' = row

\* UPDATE ... SET every column ... WHERE deleted_at IS NULL.
Written(row) == integration' = IF Live THEN row ELSE integration

\* ... and writes all of it.
WriteUpdate(a) ==
    /\ admin[a].op = "update" /\ ~IntegrationHeld
    /\ admin[a].patch = "token" => tokens < MaxToken
    /\ Written(Patched(admin[a].read, admin[a].patch))
    /\ tokens' = IF admin[a].patch = "token" THEN tokens + 1 ELSE tokens
    /\ Become(a, Idle)
    /\ UNCHANGED <<device, entity, grant, discoveries>>

StartTest(a) ==
    /\ admin[a] = Idle /\ Live /\ Usable(integration)
    /\ Become(a, [op |-> "test", read |-> integration])
    /\ UNCHANGED <<integration, device, entity, grant, tokens, discoveries>>

\* Mutant: only the status is written, over whatever the row says by then.
TestedNow(row, status) == [integration EXCEPT !.status = status]

Tested(row, status) == [row EXCEPT !.status = status]

\* What a client's answer, or its absence, says about the connection.
TestStatuses == {"healthy", "unavailable", "invalid_credentials"}

\* TestIntegration writes the row it read before the call, with a new status.
EndTest(a, status) ==
    /\ admin[a].op = "test" /\ ~IntegrationHeld
    /\ Written(Tested(admin[a].read, status))
    /\ Become(a, Idle)
    /\ UNCHANGED <<device, entity, grant, tokens, discoveries>>

\* Delete: each statement sees, and then holds, the live rows of its table ...
StartDelete(a) ==
    /\ admin[a] = Idle /\ Live
    /\ GrantsHeld = {}
    /\ Become(a, [op |-> "granted", grants |-> {k \in Entities \X Roles : grant[k].live},
                  entities |-> {}, devices |-> {}])
    /\ UNCHANGED <<integration, device, entity, grant, tokens, discoveries>>

DeleteEntities(a) ==
    /\ admin[a].op = "granted" /\ EntitiesHeld = {}
    /\ Become(a, [admin[a] EXCEPT !.op = "listed",
                                  !.entities = {e \in Entities : entity[e].live}])
    /\ UNCHANGED <<integration, device, entity, grant, tokens, discoveries>>

DeleteDevices(a) ==
    /\ admin[a].op = "listed" /\ DevicesHeld = {}
    /\ Become(a, [admin[a] EXCEPT !.op = "delete",
                                  !.devices = {x \in HADevices : device[x].live}])
    /\ UNCHANGED <<integration, device, entity, grant, tokens, discoveries>>

\* ... and the integration's own row comes last.
FinishDelete(a) ==
    /\ admin[a].op = "delete" /\ Live /\ ~IntegrationHeld
    /\ integration' = [integration EXCEPT !.phase = "deleted", !.enabled = FALSE,
                                          !.status = "disabled"]
    /\ device' = [x \in HADevices |->
         IF x \in admin[a].devices THEN [device[x] EXCEPT !.live = FALSE] ELSE device[x]]
    /\ entity' = [e \in Entities |->
         IF e \in admin[a].entities THEN [entity[e] EXCEPT !.live = FALSE] ELSE entity[e]]
    /\ grant' = [k \in Entities \X Roles |->
         IF k \in admin[a].grants THEN [grant[k] EXCEPT !.live = FALSE] ELSE grant[k]]
    /\ Become(a, Idle)
    /\ UNCHANGED <<tokens, discoveries>>

-----------------------------------------------------------------------------
(* Discovery *)

StartDiscover(a) ==
    /\ admin[a] = Idle /\ Live /\ Usable(integration)
    /\ Become(a, [op |-> "find"])
    /\ UNCHANGED <<integration, device, entity, grant, tokens, discoveries>>

\* Home Assistant answers; rows get new ids.
Found(a, found) ==
    /\ admin[a].op = "find"
    /\ discoveries < MaxDiscoveries
    /\ discoveries' = discoveries + 1
    /\ Become(a, [op |-> "devices", found |-> found, id |-> discoveries + 1])
    /\ UNCHANGED <<integration, device, entity, grant, tokens>>

Reported(found) == {DeviceOf[e] : e \in found} \ {NoDevice}

\* upsertDevice: entities let go of a device row before its id changes.
Detached(found) ==
    [e \in Entities |->
       IF DeviceOf[e] \in Reported(found) THEN [entity[e] EXCEPT !.device = 0] ELSE entity[e]]

\* DeviceRepository.ReplaceForIntegration
ReplaceDevices(a) ==
    /\ admin[a].op = "devices"
    /\ {x \in HADevices : device[x].live} \cup Reported(admin[a].found) \subseteq
         HADevices \ DevicesHeld
    /\ {e \in Entities : entity[e].device # 0 /\ DeviceOf[e] \in Reported(admin[a].found)}
         \cap EntitiesHeld = {}
    /\ device' = [x \in HADevices |->
         IF x \in Reported(admin[a].found) THEN [id |-> admin[a].id, live |-> TRUE]
         ELSE [device[x] EXCEPT !.live = FALSE]]
    /\ entity' = Detached(admin[a].found)
    /\ Become(a, [admin[a] EXCEPT !.op = "entities"])
    /\ UNCHANGED <<integration, grant, tokens, discoveries>>

\* The row of the entity's device has this discovery's id.
DeviceThere(e, id) == DeviceOf[e] # NoDevice => device[DeviceOf[e]].id = id

DeviceLive(e) == DeviceOf[e] # NoDevice => device[DeviceOf[e]].live

\* EntityRepository.ReplaceForIntegration locks the integration and the entities and
\* looks the devices up ...
LookUpDevices(a) ==
    /\ admin[a].op = "entities"
    /\ Live /\ ~IntegrationHeld
    /\ {e \in admin[a].found : entity[e].known} \subseteq Entities \ EntitiesHeld
    /\ \A e \in admin[a].found : DeviceThere(e, admin[a].id) /\ DeviceLive(e)
    /\ Become(a, [admin[a] EXCEPT !.op = "attach"])
    /\ UNCHANGED <<integration, device, entity, grant, tokens, discoveries>>

\* upsertEntity
Upserted(e, id) ==
    [known |-> TRUE, live |-> TRUE, device |-> IF DeviceOf[e] = NoDevice THEN 0 ELSE id]

\* ... and writes.  By then another discovery may have deleted a device; one that
\* has given it another id makes ha_entities_device_fk refuse the write.
ReplaceEntities(a) ==
    /\ admin[a].op = "attach"
    /\ {e \in Entities : entity[e].live} \cap
         UNION {admin[b].entities : b \in {c \in Admins : Deleting(c)}} = {}
    /\ \A e \in admin[a].found : DeviceThere(e, admin[a].id)
    /\ entity' = [e \in Entities |->
         IF e \in admin[a].found THEN Upserted(e, admin[a].id)
         ELSE [entity[e] EXCEPT !.live = FALSE]]
    /\ Become(a, Idle)
    /\ UNCHANGED <<integration, device, grant, tokens, discoveries>>

-----------------------------------------------------------------------------
(* Permissions *)

\* The statement of Upsert takes the entity as it is ...
StartGrant(a, e, role, commands) ==
    /\ admin[a] = Idle
    /\ entity[e].live
    /\ Become(a, [op |-> "grant", entity |-> e, role |-> role,
                  permission |-> [live |-> TRUE, commands |-> commands]])
    /\ UNCHANGED <<integration, device, entity, grant, tokens, discoveries>>

\* ... and writes when no deletion holds the row.
FinishGrant(a) ==
    /\ admin[a].op = "grant"
    /\ <<admin[a].entity, admin[a].role>> \notin GrantsHeld
    /\ grant' = [grant EXCEPT ![<<admin[a].entity, admin[a].role>>] = admin[a].permission]
    /\ Become(a, Idle)
    /\ UNCHANGED <<integration, device, entity, tokens, discoveries>>

\* A call, a statement or the process fails, or the request is cancelled.
Abandon(a) ==
    /\ admin[a] # Idle
    /\ Become(a, Idle)
    /\ UNCHANGED <<integration, device, entity, grant, tokens, discoveries>>

-----------------------------------------------------------------------------

GatewayNext ==
    \/ CreateIntegration
    \/ \E a \in Admins :
         \/ \E patch \in Patches : ReadForUpdate(a, patch)
         \/ WriteUpdate(a)
         \/ StartTest(a)
         \/ \E status \in TestStatuses : EndTest(a, status)
         \/ StartDelete(a)
         \/ DeleteEntities(a)
         \/ DeleteDevices(a)
         \/ FinishDelete(a)
         \/ StartDiscover(a)
         \/ \E found \in SUBSET Entities : Found(a, found)
         \/ ReplaceDevices(a)
         \/ LookUpDevices(a)
         \/ ReplaceEntities(a)
         \/ \E e \in Entities, role \in Roles, commands \in SUBSET Commands :
              StartGrant(a, e, role, commands)
         \/ FinishGrant(a)
         \/ Abandon(a)

GatewaySpec == GatewayInit /\ [][GatewayNext]_gatewayVars

-----------------------------------------------------------------------------
(* Properties *)

\* Enabled and status never disagree, although concurrent requests overwrite
\* each other's rows: a disabled integration is never shown as healthy, nor an
\* enabled one as disabled.
StatusAgreesWithEnabled ==
    integration.phase # "absent" => (integration.enabled <=> integration.status # "disabled")

\* A device reference always leads to the row of the entity's own device, whatever
\* discoveries and their failures do to the ids of the rows: no discovery needs
\* ha_entities_device_fk to refuse it the ids it gives, and fail for that.
ReferencesLead ==
    \A e \in Entities : entity[e].device # 0 =>
        DeviceOf[e] # NoDevice /\ device[DeviceOf[e]].id = entity[e].device

\* What an admin sees of the integration is consistent, whatever requests overlap.
GatewayInv == GatewayTypeOK /\ StatusAgreesWithEnabled /\ ReferencesLead

\* A request under way when the integration is deleted cannot bring it back, nor
\* enable it or give it another token.
DeletionIsFinal ==
    [][integration.phase = "deleted" => integration' = integration]_gatewayVars
=============================================================================
