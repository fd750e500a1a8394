------------------------------- MODULE Backends -------------------------------
(***************************************************************************)
(* The stores the device handlers write to, as the code in api/internal    *)
(* sees them: the IoT Agent (service groups and devices), Orion-LD         *)
(* (subscriptions and entities) and the Redis table device:<imei>.  None   *)
(* of them shares a transaction with another, so every HTTP or Redis call  *)
(* is one action here.                                                     *)
(*                                                                         *)
(* The last argument of a call, ok, is what the Go client returns: TRUE    *)
(* for a nil error.  A call that fails (ok = FALSE) may have been refused  *)
(* or may have taken effect and lost its reply; the client cannot tell.    *)
(*                                                                         *)
(* The module also has the one other writer of Orion: a position message   *)
(* that Bento routed by the Redis table and the IoT Agent delivers later.  *)
(***************************************************************************)
EXTENDS Naturals, FiniteSets

CONSTANTS
    Tenants,               \* CVR numbers, one per municipality
    Imeis,                 \* device identifiers
    Types,                 \* device types a service group is made for
    NoTenant,              \* "no device:<imei> key" (redis.Nil)
    Nothing,               \* "no type", "no loop element being worked on"
    MaxInflight,           \* bound on messages between Bento and the IoT Agent
    AgentSkipsDuplicates,  \* TRUE: a batch answered 409 still stores the rest
    AgentDropsUnknown      \* FALSE: the IoT Agent provisions an unknown device
                           \*   by itself when a message of it arrives

ASSUME BackendsAssumption ==
    /\ IsFiniteSet(Imeis)
    /\ NoTenant \notin Tenants
    /\ Nothing \notin Types
    /\ MaxInflight \in Nat
    /\ {AgentSkipsDuplicates, AgentDropsUnknown} \subseteq BOOLEAN

VARIABLES
    groups,      \* IoT Agent: service groups <<tenant, type>>
    agent,       \* IoT Agent: devices <<tenant, imei>>
    subs,        \* Orion: tenants with a QuantumLeap subscription
    entities,    \* Orion: GPSTracker entities <<tenant, imei>>
    metadata,    \* Orion: the entities that carry attributes set by PATCH
    redis,       \* Redis: device:<imei> -> tenant
    inflight     \* routed position messages <<tenant, imei>>

backendVars == <<groups, agent, subs, entities, metadata, redis, inflight>>

Device == Tenants \X Imeis

BackendsTypeOK ==
    /\ groups \subseteq Tenants \X Types
    /\ agent \subseteq Device
    /\ subs \subseteq Tenants
    /\ entities \subseteq Device
    /\ metadata \subseteq entities
    /\ redis \in [Imeis -> Tenants \cup {NoTenant}]
    /\ inflight \subseteq Device

BackendsInit ==
    /\ groups = {} /\ agent = {} /\ subs = {}
    /\ entities = {} /\ metadata = {} /\ inflight = {}
    /\ redis = [i \in Imeis |-> NoTenant]

-------------------------------------------------------------------------------
(* IoT Agent: iotagent.go *)

\* POST /iot/services.  Only 201 is success: the 409 of a group that exists
\* is an error to the caller.
CreateServiceGroup(t, ty, ok) ==
    /\ \/ <<t, ty>> \notin groups /\ groups' = groups \cup {<<t, ty>>}
       \/ ~ok /\ UNCHANGED groups
    /\ UNCHANGED <<agent, subs, entities, metadata, redis, inflight>>

\* POST /iot/devices with the whole batch B; 201 and 409 are both success.
\* 409 means that some device of the batch existed: what became of the others
\* is the agent's business (AgentSkipsDuplicates).
CreateDevices(t, B, ok) ==
    LET fresh == {i \in B : <<t, i>> \notin agent}
    IN  /\ \E S \in SUBSET fresh :
              /\ ok => S = fresh \/ (fresh # B /\ ~AgentSkipsDuplicates)
              /\ agent' = agent \cup {<<t, i>> : i \in S}
        /\ UNCHANGED <<groups, subs, entities, metadata, redis, inflight>>

\* Mutant: any status of the agent is taken for success.
BuggyDeleteDevice(t, i, ok) ==
    /\ agent' = agent \ {<<t, i>>} \/ UNCHANGED agent
    /\ UNCHANGED <<groups, subs, entities, metadata, redis, inflight>>

\* DELETE /iot/devices/<imei>; 204 and 404 are both success.
DeleteDevice(t, i, ok) ==
    /\ \/ agent' = agent \ {<<t, i>>}
       \/ ~ok /\ UNCHANGED agent
    /\ UNCHANGED <<groups, subs, entities, metadata, redis, inflight>>

-------------------------------------------------------------------------------
(* Orion-LD: orion.go *)

\* POST /subscriptions with an id fixed by the tenant; 409 is an error.
CreateSubscription(t, ok) ==
    /\ \/ t \notin subs /\ subs' = subs \cup {t}
       \/ ~ok /\ UNCHANGED subs
    /\ UNCHANGED <<groups, agent, entities, metadata, redis, inflight>>

\* POST /entities; 201 and 409 are both success, 409 keeps the old entity.
CreateEntity(t, i, ok) ==
    /\ \/ entities' = entities \cup {<<t, i>>}
       \/ ~ok /\ UNCHANGED entities
    /\ UNCHANGED <<groups, agent, subs, metadata, redis, inflight>>

\* POST /entities/<id>/attrs; fails for an entity that does not exist.  A
\* request whose metadata is empty makes no call and succeeds.
UpdateEntity(t, i, empty, ok) ==
    /\ \/ <<t, i>> \in entities /\ ~empty /\ metadata' = metadata \cup {<<t, i>>}
       \/ empty = ok /\ UNCHANGED metadata
    /\ UNCHANGED <<groups, agent, subs, entities, redis, inflight>>

\* Mutant: the attributes stay behind.
BuggyDeleteEntity(t, i, ok) ==
    /\ \/ entities' = entities \ {<<t, i>>}
       \/ ~ok /\ UNCHANGED entities
    /\ UNCHANGED <<groups, agent, subs, metadata, redis, inflight>>

\* DELETE /entities/<id>; 204 and 404 are both success.
DeleteEntity(t, i, ok) ==
    /\ \/ /\ entities' = entities \ {<<t, i>>}
          /\ metadata' = metadata \ {<<t, i>>}
       \/ ~ok /\ UNCHANGED <<entities, metadata>>
    /\ UNCHANGED <<groups, agent, subs, redis, inflight>>

\* What GET /devices answers to tenant t.
QueryDevices(t) == {i \in Imeis : <<t, i>> \in entities}

-------------------------------------------------------------------------------
(* Redis: device/store.go *)

\* SET device:<imei> <tenant> without NX: it overwrites.
setDeviceTenant(t, i, ok) ==
    /\ \/ redis' = [redis EXCEPT ![i] = t]
       \/ ~ok /\ UNCHANGED redis
    /\ UNCHANGED <<groups, agent, subs, entities, metadata, inflight>>

\* DEL device:<imei>, whoever it belongs to by now.
deleteDeviceTenantMapping(i, ok) ==
    /\ \/ redis' = [redis EXCEPT ![i] = NoTenant]
       \/ ~ok /\ UNCHANGED redis
    /\ UNCHANGED <<groups, agent, subs, entities, metadata, inflight>>

-------------------------------------------------------------------------------
(* The position pipeline, seen from the stores *)

\* bento/config.yaml looks the IMEI up and publishes for the tenant it finds.
RouteMessage(i) ==
    /\ redis[i] # NoTenant
    /\ Cardinality(inflight) < MaxInflight
    /\ inflight' = inflight \cup {<<redis[i], i>>}
    /\ UNCHANGED <<groups, agent, subs, entities, metadata, redis>>

\* The IoT Agent writes the measure of a device it knows to Orion, which makes
\* the entity if there is none.  What it does with a message of another device
\* is its configuration, which src/ does not settle: it drops the message, or
\* it provisions the device under the service group the message names.
DeliverMessage(t, i) ==
    /\ <<t, i>> \in inflight
    /\ inflight' = inflight \ {<<t, i>>}
    /\ \/ /\ <<t, i>> \in agent
          /\ entities' = entities \cup {<<t, i>>}
          /\ UNCHANGED agent
       \/ <<t, i>> \notin agent /\ UNCHANGED <<agent, entities>>
       \/ /\ ~AgentDropsUnknown /\ <<t, i>> \notin agent
          /\ \E ty \in Types : <<t, ty>> \in groups
          /\ agent' = agent \cup {<<t, i>>}
          /\ entities' = entities \cup {<<t, i>>}
    /\ UNCHANGED <<groups, subs, metadata, redis>>

===============================================================================
