---------------------------- MODULE DeviceHandlers ----------------------------
(***************************************************************************)
(* The handlers of POST, PATCH and DELETE /devices                         *)
(* (api/internal/device/devices.go), run by any number of requests at      *)
(* once, in one API replica or in several: they share nothing but the      *)
(* stores of module Backends.  Each call to a store is one step, so other  *)
(* requests, position messages and crashes come between any two of them.   *)
(*                                                                         *)
(* A request that fails validation returns 400 before any call and is not  *)
(* modelled: Start takes the requests that pass (a set of IMEIs has no     *)
(* duplicate and is not empty).  The tenant is the CVR of the caller's     *)
(* token.  When a request ends its slot is free for the next one, so the   *)
(* client may go on for ever, retries included.                            *)
(***************************************************************************)
EXTENDS Backends

CONSTANTS
    Requests,   \* slots for requests in progress
    Overlap     \* which requests in progress may name the same IMEI:
                \*   "none", "tenant" (those of one tenant) or "any"

ASSUME HandlersAssumption ==
    /\ Nothing \notin Imeis
    /\ Overlap \in {"none", "tenant", "any"}

VARIABLES
    pc,        \* the call a request makes next
    op,        \* which handler
    tenant,    \* the caller
    devs,      \* the IMEIs the request names
    kind,      \* the device_type a create gives for each of them
    types,     \* service groups the current loop over byServiceGroup has left
    todo,      \* IMEIs the current loop has left
    batch,     \* toProvision
    cur,       \* the type or IMEI between two calls about it
    failed,    \* the keys of failedGroups
    result     \* status of each IMEI so far

requestVars == <<pc, op, tenant, devs, kind, types, todo, batch, cur, failed, result>>
vars == <<backendVars, requestVars>>

Ops == {"create", "update", "delete"}
Labels == {"idle", "group", "mkgroup", "sub", "mksub", "batch", "lookup",
           "agent", "map", "entity", "update", "unagent", "unentity", "unmap", "reply"}
Statuses == {"none", "created", "already_registered", "conflict", "error",
             "updated", "deleted", "not_found"}

RequestsTypeOK ==
    /\ pc \in [Requests -> Labels]
    /\ op \in [Requests -> Ops]
    /\ tenant \in [Requests -> Tenants \cup {NoTenant}]
    /\ devs \in [Requests -> SUBSET Imeis]
    /\ kind \in [Requests -> [Imeis -> Types \cup {Nothing}]]
    /\ \A r \in Requests : op[r] = "create" => \A i \in devs[r] : kind[r][i] \in Types
    /\ types \in [Requests -> SUBSET Types]
    /\ todo \in [Requests -> SUBSET Imeis]
    /\ batch \in [Requests -> SUBSET Imeis]
    /\ cur \in [Requests -> Types \cup Imeis \cup {Nothing}]
    /\ failed \in [Requests -> SUBSET Types]
    /\ result \in [Requests -> [Imeis -> Statuses]]

TypeOK == BackendsTypeOK /\ RequestsTypeOK

Init ==
    /\ BackendsInit
    /\ pc = [r \in Requests |-> "idle"]
    /\ op = [r \in Requests |-> "create"]
    /\ tenant = [r \in Requests |-> NoTenant]
    /\ devs = [r \in Requests |-> {}]
    /\ kind = [r \in Requests |-> [i \in Imeis |-> Nothing]]
    /\ types = [r \in Requests |-> {}]
    /\ todo = [r \in Requests |-> {}]
    /\ batch = [r \in Requests |-> {}]
    /\ cur = [r \in Requests |-> Nothing]
    /\ failed = [r \in Requests |-> {}]
    /\ result = [r \in Requests |-> [i \in Imeis |-> "none"]]

Active(r) == pc[r] # "idle"

\* The keys of byServiceGroup.
TypesOf(r) == {kind[r][i] : i \in devs[r]}

-------------------------------------------------------------------------------
(* The start and the end of a request *)

\* Whether a request of tenant t naming D may start next to those in progress.
MayStart(t, D) ==
    \A q \in Requests : Active(q) /\ devs[q] \cap D # {} =>
        \/ Overlap = "any"
        \/ Overlap = "tenant" /\ tenant[q] = t

\* The device types a request can give: one for each IMEI of a create.
KindsOf(o, D) ==
    {k \in [Imeis -> Types \cup {Nothing}] :
        \A i \in Imeis : k[i] \in Types <=> o = "create" /\ i \in D}

Start(r, o, t, D, k) ==
    /\ pc[r] = "idle"
    /\ D # {}
    /\ MayStart(t, D)
    /\ op' = [op EXCEPT ![r] = o]
    /\ tenant' = [tenant EXCEPT ![r] = t]
    /\ devs' = [devs EXCEPT ![r] = D]
    /\ kind' = [kind EXCEPT ![r] = k]
    /\ types' = [types EXCEPT ![r] = IF o = "create" THEN {k[i] : i \in D} ELSE {}]
    /\ todo' = [todo EXCEPT ![r] = IF o = "create" THEN {} ELSE D]
    /\ pc' = [pc EXCEPT ![r] = IF o = "create" THEN "group" ELSE "lookup"]
    /\ UNCHANGED <<backendVars, batch, cur, failed, result>>

\* The slot of a request that ended: nothing of it is kept.
Clear(r) ==
    /\ pc' = [pc EXCEPT ![r] = "idle"]
    /\ op' = [op EXCEPT ![r] = "create"]
    /\ tenant' = [tenant EXCEPT ![r] = NoTenant]
    /\ devs' = [devs EXCEPT ![r] = {}]
    /\ kind' = [kind EXCEPT ![r] = [i \in Imeis |-> Nothing]]
    /\ types' = [types EXCEPT ![r] = {}]
    /\ todo' = [todo EXCEPT ![r] = {}]
    /\ batch' = [batch EXCEPT ![r] = {}]
    /\ cur' = [cur EXCEPT ![r] = Nothing]
    /\ failed' = [failed EXCEPT ![r] = {}]
    /\ result' = [result EXCEPT ![r] = [i \in Imeis |-> "none"]]
    /\ UNCHANGED backendVars

\* respond.JSON with 200, or 207 when some result is not a success.
Reply(r) == pc[r] = "reply" /\ Clear(r)

\* The replica dies between two calls and the client gets no response.
Crash(r) == pc[r] \notin {"idle", "reply"} /\ Clear(r)

-------------------------------------------------------------------------------
(* HandleCreate: service groups, then the subscription *)

\* Mutant: the group stays in the loop.
BuggyGroupDone(r, ty) ==
    /\ pc' = [pc EXCEPT ![r] = "group"]
    /\ cur' = [cur EXCEPT ![r] = Nothing]
    /\ UNCHANGED types

\* One round of "for k := range byServiceGroup": the type is dealt with.
GroupDone(r, ty) ==
    /\ types' = [types EXCEPT ![r] = @ \ {ty}]
    /\ pc' = [pc EXCEPT ![r] = IF types[r] = {ty} THEN "sub" ELSE "group"]
    /\ cur' = [cur EXCEPT ![r] = Nothing]

ServiceGroupExists(r, ty) ==
    /\ pc[r] = "group"
    /\ ty \in types[r]
    /\ \/ /\ <<tenant[r], ty>> \in groups
          /\ GroupDone(r, ty)
          /\ UNCHANGED failed
       \/ /\ <<tenant[r], ty>> \notin groups
          /\ pc' = [pc EXCEPT ![r] = "mkgroup"]
          /\ cur' = [cur EXCEPT ![r] = ty]
          /\ UNCHANGED <<types, failed>>
       \/ /\ failed' = [failed EXCEPT ![r] = @ \cup {ty}]
          /\ GroupDone(r, ty)
    /\ UNCHANGED <<backendVars, op, tenant, devs, kind, todo, batch, result>>

\* Mutant: a group that could not be made is not recorded in failedGroups.
BuggyMakeServiceGroup(r, ok) ==
    /\ pc[r] = "mkgroup"
    /\ CreateServiceGroup(tenant[r], cur[r], ok)
    /\ GroupDone(r, cur[r])
    /\ UNCHANGED <<op, tenant, devs, kind, todo, batch, failed, result>>

MakeServiceGroup(r, ok) ==
    /\ pc[r] = "mkgroup"
    /\ CreateServiceGroup(tenant[r], cur[r], ok)
    /\ failed' = [failed EXCEPT ![r] = IF ok THEN @ ELSE @ \cup {cur[r]}]
    /\ GroupDone(r, cur[r])
    /\ UNCHANGED <<op, tenant, devs, kind, todo, batch, result>>

\* The results with the same status for the IMEIs D.
WithStatus(r, D, status) ==
    [result EXCEPT ![r] = [i \in Imeis |-> IF i \in D THEN status ELSE @[i]]]

\* The subscription check went through: on to the second loop over the groups.
SubscriptionDone(r) ==
    /\ pc' = [pc EXCEPT ![r] = "batch"]
    /\ types' = [types EXCEPT ![r] = TypesOf(r)]
    /\ UNCHANGED result

\* It did not: every device of the request gets an error.
SubscriptionFailed(r) ==
    /\ pc' = [pc EXCEPT ![r] = "reply"]
    /\ result' = WithStatus(r, devs[r], "error")
    /\ UNCHANGED types

SubscriptionExists(r) ==
    /\ pc[r] = "sub"
    /\ \/ tenant[r] \in subs /\ SubscriptionDone(r)
       \/ tenant[r] \notin subs /\ pc' = [pc EXCEPT ![r] = "mksub"] /\ UNCHANGED <<types, result>>
       \/ SubscriptionFailed(r)
    /\ UNCHANGED <<backendVars, op, tenant, devs, kind, todo, batch, cur, failed>>

MakeSubscription(r, ok) ==
    /\ pc[r] = "mksub"
    /\ CreateSubscription(tenant[r], ok)
    /\ IF ok THEN SubscriptionDone(r) ELSE SubscriptionFailed(r)
    /\ UNCHANGED <<op, tenant, devs, kind, todo, batch, cur, failed>>

-------------------------------------------------------------------------------
(* The second loop over byServiceGroup, and the loops over IMEIs *)

\* Where a request goes when its loop over IMEIs has rest left to do.
LoopLabel(r, here, rest) ==
    IF rest # {} THEN here ELSE IF types[r] # {} THEN "batch" ELSE "reply"

\* The IMEIs D get a status and leave the loop.
Settle(r, D, status, here) ==
    /\ result' = WithStatus(r, D, status)
    /\ todo' = [todo EXCEPT ![r] = @ \ D]
    /\ pc' = [pc EXCEPT ![r] = LoopLabel(r, here, todo[r] \ D)]
    /\ cur' = [cur EXCEPT ![r] = Nothing]
    /\ UNCHANGED <<op, tenant, devs, kind, types, failed>>

\* The next service group: its devices get an error if it is in failedGroups,
\* and are looked up in Redis otherwise.
NextGroup(r, ty) ==
    LET D == {i \in devs[r] : kind[r][i] = ty}
    IN  /\ pc[r] = "batch"
        /\ ty \in types[r]
        /\ types' = [types EXCEPT ![r] = @ \ {ty}]
        /\ IF ty \in failed[r]
           THEN /\ result' = WithStatus(r, D, "error")
                /\ pc' = [pc EXCEPT ![r] = IF types[r] = {ty} THEN "reply" ELSE "batch"]
                /\ UNCHANGED todo
           ELSE /\ todo' = [todo EXCEPT ![r] = D]
                /\ pc' = [pc EXCEPT ![r] = "lookup"]
                /\ UNCHANGED result
        /\ UNCHANGED <<backendVars, op, tenant, devs, kind, batch, cur, failed>>

\* The last lookup of a group is done: the batch, if any, goes to the IoT Agent.
AfterLookup(r, rest, B) ==
    IF rest = {} /\ B # {} THEN "agent" ELSE LoopLabel(r, "lookup", rest)

\* Mutant: an IMEI that another tenant owns is provisioned too.
BuggyLookupForCreate(r, i) ==
    /\ pc[r] = "lookup" /\ op[r] = "create"
    /\ i \in todo[r]
    /\ todo' = [todo EXCEPT ![r] = @ \ {i}]
    /\ batch' = [batch EXCEPT ![r] = @ \cup {i}]
    /\ pc' = [pc EXCEPT ![r] = AfterLookup(r, todo[r] \ {i}, batch[r] \cup {i})]
    /\ UNCHANGED <<backendVars, op, tenant, devs, kind, types, cur, failed, result>>

\* GetDeviceTenant for one IMEI, in HandleCreate.
LookupForCreate(r, i) ==
    LET answer(status) ==
            /\ result' = WithStatus(r, {i}, status)
            /\ pc' = [pc EXCEPT ![r] = AfterLookup(r, todo[r] \ {i}, batch[r])]
            /\ UNCHANGED batch
    IN  /\ pc[r] = "lookup" /\ op[r] = "create"
        /\ i \in todo[r]
        /\ todo' = [todo EXCEPT ![r] = @ \ {i}]
        /\ \/ answer("error")
           \/ redis[i] = tenant[r] /\ answer("already_registered")
           \/ redis[i] \notin {tenant[r], NoTenant} /\ answer("conflict")
           \/ /\ redis[i] = NoTenant
              /\ batch' = [batch EXCEPT ![r] = @ \cup {i}]
              /\ pc' = [pc EXCEPT ![r] = AfterLookup(r, todo[r] \ {i}, batch[r] \cup {i})]
              /\ UNCHANGED result
        /\ UNCHANGED <<backendVars, op, tenant, devs, kind, types, cur, failed>>

\* agent.CreateDevices: all of the batch fails, or all of it goes on.
ProvisionBatch(r, ok) ==
    /\ pc[r] = "agent"
    /\ CreateDevices(tenant[r], batch[r], ok)
    /\ batch' = [batch EXCEPT ![r] = {}]
    /\ IF ok
       THEN /\ todo' = [todo EXCEPT ![r] = batch[r]]
            /\ pc' = [pc EXCEPT ![r] = "map"]
            /\ UNCHANGED <<op, tenant, devs, kind, types, cur, failed, result>>
       ELSE Settle(r, batch[r], "error", "lookup")

\* setDeviceTenant, then oc.CreateEntity, for one IMEI of the batch.
MapDevice(r, i, ok) ==
    /\ pc[r] = "map"
    /\ i \in todo[r]
    /\ setDeviceTenant(tenant[r], i, ok)
    /\ IF ok
       THEN /\ pc' = [pc EXCEPT ![r] = "entity"]
            /\ cur' = [cur EXCEPT ![r] = i]
            /\ UNCHANGED <<op, tenant, devs, kind, types, todo, failed, result>>
       ELSE Settle(r, {i}, "error", "map")
    /\ UNCHANGED batch

\* Mutant: the error of oc.CreateEntity is dropped.
BuggyMakeEntity(r, ok) ==
    /\ pc[r] = "entity"
    /\ CreateEntity(tenant[r], cur[r], ok)
    /\ Settle(r, {cur[r]}, "created", "map")
    /\ UNCHANGED batch

MakeEntity(r, ok) ==
    /\ pc[r] = "entity"
    /\ CreateEntity(tenant[r], cur[r], ok)
    /\ Settle(r, {cur[r]}, IF ok THEN "created" ELSE "error", "map")
    /\ UNCHANGED batch

-------------------------------------------------------------------------------
(* HandleUpdate and HandleDelete *)

\* GetDeviceTenant for one IMEI: only the caller's own devices are touched.
LookupForChange(r, i) ==
    /\ pc[r] = "lookup" /\ op[r] # "create"
    /\ i \in todo[r]
    /\ \/ Settle(r, {i}, "error", "lookup")
       \/ redis[i] # tenant[r] /\ Settle(r, {i}, "not_found", "lookup")
       \/ /\ redis[i] = tenant[r]
          /\ pc' = [pc EXCEPT ![r] = IF op[r] = "update" THEN "update" ELSE "unagent"]
          /\ cur' = [cur EXCEPT ![r] = i]
          /\ UNCHANGED <<op, tenant, devs, kind, types, todo, failed, result>>
    /\ UNCHANGED <<backendVars, batch>>

PatchEntity(r, empty, ok) ==
    /\ pc[r] = "update"
    /\ UpdateEntity(tenant[r], cur[r], empty, ok)
    /\ Settle(r, {cur[r]}, IF ok THEN "updated" ELSE "error", "lookup")
    /\ UNCHANGED batch

\* Mutant: an error does not end the work on the IMEI.
BuggyDeleteStep(r, next, ok) ==
    /\ pc' = [pc EXCEPT ![r] = next]
    /\ UNCHANGED <<op, tenant, devs, kind, types, todo, batch, cur, failed, result>>

\* One of the three calls of a delete, in their order: the first that fails
\* ends the work on that IMEI.
DeleteStep(r, next, ok) ==
    /\ IF ok
       THEN /\ pc' = [pc EXCEPT ![r] = next]
            /\ UNCHANGED <<op, tenant, devs, kind, types, todo, cur, failed, result>>
       ELSE Settle(r, {cur[r]}, "error", "lookup")
    /\ UNCHANGED batch

\* Mutant: the entity is forgotten.
BuggyRemoveFromAgent(r, ok) ==
    /\ pc[r] = "unagent"
    /\ DeleteDevice(tenant[r], cur[r], ok)
    /\ DeleteStep(r, "unmap", ok)

RemoveFromAgent(r, ok) ==
    /\ pc[r] = "unagent"
    /\ DeleteDevice(tenant[r], cur[r], ok)
    /\ DeleteStep(r, "unentity", ok)

RemoveEntity(r, ok) ==
    /\ pc[r] = "unentity"
    /\ DeleteEntity(tenant[r], cur[r], ok)
    /\ DeleteStep(r, "unmap", ok)

Unmap(r, ok) ==
    /\ pc[r] = "unmap"
    /\ deleteDeviceTenantMapping(cur[r], ok)
    /\ Settle(r, {cur[r]}, IF ok THEN "deleted" ELSE "error", "lookup")
    /\ UNCHANGED batch

-------------------------------------------------------------------------------
(* The specification *)

\* The next step of a request's handler.
HandlerStep(r) ==
    \/ Reply(r)
    \/ \E ty \in Types : ServiceGroupExists(r, ty) \/ NextGroup(r, ty)
    \/ SubscriptionExists(r)
    \/ \E i \in Imeis : LookupForCreate(r, i) \/ LookupForChange(r, i)
    \/ \E ok \in BOOLEAN :
          \/ MakeServiceGroup(r, ok) \/ MakeSubscription(r, ok)
          \/ ProvisionBatch(r, ok) \/ MakeEntity(r, ok)
          \/ RemoveFromAgent(r, ok) \/ RemoveEntity(r, ok) \/ Unmap(r, ok)
          \/ \E i \in Imeis : MapDevice(r, i, ok)
          \/ \E empty \in BOOLEAN : PatchEntity(r, empty, ok)

Messages ==
    /\ \E i \in Imeis : RouteMessage(i) \/ \E t \in Tenants : DeliverMessage(t, i)
    /\ UNCHANGED requestVars

Next ==
    \/ \E r \in Requests :
          \/ \E o \in Ops, t \in Tenants, D \in SUBSET Imeis :
                \E k \in KindsOf(o, D) : Start(r, o, t, D, k)
          \/ HandlerStep(r)
          \/ Crash(r)
    \/ Messages

Spec == Init /\ [][Next]_vars

-------------------------------------------------------------------------------
(* Properties *)

\* Device i is t's in all three stores, or in none.
Provisioned(t, i) == redis[i] = t /\ <<t, i>> \in agent /\ <<t, i>> \in entities
Gone(t, i) == redis[i] # t /\ <<t, i>> \notin agent /\ <<t, i>> \notin entities

\* A device reported "created" is in the IoT Agent, in Redis and in Orion when
\* the response is written, however its calls were mixed with other requests
\* and with the messages of the device (the last loop of HandleCreate).
CreatedEverywhere ==
    \A r \in Requests, i \in Imeis :
        result[r][i] = "created" => Provisioned(tenant[r], i)

\* A device reported "deleted" is in none of the stores, even if a message that
\* was on its way to the IoT Agent arrived in the middle: HandleDelete stops the
\* agent before it deletes the entity the agent would make again.
DeletedEverywhere ==
    \A r \in Requests, i \in Imeis :
        result[r][i] = "deleted" => Gone(tenant[r], i)

\* HandleDelete gives up the Redis mapping, which is what lets a delete be
\* retried, only when nothing of the device is left to delete; a failed call, a
\* lost reply or a crash at any earlier point leaves the mapping in place.
MappingReleasedLast ==
    [][\A t \in Tenants, i \in Imeis : redis[i] = t => redis'[i] = t \/ Gone(t, i)']_vars

\* No entity is listed for a tenant that can neither delete it (no mapping) nor
\* has a device that feeds it.
NoOrphanEntity ==
    \A t \in Tenants, i \in Imeis :
        <<t, i>> \in entities => redis[i] = t \/ <<t, i>> \in agent

\* The vehicle data a tenant attached to a device by PATCH does not outlive its
\* ownership of the device: whoever registers the IMEI next starts clean.
MetadataHasOwner ==
    \A t \in Tenants, i \in Imeis : <<t, i>> \in metadata => redis[i] = t

\* No device is in the IoT Agent in a tenant without a service group and the
\* subscription that stores its measures, and no batch goes there before the
\* group of its own device_type exists, whichever of the calls of HandleCreate
\* failed, whichever requests raced and whatever the agent does by itself.
AgentDevicesHaveGroup ==
    /\ \A d \in agent : d[1] \in subs /\ \E ty \in Types : <<d[1], ty>> \in groups
    /\ \A r \in Requests : pc[r] = "agent" =>
          \A i \in batch[r] : <<tenant[r], kind[r][i]>> \in groups

\* The Redis table implements the ownership specification.
Ownership == INSTANCE DeviceOwnership WITH owner <- redis
OwnershipRespected == Ownership!Spec

\* How many calls there are left at most, from the place of a request in its
\* loops: k for each type of the second loop, of which td have come before it
\* and t are left, n IMEIs in the loop over IMEIs, b in toProvision.
Left(place, k, td, t, n, b) ==
    CASE place = "idle"     -> 0
      [] place = "reply"    -> 1
      [] place = "group"    -> k * td + 2 * b + 2 * t + 4
      [] place = "mkgroup"  -> k * td + 2 * b + 2 * t + 3
      [] place = "sub"      -> k * td + 2 * b + 4
      [] place = "mksub"    -> k * td + 2 * b + 3
      [] place = "batch"    -> k * t + 2 * b + 1
      [] place = "lookup"   -> k * t + 2 * b + 5 * n + 2
      [] place = "agent"    -> k * t + 2 * b + 2
      [] place = "map"      -> k * t + 2 * b + 2 * n + 1
      [] place = "entity"   -> k * t + 2 * b + 2 * n
      [] place = "update"   -> k * t + 2 * b + 5 * n + 1
      [] place = "unagent"  -> k * t + 2 * b + 5 * n + 1
      [] place = "unentity" -> k * t + 2 * b + 5 * n
      [] place = "unmap"    -> k * t + 2 * b + 5 * n - 1

CallsLeft(r) ==
    Left(pc[r], 5 * Cardinality(devs[r]) + 3, Cardinality(TypesOf(r)),
         Cardinality(types[r]), Cardinality(todo[r]), Cardinality(batch[r]))

\* Where a request is in the loops of its handler.
Place(r) == <<pc[r], devs[r], kind[r], types[r], todo[r], batch[r], cur[r]>>

\* A handler cannot go round in its loops: whatever a call answers, the request
\* has fewer calls to make after it, and nothing that others do in between, a
\* message or a crash included, sends it back.  So a request ends if its calls
\* are answered; that they are is not assumed (iotagent.go and orion.go use an
\* http.Client without Timeout): a request whose upstream is silent takes no
\* step.
RequestAdvances(r) ==
    Active(r) =>
        /\ CallsLeft(r) \in Nat
        /\ IF Place(r)' = Place(r) THEN ~HandlerStep(r) ELSE CallsLeft(r)' < CallsLeft(r)

HandlersAdvance == [][\A r \in Requests : RequestAdvances(r)]_vars

\* What API.md says of "already_registered" and of GET /devices: the device is
\* the tenant's, and the tenant's devices are listed.
RegisteredIsListed ==
    \A r \in Requests, i \in Imeis :
        result[r][i] = "already_registered" => i \in QueryDevices(tenant[r])
===============================================================================
