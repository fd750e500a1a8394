------------------------ MODULE DeviceOwnership_proofs -------------------------
(***************************************************************************)
(* More proofs about DeviceHandlers, for any tenants, IMEIs and number of  *)
(* requests.                                                               *)
(*                                                                         *)
(* It implements DeviceOwnership as long as the requests in progress that  *)
(* name an IMEI are of one tenant (Overlap # "any").  The handlers look an *)
(* IMEI up, let some calls pass, and write its key without looking again.  *)
(* What makes that safe is ClaimInv: whatever a request looked up as free  *)
(* or its own (Claimed) still is, because only requests of the same tenant *)
(* write the key in between.                                               *)
(*                                                                         *)
(* The stores agree as long as no two requests in progress name the same   *)
(* IMEI (Overlap = "none").  StoresInv says what the place of a request    *)
(* tells about the stores (Held): only the owner deletes, the agent first, *)
(* the entity next and the mapping last, and so nothing that a request or  *)
(* a late message does afterwards can make an answer untrue (Told).  What  *)
(* is said of deletes needs an agent that drops the messages of devices it *)
(* does not know (AgentDropsUnknown); the rest holds for either agent.     *)
(***************************************************************************)
EXTENDS DeviceHandlers_proofs

\* Requests in progress that share an IMEI are of one tenant.
OneTenant(r, q) ==
    Active(r) /\ Active(q) /\ devs[r] \cap devs[q] # {} => tenant[r] = tenant[q]

\* A request works on the IMEIs it names, and an ended one on none.
OwnDevices(r) ==
    /\ todo[r] \cup batch[r] \subseteq devs[r]
    /\ pc[r] \in {"entity", "update", "unagent", "unentity", "unmap"} => cur[r] \in devs[r]
    /\ pc[r] = "idle" => todo[r] = {} /\ batch[r] = {}

\* The IMEIs that a request has looked up and means to write or has written.
Claimed(r) ==
    batch[r] \cup (IF pc[r] \in {"map", "entity"} THEN todo[r] ELSE {})
             \cup (IF pc[r] \in {"update", "unagent", "unentity", "unmap"} THEN {cur[r]} ELSE {})

\* None of them is another tenant's.
Claimable(r) == \A i \in Claimed(r) : redis[i] \in {tenant[r], NoTenant}

ClaimInv ==
    /\ \A r, q \in Requests : OneTenant(r, q)
    /\ \A r \in Requests : OwnDevices(r) /\ Claimable(r)

-------------------------------------------------------------------------------

\* The part of the type invariant that OwnDevices is about.
LEMMA Shapes ==
    ASSUME TypeInv
    PROVE  /\ pc \in [Requests -> Labels] /\ devs \in [Requests -> SUBSET Imeis]
           /\ todo \in [Requests -> SUBSET Imeis] /\ batch \in [Requests -> SUBSET Imeis]
           /\ cur \in [Requests -> Types \cup Imeis \cup {Nothing}]
BY DEF TypeInv, TypeOK, RequestsTypeOK

\* Every step preserves ClaimInv.
LEMMA ClaimStep ==
    ASSUME Overlap # "any"
    PROVE  TypeInv /\ ClaimInv /\ [Next]_vars => ClaimInv'
<1> USE HandlersAssumption
<1>1. ASSUME TypeInv, ClaimInv, NEW r \in Requests, NEW o \in Ops, NEW t \in Tenants, NEW D \in SUBSET Imeis,
            NEW k \in KindsOf(o, D), Start(r, o, t, D, k)
      PROVE  ClaimInv'
  <2>1. \A q, p \in Requests : OneTenant(q, p)'
    BY <1>1 DEF TypeInv, TypeOK, RequestsTypeOK, ClaimInv, OneTenant, Active, Start, MayStart,
       Active
  <2>2. \A q \in Requests : OwnDevices(q)'
    BY <1>1, Shapes DEF ClaimInv, OwnDevices, Start, MayStart, Active
  <2>3. \A q \in Requests : Claimable(q)'
    BY <1>1, Shapes DEF ClaimInv, OwnDevices, Claimable, Claimed,
       Start, MayStart, Active, backendVars
  <2> QED BY <2>1, <2>2, <2>3 DEF ClaimInv
<1>2. ASSUME TypeInv, ClaimInv, NEW r \in Requests, Clear(r)
      PROVE  ClaimInv'
  <2>1. \A q, p \in Requests : OneTenant(q, p)'
    BY <1>2 DEF TypeInv, TypeOK, RequestsTypeOK, ClaimInv, OneTenant, Active, Clear
  <2>2. \A q \in Requests : OwnDevices(q)'
    BY <1>2, Shapes DEF ClaimInv, OwnDevices, Clear
  <2>3. \A q \in Requests : Claimable(q)'
    BY <1>2 DEF TypeInv, TypeOK, RequestsTypeOK, ClaimInv, Claimable, Claimed, Clear,
       backendVars
  <2> QED BY <2>1, <2>2, <2>3 DEF ClaimInv
<1>3. ASSUME TypeInv, ClaimInv, NEW r \in Requests, NEW ty \in Types, ServiceGroupExists(r, ty)
      PROVE  ClaimInv'
  <2>1. \A q, p \in Requests : OneTenant(q, p)'
    <3>1. UNCHANGED <<tenant, devs>>
      BY <1>3 DEF ServiceGroupExists, GroupDone
    <3>2. \A q \in Requests : Active(q)' => Active(q)
      BY <1>3 DEF TypeInv, TypeOK, RequestsTypeOK, Active, ServiceGroupExists, GroupDone
    <3> QED BY <1>3, <3>1, <3>2 DEF ClaimInv, OneTenant
  <2>2. \A q \in Requests : OwnDevices(q)'
    BY <1>3, Shapes DEF ClaimInv, OwnDevices, ServiceGroupExists,
       GroupDone
  <2>3. \A q \in Requests : Claimable(q)'
    BY <1>3 DEF TypeInv, TypeOK, RequestsTypeOK, ClaimInv, Claimable, Claimed,
       ServiceGroupExists, GroupDone, backendVars
  <2> QED BY <2>1, <2>2, <2>3 DEF ClaimInv
<1>4. ASSUME TypeInv, ClaimInv, NEW r \in Requests, NEW ok \in BOOLEAN, MakeServiceGroup(r, ok)
      PROVE  ClaimInv'
  <2>1. \A q, p \in Requests : OneTenant(q, p)'
    <3>1. UNCHANGED <<tenant, devs>>
      BY <1>4 DEF MakeServiceGroup, GroupDone
    <3>2. \A q \in Requests : Active(q)' => Active(q)
      BY <1>4 DEF TypeInv, TypeOK, RequestsTypeOK, Active, MakeServiceGroup, GroupDone
    <3> QED BY <1>4, <3>1, <3>2 DEF ClaimInv, OneTenant
  <2>2. \A q \in Requests : OwnDevices(q)'
    BY <1>4, Shapes DEF ClaimInv, OwnDevices, MakeServiceGroup,
       GroupDone
  <2>3. \A q \in Requests : Claimable(q)'
    BY <1>4 DEF TypeInv, TypeOK, RequestsTypeOK, ClaimInv, Claimable, Claimed,
       MakeServiceGroup, GroupDone, CreateServiceGroup
  <2> QED BY <2>1, <2>2, <2>3 DEF ClaimInv
<1>5. ASSUME TypeInv, ClaimInv, NEW r \in Requests, SubscriptionExists(r)
      PROVE  ClaimInv'
  <2>1. \A q, p \in Requests : OneTenant(q, p)'
    <3>1. UNCHANGED <<tenant, devs>>
      BY <1>5 DEF SubscriptionExists, SubscriptionDone, SubscriptionFailed
    <3>2. \A q \in Requests : Active(q)' => Active(q)
      BY <1>5 DEF TypeInv, TypeOK, RequestsTypeOK, Active, SubscriptionExists,
         SubscriptionDone, SubscriptionFailed
    <3> QED BY <1>5, <3>1, <3>2 DEF ClaimInv, OneTenant
  <2>2. \A q \in Requests : OwnDevices(q)'
    BY <1>5, Shapes DEF ClaimInv, OwnDevices, SubscriptionExists,
       SubscriptionDone, SubscriptionFailed
  <2>3. \A q \in Requests : Claimable(q)'
    BY <1>5 DEF TypeInv, TypeOK, RequestsTypeOK, ClaimInv, Claimable, Claimed,
       SubscriptionExists, SubscriptionDone, SubscriptionFailed, backendVars
  <2> QED BY <2>1, <2>2, <2>3 DEF ClaimInv
<1>6. ASSUME TypeInv, ClaimInv, NEW r \in Requests, NEW ok \in BOOLEAN, MakeSubscription(r, ok)
      PROVE  ClaimInv'
  <2>1. \A q, p \in Requests : OneTenant(q, p)'
    <3>1. UNCHANGED <<tenant, devs>>
      BY <1>6 DEF MakeSubscription, SubscriptionDone, SubscriptionFailed
    <3>2. \A q \in Requests : Active(q)' => Active(q)
      BY <1>6 DEF TypeInv, TypeOK, RequestsTypeOK, Active, MakeSubscription, SubscriptionDone,
         SubscriptionFailed
    <3> QED BY <1>6, <3>1, <3>2 DEF ClaimInv, OneTenant
  <2>2. \A q \in Requests : OwnDevices(q)'
    BY <1>6, Shapes DEF ClaimInv, OwnDevices, MakeSubscription,
       SubscriptionDone, SubscriptionFailed
  <2>3. \A q \in Requests : Claimable(q)'
    BY <1>6 DEF TypeInv, TypeOK, RequestsTypeOK, ClaimInv, Claimable, Claimed,
       MakeSubscription, SubscriptionDone, SubscriptionFailed, CreateSubscription
  <2> QED BY <2>1, <2>2, <2>3 DEF ClaimInv
<1>7. ASSUME TypeInv, ClaimInv, NEW r \in Requests, NEW ty \in Types, NextGroup(r, ty)
      PROVE  ClaimInv'
  <2>1. \A q, p \in Requests : OneTenant(q, p)'
    <3>1. UNCHANGED <<tenant, devs>>
      BY <1>7 DEF NextGroup
    <3>2. \A q \in Requests : Active(q)' => Active(q)
      BY <1>7 DEF TypeInv, TypeOK, RequestsTypeOK, Active, NextGroup
    <3> QED BY <1>7, <3>1, <3>2 DEF ClaimInv, OneTenant
  <2>2. \A q \in Requests : OwnDevices(q)'
    BY <1>7, Shapes DEF ClaimInv, OwnDevices, NextGroup
  <2>3. \A q \in Requests : Claimable(q)'
    BY <1>7 DEF TypeInv, TypeOK, RequestsTypeOK, ClaimInv, Claimable, Claimed, NextGroup,
       backendVars
  <2> QED BY <2>1, <2>2, <2>3 DEF ClaimInv
<1>8. ASSUME TypeInv, ClaimInv, NEW r \in Requests, NEW ok \in BOOLEAN, NEW i \in Imeis, LookupForCreate(r, i)
      PROVE  ClaimInv'
  <2>1. \A q, p \in Requests : OneTenant(q, p)'
    <3>1. UNCHANGED <<tenant, devs>>
      BY <1>8 DEF LookupForCreate, AfterLookup, LoopLabel
    <3>2. \A q \in Requests : Active(q)' => Active(q)
      BY <1>8 DEF TypeInv, TypeOK, RequestsTypeOK, Active, LookupForCreate, AfterLookup,
         LoopLabel
    <3> QED BY <1>8, <3>1, <3>2 DEF ClaimInv, OneTenant
  <2>2. \A q \in Requests : OwnDevices(q)'
    BY <1>8, Shapes DEF ClaimInv, OwnDevices, LookupForCreate,
       AfterLookup, LoopLabel
  <2>3. \A q \in Requests : Claimable(q)'
    BY <1>8 DEF TypeInv, TypeOK, RequestsTypeOK, ClaimInv, Claimable, Claimed, LookupForCreate,
       AfterLookup, LoopLabel, backendVars
  <2> QED BY <2>1, <2>2, <2>3 DEF ClaimInv
<1>9. ASSUME TypeInv, ClaimInv, NEW r \in Requests, NEW ok \in BOOLEAN, ProvisionBatch(r, ok)
      PROVE  ClaimInv'
  <2>1. \A q, p \in Requests : OneTenant(q, p)'
    <3>1. UNCHANGED <<tenant, devs>>
      BY <1>9 DEF ProvisionBatch, Settle, LoopLabel
    <3>2. \A q \in Requests : Active(q)' => Active(q)
      BY <1>9 DEF TypeInv, TypeOK, RequestsTypeOK, Active, ProvisionBatch, Settle, LoopLabel
    <3> QED BY <1>9, <3>1, <3>2 DEF ClaimInv, OneTenant
  <2>2. \A q \in Requests : OwnDevices(q)'
    BY <1>9, Shapes DEF ClaimInv, OwnDevices, ProvisionBatch, Settle,
       LoopLabel
  <2>3. \A q \in Requests : Claimable(q)'
    BY <1>9 DEF TypeInv, TypeOK, RequestsTypeOK, ClaimInv, Claimable, Claimed, ProvisionBatch,
       Settle, LoopLabel, CreateDevices
  <2> QED BY <2>1, <2>2, <2>3 DEF ClaimInv
<1>10. ASSUME TypeInv, ClaimInv, NEW r \in Requests, NEW ok \in BOOLEAN, NEW i \in Imeis, MapDevice(r, i, ok)
      PROVE  ClaimInv'
  <2>1. \A q, p \in Requests : OneTenant(q, p)'
    <3>1. UNCHANGED <<tenant, devs>>
      BY <1>10 DEF MapDevice, Settle, LoopLabel
    <3>2. \A q \in Requests : Active(q)' => Active(q)
      BY <1>10 DEF TypeInv, TypeOK, RequestsTypeOK, Active, MapDevice, Settle, LoopLabel
    <3> QED BY <1>10, <3>1, <3>2 DEF ClaimInv, OneTenant
  <2>2. \A q \in Requests : OwnDevices(q)'
    BY <1>10, Shapes DEF ClaimInv, OwnDevices, MapDevice, Settle,
       LoopLabel
  <2>3. \A q \in Requests : Claimable(q)'
    <3>1. ASSUME NEW q \in Requests PROVE Claimed(q)' \subseteq Claimed(q)
      BY <1>10 DEF TypeInv, TypeOK, RequestsTypeOK, Claimed, MapDevice, Settle, LoopLabel
    <3>2. ASSUME NEW q \in Requests, NEW j \in Claimed(q)' PROVE redis'[j] \in {tenant[q], NoTenant}
      <4>1. redis[j] \in {tenant[q], NoTenant} /\ j \in devs[q] /\ Active(q)
        BY <1>10, <3>1 DEF ClaimInv, Claimable, Claimed, OwnDevices, Active
      <4>2. i \in devs[r] /\ Active(r)
        BY <1>10 DEF ClaimInv, OwnDevices, Active, MapDevice
      <4>3. j = i => tenant[q] = tenant[r]
        BY <1>10, <4>1, <4>2 DEF ClaimInv, OneTenant
      <4>4. i \in Imeis /\ redis \in [Imeis -> Tenants \cup {NoTenant}]
        BY <1>10 DEF TypeInv, TypeOK, BackendsTypeOK, Element, MapDevice
      <4>5. j \in Imeis
        BY <1>10, <4>1 DEF TypeInv, TypeOK, RequestsTypeOK
      <4>6. redis' = redis \/ redis' = [redis EXCEPT ![i] = tenant[r]]
        BY <1>10 DEF MapDevice, setDeviceTenant
      <4> QED BY <4>1, <4>3, <4>4, <4>5, <4>6
    <3>3. UNCHANGED tenant
      BY <1>10 DEF MapDevice, Settle, LoopLabel
    <3> QED BY <3>2, <3>3 DEF Claimable
  <2> QED BY <2>1, <2>2, <2>3 DEF ClaimInv
<1>11. ASSUME TypeInv, ClaimInv, NEW r \in Requests, NEW ok \in BOOLEAN, MakeEntity(r, ok)
      PROVE  ClaimInv'
  <2>1. \A q, p \in Requests : OneTenant(q, p)'
    <3>1. UNCHANGED <<tenant, devs>>
      BY <1>11 DEF MakeEntity, Settle, LoopLabel
    <3>2. \A q \in Requests : Active(q)' => Active(q)
      BY <1>11 DEF TypeInv, TypeOK, RequestsTypeOK, Active, MakeEntity, Settle, LoopLabel
    <3> QED BY <1>11, <3>1, <3>2 DEF ClaimInv, OneTenant
  <2>2. \A q \in Requests : OwnDevices(q)'
    BY <1>11, Shapes DEF ClaimInv, OwnDevices, MakeEntity, Settle,
       LoopLabel
  <2>3. \A q \in Requests : Claimable(q)'
    BY <1>11 DEF TypeInv, TypeOK, RequestsTypeOK, ClaimInv, Claimable, Claimed, MakeEntity,
       Settle, LoopLabel, CreateEntity
  <2> QED BY <2>1, <2>2, <2>3 DEF ClaimInv
<1>12. ASSUME TypeInv, ClaimInv, NEW r \in Requests, NEW ok \in BOOLEAN, NEW i \in Imeis, LookupForChange(r, i)
      PROVE  ClaimInv'
  <2>1. \A q, p \in Requests : OneTenant(q, p)'
    <3>1. UNCHANGED <<tenant, devs>>
      BY <1>12 DEF LookupForChange, Settle, LoopLabel
    <3>2. \A q \in Requests : Active(q)' => Active(q)
      BY <1>12 DEF TypeInv, TypeOK, RequestsTypeOK, Active, LookupForChange, Settle, LoopLabel
    <3> QED BY <1>12, <3>1, <3>2 DEF ClaimInv, OneTenant
  <2>2. \A q \in Requests : OwnDevices(q)'
    BY <1>12, Shapes DEF ClaimInv, OwnDevices, LookupForChange,
       Settle, LoopLabel
  <2>3. \A q \in Requests : Claimable(q)'
    BY <1>12 DEF TypeInv, TypeOK, RequestsTypeOK, ClaimInv, Claimable, Claimed,
       LookupForChange, Settle, LoopLabel, backendVars
  <2> QED BY <2>1, <2>2, <2>3 DEF ClaimInv
<1>13. ASSUME TypeInv, ClaimInv, NEW r \in Requests, NEW ok \in BOOLEAN, NEW empty \in BOOLEAN, PatchEntity(r, empty, ok)
      PROVE  ClaimInv'
  <2>1. \A q, p \in Requests : OneTenant(q, p)'
    <3>1. UNCHANGED <<tenant, devs>>
      BY <1>13 DEF PatchEntity, Settle, LoopLabel
    <3>2. \A q \in Requests : Active(q)' => Active(q)
      BY <1>13 DEF TypeInv, TypeOK, RequestsTypeOK, Active, PatchEntity, Settle, LoopLabel
    <3> QED BY <1>13, <3>1, <3>2 DEF ClaimInv, OneTenant
  <2>2. \A q \in Requests : OwnDevices(q)'
    BY <1>13, Shapes DEF ClaimInv, OwnDevices, PatchEntity, Settle,
       LoopLabel
  <2>3. \A q \in Requests : Claimable(q)'
    BY <1>13 DEF TypeInv, TypeOK, RequestsTypeOK, ClaimInv, Claimable, Claimed, PatchEntity,
       Settle, LoopLabel, UpdateEntity
  <2> QED BY <2>1, <2>2, <2>3 DEF ClaimInv
<1>14. ASSUME TypeInv, ClaimInv, NEW r \in Requests, NEW ok \in BOOLEAN, RemoveFromAgent(r, ok)
      PROVE  ClaimInv'
  <2>1. \A q, p \in Requests : OneTenant(q, p)'
    <3>1. UNCHANGED <<tenant, devs>>
      BY <1>14 DEF RemoveFromAgent, DeleteStep, Settle, LoopLabel
    <3>2. \A q \in Requests : Active(q)' => Active(q)
      BY <1>14 DEF TypeInv, TypeOK, RequestsTypeOK, Active, RemoveFromAgent, DeleteStep,
         Settle, LoopLabel
    <3> QED BY <1>14, <3>1, <3>2 DEF ClaimInv, OneTenant
  <2>2. \A q \in Requests : OwnDevices(q)'
    BY <1>14, Shapes DEF ClaimInv, OwnDevices, RemoveFromAgent,
       DeleteStep, Settle, LoopLabel
  <2>3. \A q \in Requests : Claimable(q)'
    BY <1>14 DEF TypeInv, TypeOK, RequestsTypeOK, ClaimInv, Claimable, Claimed,
       RemoveFromAgent, DeleteStep, Settle, LoopLabel, DeleteDevice
  <2> QED BY <2>1, <2>2, <2>3 DEF ClaimInv
<1>15. ASSUME TypeInv, ClaimInv, NEW r \in Requests, NEW ok \in BOOLEAN, RemoveEntity(r, ok)
      PROVE  ClaimInv'
  <2>1. \A q, p \in Requests : OneTenant(q, p)'
    <3>1. UNCHANGED <<tenant, devs>>
      BY <1>15 DEF RemoveEntity, DeleteStep, Settle, LoopLabel
    <3>2. \A q \in Requests : Active(q)' => Active(q)
      BY <1>15 DEF TypeInv, TypeOK, RequestsTypeOK, Active, RemoveEntity, DeleteStep, Settle,
         LoopLabel
    <3> QED BY <1>15, <3>1, <3>2 DEF ClaimInv, OneTenant
  <2>2. \A q \in Requests : OwnDevices(q)'
    <3>1. CASE ok
      BY <1>15, <3>1 DEF TypeInv, TypeOK, RequestsTypeOK, ClaimInv, OwnDevices, RemoveEntity,
         DeleteStep
    <3>2. CASE ~ok
      BY <1>15, <3>2 DEF TypeInv, TypeOK, RequestsTypeOK, ClaimInv, OwnDevices, RemoveEntity,
         DeleteStep, Settle, LoopLabel
    <3> QED BY <3>1, <3>2
  <2>3. \A q \in Requests : Claimable(q)'
    BY <1>15 DEF TypeInv, TypeOK, RequestsTypeOK, ClaimInv, Claimable, Claimed, RemoveEntity,
       DeleteStep, Settle, LoopLabel, DeleteEntity
  <2> QED BY <2>1, <2>2, <2>3 DEF ClaimInv
<1>16. ASSUME TypeInv, ClaimInv, NEW r \in Requests, NEW ok \in BOOLEAN, Unmap(r, ok)
      PROVE  ClaimInv'
  <2>1. \A q, p \in Requests : OneTenant(q, p)'
    <3>1. UNCHANGED <<tenant, devs>>
      BY <1>16 DEF Unmap, Settle, LoopLabel
    <3>2. \A q \in Requests : Active(q)' => Active(q)
      BY <1>16 DEF TypeInv, TypeOK, RequestsTypeOK, Active, Unmap, Settle, LoopLabel
    <3> QED BY <1>16, <3>1, <3>2 DEF ClaimInv, OneTenant
  <2>2. \A q \in Requests : OwnDevices(q)'
    BY <1>16, Shapes DEF ClaimInv, OwnDevices, Unmap, Settle, LoopLabel
  <2>3. \A q \in Requests : Claimable(q)'
    <3>1. ASSUME NEW q \in Requests PROVE Claimed(q)' \subseteq Claimed(q)
      BY <1>16 DEF TypeInv, TypeOK, RequestsTypeOK, Claimed, Unmap, Settle, LoopLabel
    <3>2. ASSUME NEW q \in Requests, NEW j \in Claimed(q)' PROVE redis'[j] \in {tenant[q], NoTenant}
      <4>1. redis[j] \in {tenant[q], NoTenant} /\ j \in devs[q] /\ Active(q)
        BY <1>16, <3>1 DEF ClaimInv, Claimable, Claimed, OwnDevices, Active
      <4>2. cur[r] \in devs[r] /\ Active(r)
        BY <1>16 DEF ClaimInv, OwnDevices, Active, Unmap
      <4>3. j = cur[r] => tenant[q] = tenant[r]
        BY <1>16, <4>1, <4>2 DEF ClaimInv, OneTenant
      <4>4. cur[r] \in Imeis /\ redis \in [Imeis -> Tenants \cup {NoTenant}]
        BY <1>16 DEF TypeInv, TypeOK, BackendsTypeOK, Element, Unmap
      <4>5. j \in Imeis
        BY <1>16, <4>1 DEF TypeInv, TypeOK, RequestsTypeOK
      <4>6. redis' = redis \/ redis' = [redis EXCEPT ![cur[r]] = NoTenant]
        BY <1>16 DEF Unmap, deleteDeviceTenantMapping
      <4> QED BY <4>1, <4>3, <4>4, <4>5, <4>6
    <3>3. UNCHANGED tenant
      BY <1>16 DEF Unmap, Settle, LoopLabel
    <3> QED BY <3>2, <3>3 DEF Claimable
  <2> QED BY <2>1, <2>2, <2>3 DEF ClaimInv
<1>17. ASSUME TypeInv, ClaimInv, Messages PROVE ClaimInv'
  BY <1>17 DEF ClaimInv, OneTenant, OwnDevices, Claimable, Claimed, Active,
               Messages, RouteMessage, DeliverMessage, requestVars
<1>18. ASSUME TypeInv, ClaimInv, UNCHANGED vars PROVE ClaimInv'
  BY <1>18 DEF ClaimInv, OneTenant, OwnDevices, Claimable, Claimed, Active, vars, backendVars,
     requestVars
<1> QED BY <1>1, <1>2, <1>3, <1>4, <1>5, <1>6, <1>7, <1>8, <1>9, <1>10, <1>11, <1>12, <1>13, <1>14, <1>15, <1>16, <1>17, <1>18 DEF Next, HandlerStep, Reply, Crash

\* The Redis table is written where a device is mapped and where its mapping is
\* deleted, and nowhere else.
LEMMA RedisWriters ==
    [Next]_vars /\ redis' # redis =>
        \E r \in Requests, ok \in BOOLEAN : Unmap(r, ok) \/ \E i \in Imeis : MapDevice(r, i, ok)
<1> SUFFICES ASSUME [Next]_vars, redis' # redis
             PROVE  \E r \in Requests, ok \in BOOLEAN :
                        Unmap(r, ok) \/ \E i \in Imeis : MapDevice(r, i, ok)
  OBVIOUS
<1>1. ASSUME Messages PROVE FALSE
  BY <1>1 DEF Messages, RouteMessage, DeliverMessage
<1>2. ASSUME NEW r \in Requests, UNCHANGED backendVars PROVE FALSE
  BY <1>2 DEF backendVars
<1>3. ASSUME NEW r \in Requests, NEW ok \in BOOLEAN,
             MakeServiceGroup(r, ok) \/ MakeSubscription(r, ok) \/ ProvisionBatch(r, ok)
      PROVE  FALSE
  BY <1>3 DEF MakeServiceGroup, CreateServiceGroup, MakeSubscription, CreateSubscription,
     ProvisionBatch,
              CreateDevices
<1>4. ASSUME NEW r \in Requests, NEW ok \in BOOLEAN,
             \/ MakeEntity(r, ok) \/ RemoveFromAgent(r, ok) \/ RemoveEntity(r, ok)
             \/ \E empty \in BOOLEAN : PatchEntity(r, empty, ok)
      PROVE  FALSE
  BY <1>4 DEF MakeEntity, CreateEntity, RemoveFromAgent, DeleteDevice, RemoveEntity,
     DeleteEntity, PatchEntity,
              UpdateEntity
<1>5. ASSUME NEW r \in Requests,
             \/ \E o \in Ops, t \in Tenants, D \in SUBSET Imeis :
                   \E k \in KindsOf(o, D) : Start(r, o, t, D, k)
             \/ Reply(r) \/ Crash(r) \/ SubscriptionExists(r)
             \/ \E ty \in Types : ServiceGroupExists(r, ty) \/ NextGroup(r, ty)
             \/ \E i \in Imeis : LookupForCreate(r, i) \/ LookupForChange(r, i)
      PROVE  FALSE
  BY <1>2, <1>5 DEF Start, Reply, Crash, Clear, SubscriptionExists, ServiceGroupExists,
     NextGroup,
                    LookupForCreate, LookupForChange
<1>6. Next
  BY DEF vars, backendVars
<1> QED BY <1>1, <1>3, <1>4, <1>5, <1>6 DEF Next, HandlerStep

\* A step of the handlers is a step of the ownership specification or leaves
\* the Redis table alone.
LEMMA OwnershipStep == TypeInv /\ ClaimInv /\ [Next]_vars => [Ownership!Next]_redis
<1> SUFFICES ASSUME TypeInv, ClaimInv, [Next]_vars, redis' # redis
             PROVE  Ownership!Next
  OBVIOUS
<1>1. PICK r \in Requests, ok \in BOOLEAN : Unmap(r, ok) \/ \E i \in Imeis : MapDevice(r, i, ok)
  BY RedisWriters
<1>2. redis \in [Imeis -> Tenants \cup {NoTenant}] /\ (Active(r) => tenant[r] \in Tenants)
  BY DEF TypeInv, TypeOK, BackendsTypeOK, Caller
<1>3. CASE Unmap(r, ok)
  <2>1. cur[r] \in Imeis
    BY <1>3 DEF TypeInv, Element, Unmap
  <2>2. redis' = [redis EXCEPT ![cur[r]] = NoTenant] /\ redis[cur[r]] # NoTenant
    BY <1>2, <1>3, <2>1 DEF Unmap, deleteDeviceTenantMapping
  <2> QED BY <2>1, <2>2 DEF Ownership!Next, Ownership!Release
<1>4. CASE \E i \in Imeis : MapDevice(r, i, ok)
  <2>1. PICK i \in Imeis : MapDevice(r, i, ok)
    BY <1>4
  <2>2. redis[i] \in {tenant[r], NoTenant} /\ tenant[r] \in Tenants
    BY <1>2, <2>1 DEF ClaimInv, Claimable, Claimed, MapDevice, Active
  <2>3. redis' = [redis EXCEPT ![i] = tenant[r]] /\ redis[i] = NoTenant
    BY <1>2, <2>1, <2>2 DEF MapDevice, setDeviceTenant
  <2> QED BY <2>2, <2>3 DEF Ownership!Next, Ownership!Claim
<1> QED BY <1>1, <1>3, <1>4

\* Unless requests of two tenants name the same IMEI at once, ownership passes
\* from tenant to tenant only through being given up, whatever else races,
\* fails or crashes.
THEOREM OwnershipIsRespected == Overlap # "any" => (Spec => OwnershipRespected)
<1> SUFFICES ASSUME Overlap # "any" PROVE Spec => OwnershipRespected
  OBVIOUS
<1>1. Init => TypeInv /\ ClaimInv /\ Ownership!Init
  <2>1. Init => ClaimInv
    BY DEF Init, ClaimInv, OneTenant, OwnDevices, Claimable, Claimed, Active
  <2> QED BY <2>1, InitTypeInv DEF Init, BackendsInit, Ownership!Init
<1>2. TypeInv /\ ClaimInv /\ [Next]_vars => TypeInv' /\ ClaimInv'
  BY TypeStep, ClaimStep
<1> QED BY <1>1, <1>2, OwnershipStep, PTL DEF Spec, OwnershipRespected, Ownership!Spec

-------------------------------------------------------------------------------
(* The stores agree with each other and with what the requests report *)

\* Requests name different IMEIs, and an ended one names none.
Apart(r, q) == r # q => devs[r] \cap devs[q] = {}
EndedNamesNone(r) == pc[r] = "idle" => devs[r] = {}

\* A request makes the calls of its own handler.
OwnHandler(r) ==
    /\ pc[r] \in {"agent", "map", "entity"} => op[r] = "create"
    /\ pc[r] \in {"update", "unagent", "unentity", "unmap"} => op[r] # "create"
    /\ pc[r] = "entity" => cur[r] \in todo[r]

\* What the place of a request tells about the device it works on.
Held(r) ==
    /\ pc[r] \in {"entity", "update", "unagent", "unentity", "unmap"} => redis[cur[r]] = tenant[r]
    /\ AgentDropsUnknown /\ pc[r] \in {"unentity", "unmap"} => <<tenant[r], cur[r]>> \notin agent
    /\ pc[r] = "unmap" =>
          /\ <<tenant[r], cur[r]>> \in entities => <<tenant[r], cur[r]>> \in agent
          /\ <<tenant[r], cur[r]>> \notin metadata
    /\ AgentSkipsDuplicates /\ pc[r] \in {"map", "entity"} =>
          \A i \in todo[r] : <<tenant[r], i>> \in agent

\* What its results tell about the devices it is done with.
Told(r) ==
    \A i \in Imeis :
        /\ result[r][i] = "created" =>
              /\ i \in devs[r] /\ op[r] = "create"
              /\ AgentSkipsDuplicates => Provisioned(tenant[r], i)
        /\ result[r][i] = "deleted" =>
              /\ i \in devs[r] /\ op[r] # "create"
              /\ AgentDropsUnknown => Gone(tenant[r], i)

StoresInv ==
    /\ \A r, q \in Requests : Apart(r, q)
    /\ \A r \in Requests : EndedNamesNone(r) /\ OwnHandler(r) /\ Held(r) /\ Told(r)
    /\ NoOrphanEntity /\ MetadataHasOwner

-------------------------------------------------------------------------------
(* What a step of one request leaves alone *)

\* The other requests stay where they are.
OthersStay(r) ==
    \A q \in Requests \ {r} :
        /\ pc'[q] = pc[q] /\ op'[q] = op[q] /\ tenant'[q] = tenant[q] /\ devs'[q] = devs[q]
        /\ todo'[q] = todo[q] /\ cur'[q] = cur[q] /\ result'[q] = result[q]

\* The stores hold the same of an IMEI.
SameInStores(i) ==
    /\ redis'[i] = redis[i]
    /\ \A t \in Tenants :
          /\ <<t, i>> \in agent' <=> <<t, i>> \in agent
          /\ <<t, i>> \in entities' <=> <<t, i>> \in entities
          /\ <<t, i>> \in metadata' => <<t, i>> \in metadata

\* A step that touches only the IMEIs of its request does not make untrue what
\* other requests know.
LEMMA OthersKnow ==
    ASSUME TypeInv, ClaimInv, StoresInv, NEW r \in Requests, OthersStay(r),
           \A i \in Imeis \ devs[r] : SameInStores(i),
           NEW q \in Requests \ {r}
    PROVE  OwnHandler(q)' /\ Held(q)' /\ Told(q)'
<1>1. OwnHandler(q) /\ Held(q) /\ Told(q) /\ EndedNamesNone(q) /\ devs[q] \cap devs[r] = {}
  BY DEF StoresInv, Apart
<1>2. /\ pc'[q] = pc[q] /\ op'[q] = op[q] /\ tenant'[q] = tenant[q] /\ devs'[q] = devs[q]
      /\ todo'[q] = todo[q] /\ cur'[q] = cur[q] /\ result'[q] = result[q]
  BY DEF OthersStay
<1>3. /\ devs[q] \subseteq Imeis
      /\ devs[q] # {} => tenant[q] \in Tenants
  BY <1>1 DEF TypeInv, TypeOK, RequestsTypeOK, Caller, Active, EndedNamesNone
<1>4. \A i \in devs[q] : SameInStores(i)
  BY <1>1, <1>3
<1>5. OwnHandler(q)'
  BY <1>1, <1>2 DEF OwnHandler
<1>6. Held(q)'
  <2>1. /\ todo[q] \subseteq devs[q]
        /\ pc[q] \in {"entity", "update", "unagent", "unentity", "unmap"} => cur[q] \in devs[q]
    BY DEF ClaimInv, OwnDevices
  <2> QED BY <1>1, <1>2, <1>3, <1>4, <2>1 DEF Held, SameInStores
<1>7. Told(q)'
  BY <1>1, <1>2, <1>3, <1>4 DEF Told, SameInStores, Provisioned, Gone
<1> QED BY <1>5, <1>6, <1>7

\* So it is enough to look at the request that makes the step and at the two
\* properties of the stores.
LEMMA OwnStep ==
    ASSUME TypeInv, ClaimInv, StoresInv, NEW r \in Requests, OthersStay(r), UNCHANGED devs,
           \A i \in Imeis \ devs[r] : SameInStores(i),
           pc'[r] # "idle", OwnHandler(r)', Held(r)', Told(r)', NoOrphanEntity', MetadataHasOwner'
    PROVE  StoresInv'
<1>1. \A q \in Requests : OwnHandler(q)' /\ Held(q)' /\ Told(q)'
  BY OthersKnow
<1>2. \A q \in Requests : EndedNamesNone(q)'
  BY DEF StoresInv, EndedNamesNone, OthersStay
<1>3. \A p, q \in Requests : Apart(p, q)'
  BY DEF StoresInv, Apart
<1> QED BY <1>1, <1>2, <1>3 DEF StoresInv

\* A step that writes nothing the properties are about, and tells nothing new.
LEMMA QuietStep ==
    ASSUME TypeInv, ClaimInv, StoresInv, NEW r \in Requests, OthersStay(r),
           UNCHANGED <<redis, agent, entities, metadata, devs, op, tenant>>,
           pc'[r] # "idle", OwnHandler(r)', Held(r)',
           \A i \in Imeis : result'[r][i] \in {"created", "deleted"} => result'[r][i] = result[r][i]
    PROVE  StoresInv'
<1>1. Told(r)' BY DEF StoresInv, Told, Provisioned, Gone
<1>2. NoOrphanEntity' /\ MetadataHasOwner' BY DEF StoresInv, NoOrphanEntity, MetadataHasOwner
<1>3. \A i \in Imeis : SameInStores(i) BY DEF SameInStores
<1> QED BY <1>1, <1>2, <1>3, OwnStep

\* What the loops make of the results of a request.
LEMMA StatusOf ==
    ASSUME TypeInv, NEW r \in Requests, NEW D, NEW status, result' = WithStatus(r, D, status)
    PROVE  /\ \A i \in Imeis : result'[r][i] = IF i \in D THEN status ELSE result[r][i]
           /\ \A q \in Requests \ {r} : result'[q] = result[q]
BY DEF TypeInv, TypeOK, RequestsTypeOK, WithStatus

\* Where settling some IMEIs leads.
LEMMA Settled ==
    ASSUME TypeInv, NEW r \in Requests, NEW D, NEW status, NEW here, Settle(r, D, status, here)
    PROVE  /\ OthersStay(r) /\ UNCHANGED <<op, tenant, devs>>
           /\ pc'[r] \in {here, "batch", "reply"} /\ todo'[r] = todo[r] \ D
           /\ \A i \in Imeis : result'[r][i] = IF i \in D THEN status ELSE result[r][i]
<1>1. /\ \A i \in Imeis : result'[r][i] = IF i \in D THEN status ELSE result[r][i]
      /\ \A q \in Requests \ {r} : result'[q] = result[q]
  BY StatusOf DEF Settle
<1>2. /\ UNCHANGED <<op, tenant, devs>> /\ pc'[r] \in {here, "batch", "reply"}
      /\ todo'[r] = todo[r] \ D
      /\ \A q \in Requests \ {r} : pc'[q] = pc[q] /\ todo'[q] = todo[q] /\ cur'[q] = cur[q]
  BY DEF Settle, LoopLabel, TypeInv, TypeOK, RequestsTypeOK
<1> QED BY <1>1, <1>2 DEF OthersStay

\* What a request has told so far is still true after a step.
StillTrue(r) ==
    \A i \in Imeis :
        /\ result[r][i] = "created" /\ AgentSkipsDuplicates => Provisioned(tenant[r], i)'
        /\ result[r][i] = "deleted" /\ AgentDropsUnknown => Gone(tenant[r], i)'

\* What settling an IMEI with a status that says nothing of the stores keeps.
LEMMA SettleQuietly ==
    ASSUME TypeInv, ClaimInv, StoresInv, NEW r \in Requests, NEW D,
           NEW status \in Statuses \ {"created", "deleted"},
           NEW here \in {"lookup", "map"}, pc[r] # "idle",
           here = "map" => op[r] = "create",
           Settle(r, D, status, here),
           \A i \in Imeis \ devs[r] : SameInStores(i),
           StillTrue(r),
           here = "map" /\ AgentSkipsDuplicates =>
               \A i \in todo[r] : <<tenant[r], i>> \in agent',
           NoOrphanEntity', MetadataHasOwner'
    PROVE  StoresInv'
<1>1. /\ OthersStay(r) /\ UNCHANGED <<op, tenant, devs>>
      /\ pc'[r] \in {here, "batch", "reply"} /\ todo'[r] = todo[r] \ D
      /\ \A i \in Imeis : result'[r][i] = IF i \in D THEN status ELSE result[r][i]
  BY Settled
<1>2. OwnHandler(r)'
  BY <1>1 DEF OwnHandler
<1>3. Held(r)'
  BY <1>1 DEF Held
<1>4. Told(r)'
  <2>1. \A i \in Imeis : result'[r][i] \in {"created", "deleted"} => result'[r][i] = result[r][i]
    BY <1>1
  <2> QED BY <1>1, <2>1 DEF StillTrue, Told, StoresInv
<1> QED BY <1>1, <1>2, <1>3, <1>4, OwnStep

\* Every step preserves StoresInv.
LEMMA StoresStep ==
    ASSUME Overlap = "none"
    PROVE  TypeInv /\ ClaimInv /\ StoresInv /\ [Next]_vars => StoresInv'
<1> USE HandlersAssumption
<1> SUFFICES ASSUME TypeInv, ClaimInv, StoresInv, [Next]_vars PROVE StoresInv'
  OBVIOUS
<1>1. ASSUME NEW r \in Requests, NEW o \in Ops, NEW t \in Tenants, NEW D \in SUBSET Imeis,
            NEW k \in KindsOf(o, D), Start(r, o, t, D, k)
      PROVE  StoresInv'
  <2>1. /\ OthersStay(r) /\ UNCHANGED backendVars /\ UNCHANGED result
        /\ pc'[r] \in {"group", "lookup"} /\ devs'[r] = D /\ devs[r] = {}
    BY <1>1 DEF Start, OthersStay, TypeInv, TypeOK, RequestsTypeOK, StoresInv, EndedNamesNone
  <2>2. \A i \in Imeis : SameInStores(i)
    BY <2>1 DEF SameInStores, backendVars
  <2>3. \A q \in Requests \ {r} : OwnHandler(q)' /\ Held(q)' /\ Told(q)'
    BY <2>1, <2>2, OthersKnow
  <2>4. OwnHandler(r)' /\ Held(r)' /\ Told(r)'
    BY <2>1 DEF OwnHandler, Held, Told, StoresInv
  <2>5. \A p, q \in Requests : Apart(p, q)'
    <3>1. \A q \in Requests : devs[q] \cap D = {}
      BY <1>1 DEF Start, MayStart, Active, StoresInv, EndedNamesNone
    <3> QED BY <2>1, <3>1 DEF StoresInv, Apart, OthersStay
  <2>6. \A q \in Requests : EndedNamesNone(q)'
    BY <2>1 DEF StoresInv, EndedNamesNone, OthersStay
  <2>7. NoOrphanEntity' /\ MetadataHasOwner'
    BY <2>1 DEF backendVars, StoresInv, NoOrphanEntity, MetadataHasOwner
  <2> QED BY <2>3, <2>4, <2>5, <2>6, <2>7 DEF StoresInv
<1>2. ASSUME NEW r \in Requests, Clear(r)
      PROVE  StoresInv'
  <2>1. /\ OthersStay(r) /\ UNCHANGED backendVars /\ pc'[r] = "idle" /\ devs'[r] = {}
        /\ \A i \in Imeis : result'[r][i] = "none"
    BY <1>2 DEF Clear, OthersStay, TypeInv, TypeOK, RequestsTypeOK
  <2>2. \A i \in Imeis : SameInStores(i)
    BY <2>1 DEF SameInStores, backendVars
  <2>3. \A q \in Requests \ {r} : OwnHandler(q)' /\ Held(q)' /\ Told(q)'
    BY <2>1, <2>2, OthersKnow
  <2>4. OwnHandler(r)' /\ Held(r)' /\ Told(r)'
    BY <2>1 DEF OwnHandler, Held, Told
  <2>5. \A p, q \in Requests : Apart(p, q)' /\ EndedNamesNone(p)'
    BY <2>1 DEF StoresInv, Apart, EndedNamesNone, OthersStay
  <2>6. NoOrphanEntity' /\ MetadataHasOwner'
    BY <2>1 DEF backendVars, StoresInv, NoOrphanEntity, MetadataHasOwner
  <2> QED BY <2>3, <2>4, <2>5, <2>6 DEF StoresInv
<1>3. ASSUME NEW r \in Requests, NEW ty \in Types, ServiceGroupExists(r, ty)
      PROVE  StoresInv'
  <2>1. /\ UNCHANGED <<redis, agent, entities, metadata, devs, op, tenant>>
        /\ pc'[r] \notin {"idle", "map", "entity", "update", "unagent", "unentity", "unmap"}
        /\ pc'[r] = "agent" => op[r] = "create"
        /\ \A q \in Requests \ {r} : pc'[q] = pc[q] /\ todo'[q] = todo[q] /\ cur'[q] = cur[q]
    BY <1>3 DEF ServiceGroupExists, GroupDone, backendVars, TypeInv, TypeOK, RequestsTypeOK
  <2>2. /\ \A q \in Requests \ {r} : result'[q] = result[q]
        /\ \A j \in Imeis : result'[r][j] \in {"created", "deleted"} => result'[r][j] = result[r][j]
    BY <1>3, StatusOf DEF ServiceGroupExists, GroupDone, backendVars
  <2>3. OthersStay(r) /\ OwnHandler(r)' /\ Held(r)'
    BY <2>1, <2>2 DEF OthersStay, OwnHandler, Held
  <2> QED BY <2>1, <2>2, <2>3, QuietStep
<1>4. ASSUME NEW r \in Requests, NEW ok \in BOOLEAN, MakeServiceGroup(r, ok)
      PROVE  StoresInv'
  <2>1. /\ UNCHANGED <<redis, agent, entities, metadata, devs, op, tenant>>
        /\ pc'[r] \notin {"idle", "map", "entity", "update", "unagent", "unentity", "unmap"}
        /\ pc'[r] = "agent" => op[r] = "create"
        /\ \A q \in Requests \ {r} : pc'[q] = pc[q] /\ todo'[q] = todo[q] /\ cur'[q] = cur[q]
    BY <1>4 DEF MakeServiceGroup, GroupDone, CreateServiceGroup, TypeInv, TypeOK, RequestsTypeOK
  <2>2. /\ \A q \in Requests \ {r} : result'[q] = result[q]
        /\ \A j \in Imeis : result'[r][j] \in {"created", "deleted"} => result'[r][j] = result[r][j]
    BY <1>4, StatusOf DEF MakeServiceGroup, GroupDone, CreateServiceGroup
  <2>3. OthersStay(r) /\ OwnHandler(r)' /\ Held(r)'
    BY <2>1, <2>2 DEF OthersStay, OwnHandler, Held
  <2> QED BY <2>1, <2>2, <2>3, QuietStep
<1>5. ASSUME NEW r \in Requests, SubscriptionExists(r)
      PROVE  StoresInv'
  <2>1. /\ UNCHANGED <<redis, agent, entities, metadata, devs, op, tenant>>
        /\ pc'[r] \notin {"idle", "map", "entity", "update", "unagent", "unentity", "unmap"}
        /\ pc'[r] = "agent" => op[r] = "create"
        /\ \A q \in Requests \ {r} : pc'[q] = pc[q] /\ todo'[q] = todo[q] /\ cur'[q] = cur[q]
    BY <1>5 DEF SubscriptionExists, SubscriptionDone, SubscriptionFailed, backendVars, TypeInv, TypeOK, RequestsTypeOK
  <2>2. /\ \A q \in Requests \ {r} : result'[q] = result[q]
        /\ \A j \in Imeis : result'[r][j] \in {"created", "deleted"} => result'[r][j] = result[r][j]
    BY <1>5, StatusOf DEF SubscriptionExists, SubscriptionDone, SubscriptionFailed, backendVars
  <2>3. OthersStay(r) /\ OwnHandler(r)' /\ Held(r)'
    BY <2>1, <2>2 DEF OthersStay, OwnHandler, Held
  <2> QED BY <2>1, <2>2, <2>3, QuietStep
<1>6. ASSUME NEW r \in Requests, NEW ok \in BOOLEAN, MakeSubscription(r, ok)
      PROVE  StoresInv'
  <2>1. /\ UNCHANGED <<redis, agent, entities, metadata, devs, op, tenant>>
        /\ pc'[r] \notin {"idle", "map", "entity", "update", "unagent", "unentity", "unmap"}
        /\ pc'[r] = "agent" => op[r] = "create"
        /\ \A q \in Requests \ {r} : pc'[q] = pc[q] /\ todo'[q] = todo[q] /\ cur'[q] = cur[q]
    BY <1>6 DEF MakeSubscription, SubscriptionDone, SubscriptionFailed, CreateSubscription, TypeInv, TypeOK, RequestsTypeOK
  <2>2. /\ \A q \in Requests \ {r} : result'[q] = result[q]
        /\ \A j \in Imeis : result'[r][j] \in {"created", "deleted"} => result'[r][j] = result[r][j]
    BY <1>6, StatusOf DEF MakeSubscription, SubscriptionDone, SubscriptionFailed, CreateSubscription
  <2>3. OthersStay(r) /\ OwnHandler(r)' /\ Held(r)'
    BY <2>1, <2>2 DEF OthersStay, OwnHandler, Held
  <2> QED BY <2>1, <2>2, <2>3, QuietStep
<1>7. ASSUME NEW r \in Requests, NEW ty \in Types, NextGroup(r, ty)
      PROVE  StoresInv'
  <2>1. /\ UNCHANGED <<redis, agent, entities, metadata, devs, op, tenant>>
        /\ pc'[r] \notin {"idle", "map", "entity", "update", "unagent", "unentity", "unmap"}
        /\ pc'[r] = "agent" => op[r] = "create"
        /\ \A q \in Requests \ {r} : pc'[q] = pc[q] /\ todo'[q] = todo[q] /\ cur'[q] = cur[q]
    BY <1>7 DEF NextGroup, backendVars, TypeInv, TypeOK, RequestsTypeOK
  <2>2. /\ \A q \in Requests \ {r} : result'[q] = result[q]
        /\ \A j \in Imeis : result'[r][j] \in {"created", "deleted"} => result'[r][j] = result[r][j]
    BY <1>7, StatusOf DEF NextGroup, backendVars
  <2>3. OthersStay(r) /\ OwnHandler(r)' /\ Held(r)'
    BY <2>1, <2>2 DEF OthersStay, OwnHandler, Held
  <2> QED BY <2>1, <2>2, <2>3, QuietStep
<1>8. ASSUME NEW r \in Requests, NEW i \in Imeis, LookupForCreate(r, i)
      PROVE  StoresInv'
  <2>1. /\ UNCHANGED <<redis, agent, entities, metadata, devs, op, tenant>>
        /\ pc'[r] \notin {"idle", "map", "entity", "update", "unagent", "unentity", "unmap"}
        /\ pc'[r] = "agent" => op[r] = "create"
        /\ \A q \in Requests \ {r} : pc'[q] = pc[q] /\ todo'[q] = todo[q] /\ cur'[q] = cur[q]
    BY <1>8 DEF LookupForCreate, AfterLookup, LoopLabel, backendVars, TypeInv, TypeOK, RequestsTypeOK
  <2>2. /\ \A q \in Requests \ {r} : result'[q] = result[q]
        /\ \A j \in Imeis : result'[r][j] \in {"created", "deleted"} => result'[r][j] = result[r][j]
    BY <1>8, StatusOf DEF LookupForCreate, AfterLookup, LoopLabel, backendVars
  <2>3. OthersStay(r) /\ OwnHandler(r)' /\ Held(r)'
    BY <2>1, <2>2 DEF OthersStay, OwnHandler, Held
  <2> QED BY <2>1, <2>2, <2>3, QuietStep
<1>9. ASSUME NEW r \in Requests, NEW ok \in BOOLEAN, ProvisionBatch(r, ok)
      PROVE  StoresInv'
  <2>1. /\ pc[r] = "agent" /\ op[r] = "create" /\ batch[r] \subseteq devs[r]
        /\ UNCHANGED <<redis, entities, metadata, tenant, op, devs>> /\ agent \subseteq agent'
    BY <1>9 DEF ProvisionBatch, CreateDevices, Settle, StoresInv, OwnHandler, ClaimInv, OwnDevices
  <2>2. \A i \in Imeis \ devs[r] : SameInStores(i)
    <3>1. \A t \in Tenants, i \in Imeis \ devs[r] : <<t, i>> \in agent' => <<t, i>> \in agent
      BY <1>9, <2>1 DEF ProvisionBatch, CreateDevices
    <3> QED BY <2>1, <3>1 DEF SameInStores
  <2>3. NoOrphanEntity' /\ MetadataHasOwner' /\ StillTrue(r)
    BY <2>1 DEF StoresInv, NoOrphanEntity, MetadataHasOwner, StillTrue, Told, Provisioned, Gone
  <2>4. CASE ok
    <3>1. /\ OthersStay(r) /\ pc'[r] = "map" /\ todo'[r] = batch[r] /\ UNCHANGED result
      BY <1>9, <2>4 DEF ProvisionBatch, OthersStay, TypeInv, TypeOK, RequestsTypeOK
    <3>2. AgentSkipsDuplicates => \A i \in batch[r] : <<tenant[r], i>> \in agent'
      BY <1>9, <2>4 DEF ProvisionBatch, CreateDevices
    <3>3. OwnHandler(r)' /\ Held(r)'
      BY <2>1, <3>1, <3>2 DEF OwnHandler, Held
    <3>4. Told(r)'
      BY <2>1, <2>3, <3>1 DEF Told, StillTrue, StoresInv
    <3> QED BY <2>1, <2>2, <2>3, <3>1, <3>3, <3>4, OwnStep
  <2>5. CASE ~ok
    <3>1. Settle(r, batch[r], "error", "lookup")
      BY <1>9, <2>5 DEF ProvisionBatch
    <3> QED BY <2>1, <2>2, <2>3, <3>1, SettleQuietly DEF Statuses
  <2> QED BY <2>4, <2>5
<1>10. ASSUME NEW r \in Requests, NEW ok \in BOOLEAN, NEW i \in Imeis, MapDevice(r, i, ok)
      PROVE  StoresInv'
  <2>1. /\ pc[r] = "map" /\ op[r] = "create" /\ i \in todo[r] /\ i \in devs[r]
        /\ tenant[r] \in Tenants /\ redis[i] \in {tenant[r], NoTenant}
        /\ UNCHANGED <<agent, entities, metadata, tenant, op, devs>>
    BY <1>10 DEF MapDevice, setDeviceTenant, Settle, StoresInv, OwnHandler, ClaimInv, OwnDevices,
       Claimable, Claimed, TypeInv, Caller, Active
  <2>2. /\ redis' \in {redis, [redis EXCEPT ![i] = tenant[r]]}
        /\ redis \in [Imeis -> Tenants \cup {NoTenant}]
    BY <1>10 DEF MapDevice, setDeviceTenant, TypeInv, TypeOK, BackendsTypeOK
  <2>3. \A j \in Imeis \ devs[r] : SameInStores(j)
    BY <2>1, <2>2 DEF SameInStores
  <2>4. \A t \in Tenants, j \in Imeis : redis[j] = t => redis'[j] = t
    BY <2>1, <2>2, BackendsAssumption
  <2>5. NoOrphanEntity' /\ MetadataHasOwner' /\ StillTrue(r)
    BY <2>1, <2>4 DEF StoresInv, NoOrphanEntity, MetadataHasOwner, StillTrue, Told, Provisioned
  <2>6. CASE ok
    <3>1. /\ OthersStay(r) /\ pc'[r] = "entity" /\ cur'[r] = i /\ UNCHANGED <<todo, result>>
          /\ redis'[i] = tenant[r]
      BY <1>10, <2>2, <2>6 DEF MapDevice, setDeviceTenant, OthersStay, TypeInv, TypeOK,
         RequestsTypeOK
    <3>2. OwnHandler(r)' /\ Held(r)' /\ Told(r)'
      BY <2>1, <2>5, <3>1 DEF OwnHandler, Held, Told, StillTrue, StoresInv
    <3> QED BY <2>1, <2>3, <2>5, <3>1, <3>2, OwnStep
  <2>7. CASE ~ok
    <3>1. Settle(r, {i}, "error", "map")
      BY <1>10, <2>7 DEF MapDevice
    <3>2. AgentSkipsDuplicates => \A j \in todo[r] : <<tenant[r], j>> \in agent'
      BY <2>1 DEF StoresInv, Held
    <3> QED BY <2>1, <2>3, <2>5, <3>1, <3>2, SettleQuietly DEF Statuses
  <2> QED BY <2>6, <2>7
<1>11. ASSUME NEW r \in Requests, NEW ok \in BOOLEAN, MakeEntity(r, ok)
      PROVE  StoresInv'
  <2>1. /\ pc[r] = "entity" /\ op[r] = "create" /\ cur[r] \in todo[r] /\ cur[r] \in devs[r]
        /\ cur[r] \in Imeis /\ redis[cur[r]] = tenant[r]
        /\ UNCHANGED <<redis, agent, metadata, tenant, op, devs>>
    BY <1>11 DEF MakeEntity, CreateEntity, Settle, StoresInv, OwnHandler, Held, ClaimInv,
       OwnDevices, TypeInv, Element
  <2>2. /\ entities' \in {entities, entities \cup {<<tenant[r], cur[r]>>}}
        /\ ok => <<tenant[r], cur[r]>> \in entities'
    BY <1>11 DEF MakeEntity, CreateEntity
  <2>3. \A i \in Imeis \ devs[r] : SameInStores(i)
    BY <2>1, <2>2 DEF SameInStores
  <2>4. NoOrphanEntity' /\ MetadataHasOwner' /\ StillTrue(r)
    BY <2>1, <2>2 DEF StoresInv, NoOrphanEntity, MetadataHasOwner, StillTrue, Told, Provisioned
  <2>5. AgentSkipsDuplicates => \A i \in todo[r] : <<tenant[r], i>> \in agent'
    BY <2>1 DEF StoresInv, Held
  <2>6. CASE ok
    <3>1. Settle(r, {cur[r]}, "created", "map")
      BY <1>11, <2>6 DEF MakeEntity
    <3>2. /\ OthersStay(r) /\ pc'[r] \in {"map", "batch", "reply"} /\ todo'[r] \subseteq todo[r]
          /\ \A i \in Imeis : result'[r][i] = IF i = cur[r] THEN "created" ELSE result[r][i]
      BY <3>1, Settled
    <3>3. OwnHandler(r)' /\ Held(r)'
      BY <2>1, <2>5, <3>2 DEF OwnHandler, Held
    <3>4. \A i \in Imeis : i = cur[r] /\ AgentSkipsDuplicates => Provisioned(tenant[r], i)'
      BY <2>1, <2>2, <2>5, <2>6 DEF Provisioned
    <3>5. Told(r)'
      BY <2>1, <2>4, <3>2, <3>4 DEF Told, StillTrue, StoresInv
    <3> QED BY <2>1, <2>3, <2>4, <3>2, <3>3, <3>5, OwnStep
  <2>7. CASE ~ok
    <3>1. Settle(r, {cur[r]}, "error", "map")
      BY <1>11, <2>7 DEF MakeEntity
    <3> QED BY <2>1, <2>3, <2>4, <2>5, <3>1, SettleQuietly DEF Statuses
  <2> QED BY <2>6, <2>7
<1>12. ASSUME NEW r \in Requests, NEW i \in Imeis, LookupForChange(r, i)
      PROVE  StoresInv'
  <2>1. pc[r] = "lookup" /\ op[r] # "create" /\ UNCHANGED <<redis, agent, entities, metadata>>
    BY <1>12 DEF LookupForChange, backendVars
  <2>2. \A j \in Imeis : SameInStores(j)
    BY <2>1 DEF SameInStores
  <2>3. NoOrphanEntity' /\ MetadataHasOwner'
    BY <2>1 DEF StoresInv, NoOrphanEntity, MetadataHasOwner
  <2>4. ASSUME NEW status \in {"error", "not_found"}, Settle(r, {i}, status, "lookup")
        PROVE  StoresInv'
    <3>1. StillTrue(r)
      BY <2>1, <2>4 DEF StillTrue, StoresInv, Told, Provisioned, Gone, Settle
    <3> QED BY <2>1, <2>2, <2>3, <2>4, <3>1, SettleQuietly DEF Statuses
  <2>5. ASSUME redis[i] = tenant[r],
               pc' = [pc EXCEPT ![r] = IF op[r] = "update" THEN "update" ELSE "unagent"],
               cur' = [cur EXCEPT ![r] = i],
               UNCHANGED <<op, tenant, devs, types, todo, failed, result>>
        PROVE  StoresInv'
    <3>1. /\ OthersStay(r) /\ pc'[r] \in {"update", "unagent"} /\ cur'[r] = i
      BY <2>5 DEF OthersStay, TypeInv, TypeOK, RequestsTypeOK
    <3>2. OwnHandler(r)' /\ Held(r)'
      BY <2>1, <2>5, <3>1 DEF OwnHandler, Held
    <3> QED BY <2>1, <2>5, <3>1, <3>2, QuietStep
  <2> QED BY <1>12, <2>4, <2>5 DEF LookupForChange
<1>13. ASSUME NEW r \in Requests, NEW ok \in BOOLEAN, NEW empty \in BOOLEAN, PatchEntity(r, empty, ok)
      PROVE  StoresInv'
  <2>1. /\ pc[r] = "update" /\ cur[r] \in Imeis /\ redis[cur[r]] = tenant[r]
        /\ UNCHANGED <<redis, agent, entities>>
        /\ metadata' \in {metadata, metadata \cup {<<tenant[r], cur[r]>>}}
    BY <1>13 DEF PatchEntity, UpdateEntity, StoresInv, Held, TypeInv, Element
  <2>2. \A i \in Imeis \ devs[r] : SameInStores(i)
    BY <1>13, <2>1 DEF SameInStores, PatchEntity, ClaimInv, OwnDevices
  <2>3. NoOrphanEntity' /\ MetadataHasOwner'
    BY <2>1 DEF StoresInv, NoOrphanEntity, MetadataHasOwner
  <2>4. PICK status \in {"updated", "error"} : Settle(r, {cur[r]}, status, "lookup")
    BY <1>13 DEF PatchEntity
  <2>5. StillTrue(r)
    BY <2>1, <2>4 DEF StillTrue, StoresInv, Told, Provisioned, Gone, Settle
  <2> QED BY <2>1, <2>2, <2>3, <2>4, <2>5, SettleQuietly DEF Statuses
<1>14. ASSUME NEW r \in Requests, NEW ok \in BOOLEAN, RemoveFromAgent(r, ok)
      PROVE  StoresInv'
  <2>1. /\ pc[r] = "unagent" /\ op[r] # "create" /\ cur[r] \in devs[r]
        /\ cur[r] \in Imeis /\ redis[cur[r]] = tenant[r]
        /\ UNCHANGED <<redis, entities, metadata, tenant, op, devs>>
    BY <1>14 DEF RemoveFromAgent, DeleteDevice, DeleteStep, Settle, StoresInv, OwnHandler, Held,
       ClaimInv, OwnDevices, TypeInv, Element
  <2>2. /\ agent' \in {agent, agent \ {<<tenant[r], cur[r]>>}}
        /\ ok => <<tenant[r], cur[r]>> \notin agent'
    BY <1>14 DEF RemoveFromAgent, DeleteDevice
  <2>3. \A i \in Imeis \ devs[r] : SameInStores(i)
    BY <2>1, <2>2 DEF SameInStores
  <2>4. NoOrphanEntity' /\ MetadataHasOwner' /\ StillTrue(r)
    BY <2>1, <2>2 DEF StoresInv, NoOrphanEntity, MetadataHasOwner, StillTrue, Told, Gone
  <2>5. CASE ok
    <3>1. OthersStay(r) /\ pc'[r] = "unentity" /\ UNCHANGED <<cur, result>>
      BY <1>14, <2>5 DEF RemoveFromAgent, DeleteStep, OthersStay, TypeInv, TypeOK, RequestsTypeOK
    <3>2. OwnHandler(r)' /\ Held(r)' /\ Told(r)'
      BY <2>1, <2>2, <2>4, <2>5, <3>1 DEF OwnHandler, Held, Told, StillTrue, StoresInv
    <3> QED BY <2>1, <2>3, <2>4, <3>1, <3>2, OwnStep
  <2>6. CASE ~ok
    <3>1. Settle(r, {cur[r]}, "error", "lookup")
      BY <1>14, <2>6 DEF RemoveFromAgent, DeleteStep
    <3> QED BY <2>1, <2>3, <2>4, <3>1, SettleQuietly DEF Statuses
  <2> QED BY <2>5, <2>6
<1>15. ASSUME NEW r \in Requests, NEW ok \in BOOLEAN, RemoveEntity(r, ok)
      PROVE  StoresInv'
  <2>1. /\ pc[r] = "unentity" /\ op[r] # "create" /\ cur[r] \in devs[r]
        /\ cur[r] \in Imeis /\ redis[cur[r]] = tenant[r]
        /\ AgentDropsUnknown => <<tenant[r], cur[r]>> \notin agent
        /\ UNCHANGED <<redis, agent, tenant, op, devs>>
    BY <1>15 DEF RemoveEntity, DeleteEntity, DeleteStep, Settle, StoresInv, OwnHandler, Held,
       ClaimInv, OwnDevices, TypeInv, Element
  <2>2. /\ entities' \in {entities, entities \ {<<tenant[r], cur[r]>>}}
        /\ metadata' \subseteq metadata
        /\ ok => <<tenant[r], cur[r]>> \notin entities' \cup metadata'
    BY <1>15 DEF RemoveEntity, DeleteEntity
  <2>3. \A i \in Imeis \ devs[r] : SameInStores(i)
    BY <2>1, <2>2 DEF SameInStores
  <2>4. NoOrphanEntity' /\ MetadataHasOwner' /\ StillTrue(r)
    BY <2>1, <2>2 DEF StoresInv, NoOrphanEntity, MetadataHasOwner, StillTrue, Told, Gone
  <2>5. CASE ok
    <3>1. OthersStay(r) /\ pc'[r] = "unmap" /\ UNCHANGED <<cur, result>>
      BY <1>15, <2>5 DEF RemoveEntity, DeleteStep, OthersStay, TypeInv, TypeOK, RequestsTypeOK
    <3>2. OwnHandler(r)' /\ Held(r)' /\ Told(r)'
      BY <2>1, <2>2, <2>4, <2>5, <3>1 DEF OwnHandler, Held, Told, StillTrue, StoresInv
    <3> QED BY <2>1, <2>3, <2>4, <3>1, <3>2, OwnStep
  <2>6. CASE ~ok
    <3>1. Settle(r, {cur[r]}, "error", "lookup")
      BY <1>15, <2>6 DEF RemoveEntity, DeleteStep
    <3> QED BY <2>1, <2>3, <2>4, <3>1, SettleQuietly DEF Statuses
  <2> QED BY <2>5, <2>6
<1>16. ASSUME NEW r \in Requests, NEW ok \in BOOLEAN, Unmap(r, ok)
      PROVE  StoresInv'
  <2>1. /\ pc[r] = "unmap" /\ op[r] # "create" /\ cur[r] \in devs[r]
        /\ cur[r] \in Imeis /\ tenant[r] \in Tenants /\ redis[cur[r]] = tenant[r]
        /\ AgentDropsUnknown => <<tenant[r], cur[r]>> \notin agent
        /\ <<tenant[r], cur[r]>> \in entities => <<tenant[r], cur[r]>> \in agent
        /\ <<tenant[r], cur[r]>> \notin metadata
        /\ UNCHANGED <<agent, entities, metadata, tenant, op, devs>>
    BY <1>16 DEF Unmap, deleteDeviceTenantMapping, Settle, StoresInv, OwnHandler, Held,
       ClaimInv, OwnDevices, TypeInv, Element, Caller, Active
  <2>2. /\ redis' \in {redis, [redis EXCEPT ![cur[r]] = NoTenant]}
        /\ redis \in [Imeis -> Tenants \cup {NoTenant}]
        /\ ok => redis'[cur[r]] = NoTenant
    BY <1>16, <2>1 DEF Unmap, deleteDeviceTenantMapping, TypeInv, TypeOK, BackendsTypeOK
  <2>3. \A i \in Imeis \ devs[r] : SameInStores(i)
    BY <2>1, <2>2 DEF SameInStores
  <2>4. \A t \in Tenants, i \in Imeis :
            redis[i] = t => redis'[i] = t \/ (t = tenant[r] /\ i = cur[r])
    BY <2>1, <2>2
  <2>5. NoOrphanEntity' /\ MetadataHasOwner'
    BY <2>1, <2>4 DEF StoresInv, NoOrphanEntity, MetadataHasOwner
  <2>6. StillTrue(r)
    BY <2>1, <2>2, BackendsAssumption DEF StoresInv, StillTrue, Told, Gone
  <2>7. CASE ok
    <3>1. Settle(r, {cur[r]}, "deleted", "lookup")
      BY <1>16, <2>7 DEF Unmap
    <3>2. /\ OthersStay(r) /\ pc'[r] \in {"lookup", "batch", "reply"}
          /\ \A i \in Imeis : result'[r][i] = IF i = cur[r] THEN "deleted" ELSE result[r][i]
      BY <3>1, Settled
    <3>3. OwnHandler(r)' /\ Held(r)'
      BY <3>2 DEF OwnHandler, Held
    <3>4. \A i \in Imeis : i = cur[r] /\ AgentDropsUnknown => Gone(tenant[r], i)'
      BY <2>1, <2>2, <2>7, BackendsAssumption DEF Gone
    <3>5. Told(r)'
      BY <2>1, <2>6, <3>2, <3>4 DEF Told, StillTrue, StoresInv
    <3> QED BY <2>1, <2>3, <2>5, <3>2, <3>3, <3>5, OwnStep
  <2>8. CASE ~ok
    <3>1. Settle(r, {cur[r]}, "error", "lookup")
      BY <1>16, <2>8 DEF Unmap
    <3> QED BY <2>1, <2>3, <2>5, <2>6, <3>1, SettleQuietly DEF Statuses
  <2> QED BY <2>7, <2>8
<1>17. ASSUME Messages PROVE StoresInv'
  <2>1. /\ UNCHANGED <<requestVars, redis, metadata>>
        /\ agent \subseteq agent' /\ (AgentDropsUnknown => agent' = agent)
        /\ entities \subseteq entities' /\ entities' \subseteq entities \cup agent'
    BY <1>17 DEF Messages, RouteMessage, DeliverMessage
  <2>2. \A r, q \in Requests : Apart(r, q)' /\ EndedNamesNone(r)' /\ OwnHandler(r)'
    BY <2>1 DEF requestVars, StoresInv, Apart, EndedNamesNone, OwnHandler
  <2>3. \A r \in Requests : Held(r)'
    BY <2>1 DEF requestVars, StoresInv, Held
  <2>4. \A r \in Requests : Told(r)'
    BY <2>1 DEF requestVars, StoresInv, Told, Provisioned, Gone
  <2>5. NoOrphanEntity' /\ MetadataHasOwner'
    BY <2>1 DEF StoresInv, NoOrphanEntity, MetadataHasOwner
  <2> QED BY <2>2, <2>3, <2>4, <2>5 DEF StoresInv
<1>18. ASSUME UNCHANGED vars PROVE StoresInv'
  BY <1>18 DEF vars, backendVars, requestVars, StoresInv, Apart, EndedNamesNone, OwnHandler, Held,
     Told, Provisioned, Gone, NoOrphanEntity, MetadataHasOwner
<1> QED BY <1>1, <1>2, <1>3, <1>4, <1>5, <1>6, <1>7, <1>8, <1>9, <1>10, <1>11, <1>12, <1>13, <1>14,
           <1>15, <1>16, <1>17, <1>18 DEF Next, HandlerStep, Reply, Crash


\* The Redis table changes only when the mapping of a device is made or given up,
\* and what StoresInv knows of the request that gives it up is that the device is
\* in neither of the other stores.
LEMMA MappingStep ==
    ASSUME AgentDropsUnknown, TypeInv, ClaimInv, StoresInv, [Next]_vars,
           NEW t \in Tenants, NEW i \in Imeis, redis[i] = t
    PROVE  redis'[i] = t \/ Gone(t, i)'
<1> SUFFICES ASSUME redis' # redis PROVE redis'[i] = t \/ Gone(t, i)'
  OBVIOUS
<1>1. redis \in [Imeis -> Tenants \cup {NoTenant}] /\ t # NoTenant
  BY BackendsAssumption DEF TypeInv, TypeOK, BackendsTypeOK
<1>2. PICK r \in Requests, ok \in BOOLEAN : Unmap(r, ok) \/ \E j \in Imeis : MapDevice(r, j, ok)
  BY RedisWriters
<1>3. CASE Unmap(r, ok)
  <2>1. redis' \in {redis, [redis EXCEPT ![cur[r]] = NoTenant]} /\ UNCHANGED <<agent, entities>>
    BY <1>3 DEF Unmap, deleteDeviceTenantMapping
  <2>2. /\ redis[cur[r]] = tenant[r]
        /\ <<tenant[r], cur[r]>> \notin agent /\ <<tenant[r], cur[r]>> \notin entities
    BY <1>3 DEF Unmap, StoresInv, Held
  <2> QED BY <1>1, <2>1, <2>2 DEF Gone
<1>4. CASE \E j \in Imeis : MapDevice(r, j, ok)
  <2>1. PICK j \in Imeis : MapDevice(r, j, ok)
    BY <1>4
  <2>2. redis' \in {redis, [redis EXCEPT ![j] = tenant[r]]} /\ redis[j] \in {tenant[r], NoTenant}
    BY <2>1 DEF MapDevice, setDeviceTenant, ClaimInv, Claimable, Claimed
  <2> QED BY <1>1, <2>2
<1> QED BY <1>2, <1>3, <1>4

\* All three invariants of the requests and the stores.
LEMMA StoresAgree == Overlap = "none" => (Spec => [](TypeInv /\ ClaimInv /\ StoresInv))
<1> SUFFICES ASSUME Overlap = "none" PROVE Spec => [](TypeInv /\ ClaimInv /\ StoresInv)
  OBVIOUS
<1>1. Init => TypeInv /\ ClaimInv /\ StoresInv
  <2>1. Init => ClaimInv
    BY DEF Init, ClaimInv, OneTenant, OwnDevices, Claimable, Claimed, Active
  <2>2. Init => StoresInv
    BY DEF Init, BackendsInit, StoresInv, Apart, EndedNamesNone, OwnHandler, Held, Told,
       NoOrphanEntity, MetadataHasOwner
  <2> QED BY <2>1, <2>2, InitTypeInv
<1>2. TypeInv /\ ClaimInv /\ StoresInv /\ [Next]_vars => TypeInv' /\ ClaimInv' /\ StoresInv'
  BY TypeStep, ClaimStep, StoresStep
<1> QED BY <1>1, <1>2, PTL DEF Spec

\* A device reported "created" is in Redis, the IoT Agent and Orion when the
\* response is written, if no request in progress shares an IMEI with another and
\* the agent stores the new devices of a batch it answers 409
\* (iotagent.CreateDevices takes 409 for success); whether it also provisions
\* devices by itself makes no difference.
THEOREM CreatedIsEverywhere ==
    Overlap = "none" /\ AgentSkipsDuplicates => (Spec => []CreatedEverywhere)
<1>1. StoresInv /\ AgentSkipsDuplicates => CreatedEverywhere
  BY DEF StoresInv, Told, CreatedEverywhere
<1> SUFFICES ASSUME Overlap = "none", AgentSkipsDuplicates PROVE Spec => []CreatedEverywhere
  OBVIOUS
<1>2. Spec => [](TypeInv /\ ClaimInv /\ StoresInv)
  BY StoresAgree
<1> QED BY <1>1, <1>2, PTL

\* A device that HandleDelete reports "deleted" is in none of the stores, and no
\* message on its way to the IoT Agent brings its entity back, if the agent drops
\* the messages of devices it does not know: an agent that provisions a device for
\* each message undoes the delete.
THEOREM DeletedIsGone ==
    Overlap = "none" /\ AgentDropsUnknown => (Spec => []DeletedEverywhere)
<1>1. StoresInv /\ AgentDropsUnknown => DeletedEverywhere
  BY DEF StoresInv, Told, DeletedEverywhere
<1> SUFFICES ASSUME Overlap = "none", AgentDropsUnknown PROVE Spec => []DeletedEverywhere
  OBVIOUS
<1>2. Spec => [](TypeInv /\ ClaimInv /\ StoresInv)
  BY StoresAgree
<1> QED BY <1>1, <1>2, PTL

\* Whatever call of HandleCreate or HandleDelete fails, loses its reply or is the
\* last before a crash, no entity is left that its tenant can neither delete nor
\* has a device for.
THEOREM NoEntityIsOrphaned == Overlap = "none" => (Spec => []NoOrphanEntity)
<1>1. StoresInv => NoOrphanEntity
  BY DEF StoresInv
<1> QED BY <1>1, StoresAgree, PTL

\* The vehicle data that HandleUpdate attaches to a device is gone before the
\* IMEI can become another tenant's.
THEOREM MetadataAlwaysHasOwner == Overlap = "none" => (Spec => []MetadataHasOwner)
<1>1. StoresInv => MetadataHasOwner
  BY DEF StoresInv
<1> QED BY <1>1, StoresAgree, PTL

\* HandleDelete gives a mapping up only when the device is in neither of the other
\* stores, so a delete that failed half-way can always be asked for again (with an
\* agent that drops the messages of devices it does not know).
THEOREM MappingsAreReleasedLast ==
    Overlap = "none" /\ AgentDropsUnknown => (Spec => MappingReleasedLast)
<1> SUFFICES ASSUME Overlap = "none", AgentDropsUnknown PROVE Spec => MappingReleasedLast
  OBVIOUS
<1>1. TypeInv /\ ClaimInv /\ StoresInv /\ [Next]_vars =>
          [\A t \in Tenants, i \in Imeis : redis[i] = t => redis'[i] = t \/ Gone(t, i)']_vars
  BY MappingStep
<1>2. Spec => [](TypeInv /\ ClaimInv /\ StoresInv)
  BY StoresAgree
<1> QED BY <1>1, <1>2, PTL DEF Spec, MappingReleasedLast
===============================================================================
