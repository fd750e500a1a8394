------------------------- MODULE DeviceHandlers_proofs -------------------------
(***************************************************************************)
(* Proofs about DeviceHandlers, for any tenants, IMEIs, types and number   *)
(* of requests, and with any overlap of the requests.                      *)
(*                                                                         *)
(* TypeInv strengthens the type invariant by what the calls are made with: *)
(* a request in progress has a tenant, and cur holds a type or an IMEI     *)
(* wherever a handler uses it as one.                                      *)
(*                                                                         *)
(* GroupInv is why AgentDevicesHaveGroup holds.  A request carries what it *)
(* found out about service groups and the subscription in its place in the *)
(* code (pc), in types and in failed, and since groups and subscriptions   *)
(* are never taken away, what it found out stays true until the batch goes *)
(* to the IoT Agent.                                                       *)
(*                                                                         *)
(* CallsLeft is why a request ends: a bound on the calls it can still      *)
(* make, from its place in its loops, that every call of its own makes     *)
(* smaller and no step of anything else changes.  Workable says that the   *)
(* loops have an element wherever the code takes one.                      *)
(***************************************************************************)
EXTENDS DeviceHandlers, FiniteSetTheorems, TLAPS

\* A request in progress has a caller.
Caller(r) == Active(r) => tenant[r] \in Tenants

\* What is worked on is a type in the first loop and an IMEI in the others.
Element(r) ==
    /\ pc[r] \in {"group", "mkgroup", "sub", "mksub"} => op[r] = "create"
    /\ pc[r] = "mkgroup" => cur[r] \in Types
    /\ pc[r] \in {"entity", "update", "unagent", "unentity", "unmap"} => cur[r] \in Imeis

TypeInv == TypeOK /\ \A r \in Requests : Caller(r) /\ Element(r)

-------------------------------------------------------------------------------

\* The service groups the first loop has still to look at.
Unchecked(r) == IF pc[r] \in {"group", "mkgroup"} THEN types[r] ELSE {}

\* Every type the loop has dealt with has its group or is in failedGroups.
GroupsChecked(r) ==
    op[r] = "create" /\ Active(r) =>
        \A ty \in TypesOf(r) \ (failed[r] \cup Unchecked(r)) : <<tenant[r], ty>> \in groups

\* Past the subscription check there is a subscription.
Subscribed(r) ==
    op[r] = "create" /\ pc[r] \in {"batch", "lookup", "agent", "map", "entity"} =>
        tenant[r] \in subs

\* What goes to the IoT Agent was asked for, and its group did not fail.
BatchAllowed(r) ==
    /\ op[r] = "create" =>
          todo[r] \cup batch[r] \subseteq {i \in devs[r] : kind[r][i] \notin failed[r]}
    /\ pc[r] \in {"idle", "group", "mkgroup"} => todo[r] = {} /\ batch[r] = {}

\* A request makes the calls of its own handler.
OwnCall(r) ==
    /\ pc[r] \in {"agent", "map", "entity"} => op[r] = "create"
    /\ pc[r] \in {"update", "unagent", "unentity", "unmap"} => op[r] # "create"

\* Every device of the IoT Agent, and every device whose messages can reach it,
\* is in a tenant that has what its measures need.
Grouped ==
    /\ \A d \in agent : d[1] \in subs /\ \E ty \in Types : <<d[1], ty>> \in groups
    /\ \A t \in Tenants, i \in Imeis : redis[i] = t \/ <<t, i>> \in inflight => t \in subs

GroupInv ==
    /\ Grouped
    /\ \A r \in Requests : GroupsChecked(r) /\ Subscribed(r) /\ BatchAllowed(r) /\ OwnCall(r)

-------------------------------------------------------------------------------
(* Types *)

\* What the loops make of the statuses of some IMEIs are statuses.
LEMMA ResultType ==
    ASSUME RequestsTypeOK, NEW r \in Requests, NEW D, NEW status \in Statuses
    PROVE  WithStatus(r, D, status) \in [Requests -> [Imeis -> Statuses]]
BY DEF RequestsTypeOK, WithStatus

\* Settling some IMEIs leaves the variables of the requests in their types.
LEMMA SettleType ==
    ASSUME RequestsTypeOK, NEW r \in Requests, NEW D, NEW status \in Statuses, NEW here \in Labels,
           Settle(r, D, status, here), batch' \in [Requests -> SUBSET Imeis]
    PROVE  RequestsTypeOK'
<1>1. pc' \in [Requests -> Labels]
  BY DEF RequestsTypeOK, Settle, LoopLabel, Labels
<1>2. todo' \in [Requests -> SUBSET Imeis] /\ cur' \in [Requests -> Types \cup Imeis \cup {Nothing}]
  BY DEF RequestsTypeOK, Settle
<1>3. result' \in [Requests -> [Imeis -> Statuses]]
  BY ResultType DEF Settle
<1> QED BY <1>1, <1>2, <1>3 DEF RequestsTypeOK, Settle

\* The types a create asks for are types.
LEMMA TypesOfType ==
    ASSUME RequestsTypeOK, NEW r \in Requests, op[r] = "create"
    PROVE  TypesOf(r) \in SUBSET Types
BY DEF RequestsTypeOK, TypesOf

\* Every step preserves the strengthened type invariant.
LEMMA TypeStep == TypeInv /\ [Next]_vars => TypeInv'
<1> USE BackendsAssumption, HandlersAssumption
<1>1. ASSUME TypeInv, NEW r \in Requests, NEW o \in Ops, NEW t \in Tenants, NEW D \in SUBSET Imeis,
             NEW k \in KindsOf(o, D), Start(r, o, t, D, k)
      PROVE  TypeInv'
  <2>1. BackendsTypeOK'
    BY <1>1 DEF TypeInv, TypeOK, Start, BackendsTypeOK, backendVars
  <2>2. RequestsTypeOK'
    BY <1>1 DEF TypeInv, TypeOK, Start, RequestsTypeOK, Labels, KindsOf
  <2>3. \A q \in Requests : Caller(q)' /\ Element(q)'
    BY <1>1 DEF TypeInv, TypeOK, Start, RequestsTypeOK, Labels, Caller, Element, Active
  <2> QED BY <2>1, <2>2, <2>3 DEF TypeInv, TypeOK
<1>2. ASSUME TypeInv, NEW r \in Requests, Clear(r) PROVE TypeInv'
  <2>1. BackendsTypeOK'
    BY <1>2 DEF TypeInv, TypeOK, Clear, BackendsTypeOK, backendVars
  <2>2. RequestsTypeOK'
    BY <1>2 DEF TypeInv, TypeOK, Clear, RequestsTypeOK, Labels, Ops, Statuses
  <2>3. \A q \in Requests : Caller(q)' /\ Element(q)'
    BY <1>2 DEF TypeInv, TypeOK, Clear, RequestsTypeOK, Labels, Caller, Element, Active
  <2> QED BY <2>1, <2>2, <2>3 DEF TypeInv, TypeOK
<1>3. ASSUME TypeInv, NEW r \in Requests, NEW ty \in Types, ServiceGroupExists(r, ty)
      PROVE  TypeInv'
  <2>1. BackendsTypeOK'
    BY <1>3 DEF TypeInv, TypeOK, ServiceGroupExists, BackendsTypeOK, backendVars
  <2>2. RequestsTypeOK'
    <3>1. RequestsTypeOK
      BY <1>3 DEF TypeInv, TypeOK
    <3>2. pc' \in [Requests -> Labels]
      BY <1>3, <3>1 DEF RequestsTypeOK, ServiceGroupExists, GroupDone, Labels
    <3>3. types' \in [Requests -> SUBSET Types]
      <4>1. types' = types \/ types' = [types EXCEPT ![r] = @ \ {ty}]
        BY <1>3 DEF ServiceGroupExists, GroupDone
      <4>2. types \in [Requests -> SUBSET Types]
        BY <3>1 DEF RequestsTypeOK
      <4> QED BY <4>1, <4>2
    <3>4. cur' \in [Requests -> Types \cup Imeis \cup {Nothing}]
      <4>1. PICK c \in {ty, Nothing} : cur' = [cur EXCEPT ![r] = c]
        BY <1>3 DEF ServiceGroupExists, GroupDone
      <4> QED BY <3>1, <4>1 DEF RequestsTypeOK
    <3>5. failed' \in [Requests -> SUBSET Types]
      <4>1. failed' = failed \/ failed' = [failed EXCEPT ![r] = @ \cup {ty}]
        BY <1>3 DEF ServiceGroupExists
      <4>2. failed \in [Requests -> SUBSET Types]
        BY <3>1 DEF RequestsTypeOK
      <4> QED BY <4>1, <4>2
    <3> QED BY <1>3, <3>1, <3>2, <3>3, <3>4, <3>5 DEF RequestsTypeOK, ServiceGroupExists, GroupDone
  <2>3. \A q \in Requests : Caller(q)' /\ Element(q)'
    BY <1>3 DEF TypeInv, TypeOK, ServiceGroupExists, GroupDone, RequestsTypeOK, Labels, Caller,
       Element, Active
  <2> QED BY <2>1, <2>2, <2>3 DEF TypeInv, TypeOK
<1>4. ASSUME TypeInv, NEW r \in Requests, NEW ok \in BOOLEAN, MakeServiceGroup(r, ok)
      PROVE  TypeInv'
  <2>1. BackendsTypeOK'
    BY <1>4 DEF TypeInv, TypeOK, MakeServiceGroup, BackendsTypeOK, CreateServiceGroup, Caller,
       Element, Active, Labels, RequestsTypeOK, Device
  <2>2. RequestsTypeOK'
    BY <1>4 DEF TypeInv, TypeOK, MakeServiceGroup, GroupDone, RequestsTypeOK, Labels, Element
  <2>3. \A q \in Requests : Caller(q)' /\ Element(q)'
    BY <1>4 DEF TypeInv, TypeOK, MakeServiceGroup, GroupDone, RequestsTypeOK, Labels, Caller,
       Element, Active
  <2> QED BY <2>1, <2>2, <2>3 DEF TypeInv, TypeOK
<1>5. ASSUME TypeInv, NEW r \in Requests, SubscriptionExists(r)
      PROVE  TypeInv'
  <2>1. BackendsTypeOK'
    BY <1>5 DEF TypeInv, TypeOK, SubscriptionExists, BackendsTypeOK, backendVars
  <2>2. RequestsTypeOK'
    <3>1. RequestsTypeOK
      BY <1>5 DEF TypeInv, TypeOK
    <3>2. pc' \in [Requests -> Labels]
      <4>1. PICK l \in {"batch", "mksub", "reply"} : pc' = [pc EXCEPT ![r] = l]
        BY <1>5 DEF SubscriptionExists, SubscriptionDone, SubscriptionFailed
      <4> QED BY <3>1, <4>1 DEF RequestsTypeOK, Labels
    <3>3. types' \in [Requests -> SUBSET Types]
      <4>1. TypesOf(r) \in SUBSET Types
        BY <1>5, <3>1, TypesOfType DEF TypeInv, Element, SubscriptionExists
      <4>2. types' = types \/ types' = [types EXCEPT ![r] = TypesOf(r)]
        BY <1>5 DEF SubscriptionExists, SubscriptionDone, SubscriptionFailed
      <4> QED BY <3>1, <4>1, <4>2 DEF RequestsTypeOK
    <3>4. result' \in [Requests -> [Imeis -> Statuses]]
      BY <1>5, <3>1, ResultType DEF RequestsTypeOK, SubscriptionExists, SubscriptionDone,
         SubscriptionFailed, Statuses
    <3> QED BY <1>5, <3>1, <3>2, <3>3, <3>4 DEF RequestsTypeOK, SubscriptionExists, SubscriptionDone, SubscriptionFailed
  <2>3. \A q \in Requests : Caller(q)' /\ Element(q)'
    BY <1>5 DEF TypeInv, TypeOK, SubscriptionExists, SubscriptionDone, SubscriptionFailed,
       RequestsTypeOK, Labels, Caller, Element, Active
  <2> QED BY <2>1, <2>2, <2>3 DEF TypeInv, TypeOK
<1>6. ASSUME TypeInv, NEW r \in Requests, NEW ok \in BOOLEAN, MakeSubscription(r, ok)
      PROVE  TypeInv'
  <2>1. BackendsTypeOK'
    BY <1>6 DEF TypeInv, TypeOK, MakeSubscription, BackendsTypeOK, CreateSubscription, Caller,
       Element, Active, Labels, RequestsTypeOK, Device
  <2>2. RequestsTypeOK'
    <3>1. RequestsTypeOK
      BY <1>6 DEF TypeInv, TypeOK
    <3>2. pc' \in [Requests -> Labels]
      <4>1. PICK l \in {"batch", "reply"} : pc' = [pc EXCEPT ![r] = l]
        BY <1>6 DEF MakeSubscription, SubscriptionDone, SubscriptionFailed
      <4> QED BY <3>1, <4>1 DEF RequestsTypeOK, Labels
    <3>3. types' \in [Requests -> SUBSET Types]
      <4>1. TypesOf(r) \in SUBSET Types
        BY <1>6, <3>1, TypesOfType DEF TypeInv, Element, MakeSubscription
      <4>2. types' = types \/ types' = [types EXCEPT ![r] = TypesOf(r)]
        BY <1>6 DEF MakeSubscription, SubscriptionDone, SubscriptionFailed
      <4> QED BY <3>1, <4>1, <4>2 DEF RequestsTypeOK
    <3>4. result' \in [Requests -> [Imeis -> Statuses]]
      BY <1>6, <3>1, ResultType DEF RequestsTypeOK, MakeSubscription, SubscriptionDone,
         SubscriptionFailed, Statuses
    <3> QED BY <1>6, <3>1, <3>2, <3>3, <3>4 DEF RequestsTypeOK, MakeSubscription, SubscriptionDone, SubscriptionFailed
  <2>3. \A q \in Requests : Caller(q)' /\ Element(q)'
    BY <1>6 DEF TypeInv, TypeOK, MakeSubscription, SubscriptionDone, SubscriptionFailed,
       RequestsTypeOK, Labels, Caller, Element, Active
  <2> QED BY <2>1, <2>2, <2>3 DEF TypeInv, TypeOK
<1>7. ASSUME TypeInv, NEW r \in Requests, NEW ty \in Types, NextGroup(r, ty)
      PROVE  TypeInv'
  <2>1. BackendsTypeOK'
    BY <1>7 DEF TypeInv, TypeOK, NextGroup, BackendsTypeOK, backendVars
  <2>2. RequestsTypeOK'
    <3>1. RequestsTypeOK
      BY <1>7 DEF TypeInv, TypeOK
    <3>2. pc' \in [Requests -> Labels]
      BY <1>7, <3>1 DEF RequestsTypeOK, NextGroup, Labels
    <3>3. types' \in [Requests -> SUBSET Types]
      BY <1>7, <3>1 DEF RequestsTypeOK, NextGroup
    <3>4. todo' \in [Requests -> SUBSET Imeis]
      <4>1. {i \in devs[r] : kind[r][i] = ty} \in SUBSET Imeis
        BY <3>1 DEF RequestsTypeOK
      <4>2. todo' = todo \/ todo' = [todo EXCEPT ![r] = {i \in devs[r] : kind[r][i] = ty}]
        BY <1>7 DEF NextGroup
      <4> QED BY <3>1, <4>1, <4>2 DEF RequestsTypeOK
    <3>5. result' \in [Requests -> [Imeis -> Statuses]]
      BY <1>7, <3>1, ResultType DEF RequestsTypeOK, NextGroup, Statuses
    <3> QED BY <1>7, <3>1, <3>2, <3>3, <3>4, <3>5 DEF RequestsTypeOK, NextGroup
  <2>3. \A q \in Requests : Caller(q)' /\ Element(q)'
    BY <1>7 DEF TypeInv, TypeOK, NextGroup, RequestsTypeOK, Labels, Caller, Element, Active
  <2> QED BY <2>1, <2>2, <2>3 DEF TypeInv, TypeOK
<1>8. ASSUME TypeInv, NEW r \in Requests, NEW ok \in BOOLEAN, NEW i \in Imeis, LookupForCreate(r, i)
      PROVE  TypeInv'
  <2>1. BackendsTypeOK'
    BY <1>8 DEF TypeInv, TypeOK, LookupForCreate, BackendsTypeOK, backendVars
  <2>2. RequestsTypeOK'
    <3>1. RequestsTypeOK
      BY <1>8 DEF TypeInv, TypeOK
    <3>2. pc' \in [Requests -> Labels]
      BY <1>8, <3>1 DEF RequestsTypeOK, LookupForCreate, AfterLookup, LoopLabel, Labels
    <3>3. todo' \in [Requests -> SUBSET Imeis]
      BY <1>8, <3>1 DEF RequestsTypeOK, LookupForCreate, AfterLookup, LoopLabel
    <3>4. batch' \in [Requests -> SUBSET Imeis]
      <4>1. batch' = batch \/ batch' = [batch EXCEPT ![r] = @ \cup {i}]
        BY <1>8 DEF LookupForCreate
      <4>2. batch \in [Requests -> SUBSET Imeis]
        BY <3>1 DEF RequestsTypeOK
      <4> QED BY <4>1, <4>2
    <3>5. result' \in [Requests -> [Imeis -> Statuses]]
      BY <1>8, <3>1, ResultType DEF RequestsTypeOK, LookupForCreate, AfterLookup, LoopLabel,
         Statuses
    <3> QED BY <1>8, <3>1, <3>2, <3>3, <3>4, <3>5 DEF RequestsTypeOK, LookupForCreate, AfterLookup, LoopLabel
  <2>3. \A q \in Requests : Caller(q)' /\ Element(q)'
    BY <1>8 DEF TypeInv, TypeOK, LookupForCreate, AfterLookup, LoopLabel, RequestsTypeOK,
       Labels, Caller, Element, Active
  <2> QED BY <2>1, <2>2, <2>3 DEF TypeInv, TypeOK
<1>9. ASSUME TypeInv, NEW r \in Requests, NEW ok \in BOOLEAN, ProvisionBatch(r, ok)
      PROVE  TypeInv'
  <2>1. BackendsTypeOK'
    BY <1>9 DEF TypeInv, TypeOK, ProvisionBatch, BackendsTypeOK, CreateDevices, Caller,
       Element, Active, Labels, RequestsTypeOK, Device
  <2>2. RequestsTypeOK'
    <3>1. RequestsTypeOK /\ batch' \in [Requests -> SUBSET Imeis]
      BY <1>9 DEF TypeInv, TypeOK, ProvisionBatch, RequestsTypeOK
    <3>2. CASE ~ok
      BY <1>9, <3>1, <3>2, SettleType DEF ProvisionBatch, Labels, Statuses
    <3>3. CASE ok
      <4>1. pc' \in [Requests -> Labels]
        BY <1>9, <3>1, <3>3 DEF ProvisionBatch, RequestsTypeOK, Labels
      <4>2. todo' \in [Requests -> SUBSET Imeis]
        BY <1>9, <3>1, <3>3 DEF ProvisionBatch, RequestsTypeOK
      <4> QED BY <1>9, <3>1, <3>3, <4>1, <4>2 DEF ProvisionBatch, RequestsTypeOK
    <3> QED BY <1>9, <3>2, <3>3
  <2>3. \A q \in Requests : Caller(q)' /\ Element(q)'
    BY <1>9 DEF TypeInv, TypeOK, ProvisionBatch, Settle, LoopLabel, RequestsTypeOK, Labels,
       Caller, Element, Active
  <2> QED BY <2>1, <2>2, <2>3 DEF TypeInv, TypeOK
<1>10. ASSUME TypeInv, NEW r \in Requests, NEW ok \in BOOLEAN, NEW i \in Imeis, MapDevice(r, i, ok)
      PROVE  TypeInv'
  <2>1. BackendsTypeOK'
    BY <1>10 DEF TypeInv, TypeOK, MapDevice, BackendsTypeOK, setDeviceTenant, Caller, Element,
       Active, Labels, RequestsTypeOK, Device
  <2>2. RequestsTypeOK'
    <3>1. RequestsTypeOK /\ batch' \in [Requests -> SUBSET Imeis]
      BY <1>10 DEF TypeInv, TypeOK, MapDevice, RequestsTypeOK
    <3>2. CASE ~ok
      BY <1>10, <3>1, <3>2, SettleType DEF MapDevice, Labels, Statuses
    <3>3. CASE ok
      <4>1. pc' \in [Requests -> Labels]
        BY <1>10, <3>1, <3>3 DEF MapDevice, RequestsTypeOK, Labels
      <4>2. cur' \in [Requests -> Types \cup Imeis \cup {Nothing}]
        <5>1. cur' = [cur EXCEPT ![r] = i]
          BY <1>10, <3>3 DEF MapDevice
        <5> QED BY <3>1, <5>1 DEF RequestsTypeOK
      <4> QED BY <1>10, <3>1, <3>3, <4>1, <4>2 DEF MapDevice, RequestsTypeOK
    <3> QED BY <1>10, <3>2, <3>3
  <2>3. \A q \in Requests : Caller(q)' /\ Element(q)'
    BY <1>10 DEF TypeInv, TypeOK, MapDevice, Settle, LoopLabel, RequestsTypeOK, Labels, Caller,
       Element, Active
  <2> QED BY <2>1, <2>2, <2>3 DEF TypeInv, TypeOK
<1>11. ASSUME TypeInv, NEW r \in Requests, NEW ok \in BOOLEAN, MakeEntity(r, ok)
      PROVE  TypeInv'
  <2>1. BackendsTypeOK'
    BY <1>11 DEF TypeInv, TypeOK, MakeEntity, BackendsTypeOK, CreateEntity, Caller, Element,
       Active, Labels, RequestsTypeOK, Device
  <2>2. RequestsTypeOK'
    <3>1. RequestsTypeOK /\ batch' \in [Requests -> SUBSET Imeis]
      BY <1>11 DEF TypeInv, TypeOK, RequestsTypeOK, MakeEntity
    <3> QED BY <1>11, <3>1, SettleType DEF MakeEntity, Labels, Statuses
  <2>3. \A q \in Requests : Caller(q)' /\ Element(q)'
    BY <1>11 DEF TypeInv, TypeOK, MakeEntity, Settle, LoopLabel, RequestsTypeOK, Labels,
       Caller, Element, Active
  <2> QED BY <2>1, <2>2, <2>3 DEF TypeInv, TypeOK
<1>12. ASSUME TypeInv, NEW r \in Requests, NEW ok \in BOOLEAN, NEW i \in Imeis, LookupForChange(r, i)
      PROVE  TypeInv'
  <2>1. BackendsTypeOK'
    BY <1>12 DEF TypeInv, TypeOK, LookupForChange, BackendsTypeOK, backendVars
  <2>2. RequestsTypeOK'
    <3>1. RequestsTypeOK /\ batch' \in [Requests -> SUBSET Imeis]
      BY <1>12 DEF TypeInv, TypeOK, LookupForChange, RequestsTypeOK
    <3>2. CASE \E status \in {"error", "not_found"} : Settle(r, {i}, status, "lookup")
      BY <3>1, <3>2, SettleType DEF Labels, Statuses
    <3>3. CASE /\ pc' = [pc EXCEPT ![r] = IF op[r] = "update" THEN "update" ELSE "unagent"]
               /\ cur' = [cur EXCEPT ![r] = i]
               /\ UNCHANGED <<op, tenant, devs, kind, types, todo, failed, result>>
      <4>1. pc' \in [Requests -> Labels]
        BY <3>1, <3>3 DEF RequestsTypeOK, Labels
      <4>2. cur' \in [Requests -> Types \cup Imeis \cup {Nothing}]
        BY <3>1, <3>3 DEF RequestsTypeOK
      <4> QED BY <3>1, <3>3, <4>1, <4>2 DEF RequestsTypeOK
    <3> QED BY <1>12, <3>2, <3>3 DEF LookupForChange
  <2>3. \A q \in Requests : Caller(q)' /\ Element(q)'
    BY <1>12 DEF TypeInv, TypeOK, LookupForChange, Settle, LoopLabel, RequestsTypeOK, Labels,
       Caller, Element, Active
  <2> QED BY <2>1, <2>2, <2>3 DEF TypeInv, TypeOK
<1>13. ASSUME TypeInv, NEW r \in Requests, NEW ok \in BOOLEAN, NEW empty \in BOOLEAN, PatchEntity(r, empty, ok)
      PROVE  TypeInv'
  <2>1. BackendsTypeOK'
    BY <1>13 DEF TypeInv, TypeOK, PatchEntity, BackendsTypeOK, UpdateEntity, Caller, Element,
       Active, Labels, RequestsTypeOK, Device
  <2>2. RequestsTypeOK'
    <3>1. RequestsTypeOK /\ batch' \in [Requests -> SUBSET Imeis]
      BY <1>13 DEF TypeInv, TypeOK, RequestsTypeOK, PatchEntity
    <3> QED BY <1>13, <3>1, SettleType DEF PatchEntity, Labels, Statuses
  <2>3. \A q \in Requests : Caller(q)' /\ Element(q)'
    BY <1>13 DEF TypeInv, TypeOK, PatchEntity, Settle, LoopLabel, RequestsTypeOK, Labels,
       Caller, Element, Active
  <2> QED BY <2>1, <2>2, <2>3 DEF TypeInv, TypeOK
<1>14. ASSUME TypeInv, NEW r \in Requests, NEW ok \in BOOLEAN, RemoveFromAgent(r, ok)
      PROVE  TypeInv'
  <2>1. BackendsTypeOK'
    BY <1>14 DEF TypeInv, TypeOK, RemoveFromAgent, BackendsTypeOK, DeleteDevice, Caller,
       Element, Active, Labels, RequestsTypeOK, Device
  <2>2. RequestsTypeOK'
    <3>1. RequestsTypeOK /\ batch' \in [Requests -> SUBSET Imeis]
      BY <1>14 DEF TypeInv, TypeOK, RemoveFromAgent, DeleteStep, RequestsTypeOK
    <3>2. CASE ~ok
      BY <1>14, <3>1, <3>2, SettleType DEF RemoveFromAgent, DeleteStep, Labels, Statuses
    <3>3. CASE ok
      <4>1. pc' \in [Requests -> Labels]
        BY <1>14, <3>1, <3>3 DEF RemoveFromAgent, DeleteStep, RequestsTypeOK, Labels
      <4> QED BY <1>14, <3>1, <3>3, <4>1 DEF RemoveFromAgent, DeleteStep, RequestsTypeOK
    <3> QED BY <1>14, <3>2, <3>3
  <2>3. \A q \in Requests : Caller(q)' /\ Element(q)'
    BY <1>14 DEF TypeInv, TypeOK, RemoveFromAgent, DeleteStep, Settle, LoopLabel,
       RequestsTypeOK, Labels, Caller, Element, Active
  <2> QED BY <2>1, <2>2, <2>3 DEF TypeInv, TypeOK
<1>15. ASSUME TypeInv, NEW r \in Requests, NEW ok \in BOOLEAN, RemoveEntity(r, ok)
      PROVE  TypeInv'
  <2>1. BackendsTypeOK'
    BY <1>15 DEF TypeInv, TypeOK, RemoveEntity, BackendsTypeOK, DeleteEntity, Caller, Element,
       Active, Labels, RequestsTypeOK, Device
  <2>2. RequestsTypeOK'
    <3>1. RequestsTypeOK /\ batch' \in [Requests -> SUBSET Imeis]
      BY <1>15 DEF TypeInv, TypeOK, RemoveEntity, DeleteStep, RequestsTypeOK
    <3>2. CASE ~ok
      BY <1>15, <3>1, <3>2, SettleType DEF RemoveEntity, DeleteStep, Labels, Statuses
    <3>3. CASE ok
      <4>1. pc' \in [Requests -> Labels]
        BY <1>15, <3>1, <3>3 DEF RemoveEntity, DeleteStep, RequestsTypeOK, Labels
      <4> QED BY <1>15, <3>1, <3>3, <4>1 DEF RemoveEntity, DeleteStep, RequestsTypeOK
    <3> QED BY <1>15, <3>2, <3>3
  <2>3. \A q \in Requests : Caller(q)' /\ Element(q)'
    BY <1>15 DEF TypeInv, TypeOK, RemoveEntity, DeleteStep, Settle, LoopLabel, RequestsTypeOK,
       Labels, Caller, Element, Active
  <2> QED BY <2>1, <2>2, <2>3 DEF TypeInv, TypeOK
<1>16. ASSUME TypeInv, NEW r \in Requests, NEW ok \in BOOLEAN, Unmap(r, ok)
      PROVE  TypeInv'
  <2>1. BackendsTypeOK'
    BY <1>16 DEF TypeInv, TypeOK, Unmap, BackendsTypeOK, deleteDeviceTenantMapping, Caller,
       Element, Active, Labels, RequestsTypeOK, Device
  <2>2. RequestsTypeOK'
    <3>1. RequestsTypeOK /\ batch' \in [Requests -> SUBSET Imeis]
      BY <1>16 DEF TypeInv, TypeOK, RequestsTypeOK, Unmap
    <3> QED BY <1>16, <3>1, SettleType DEF Unmap, Labels, Statuses
  <2>3. \A q \in Requests : Caller(q)' /\ Element(q)'
    BY <1>16 DEF TypeInv, TypeOK, Unmap, Settle, LoopLabel, RequestsTypeOK, Labels, Caller,
       Element, Active
  <2> QED BY <2>1, <2>2, <2>3 DEF TypeInv, TypeOK
<1>17. ASSUME TypeInv, Messages PROVE TypeInv'
  <2>1. BackendsTypeOK'
    <3>1. CASE \E i \in Imeis : RouteMessage(i)
      BY <1>17, <3>1 DEF TypeInv, TypeOK, RouteMessage, BackendsTypeOK, Device
    <3>2. CASE \E i \in Imeis, t \in Tenants : DeliverMessage(t, i)
      BY <1>17, <3>2 DEF TypeInv, TypeOK, DeliverMessage, BackendsTypeOK, Device
    <3> QED BY <1>17, <3>1, <3>2 DEF Messages
  <2> QED BY <1>17, <2>1 DEF TypeInv, TypeOK, Messages, requestVars, RequestsTypeOK, Caller, Element, Active
<1>18. ASSUME TypeInv, UNCHANGED vars PROVE TypeInv'
  BY <1>18 DEF TypeInv, TypeOK, vars, backendVars, requestVars, BackendsTypeOK, RequestsTypeOK,
                  Caller, Element, Active
<1> QED BY <1>1, <1>2, <1>3, <1>4, <1>5, <1>6, <1>7, <1>8, <1>9, <1>10, <1>11, <1>12, <1>13, <1>14, <1>15, <1>16, <1>17, <1>18 DEF Next, HandlerStep, Reply, Crash

\* It holds initially.
LEMMA InitTypeInv == Init => TypeInv
BY BackendsAssumption DEF Init, BackendsInit, TypeInv, TypeOK, BackendsTypeOK, RequestsTypeOK,
   Labels,
                          Ops, Statuses, Caller, Element, Active

\* Every variable has its type in every reachable state, and what a handler
\* works on is what its calls take.
THEOREM TypeCorrect == Spec => []TypeOK
<1>1. TypeInv => TypeOK
  BY DEF TypeInv
<1> QED BY <1>1, InitTypeInv, TypeStep, PTL DEF Spec

-------------------------------------------------------------------------------
(* Service groups and subscriptions *)

\* Settling some IMEIs only takes from what the loop has left.
LEMMA SettleBatch ==
    ASSUME RequestsTypeOK, NEW r \in Requests, NEW D, NEW status, NEW here \in {"lookup", "map"},
           \A q \in Requests : BatchAllowed(q), Settle(r, D, status, here), UNCHANGED batch
    PROVE  \A q \in Requests : BatchAllowed(q)'
<1>1. pc'[r] \notin {"idle", "group", "mkgroup"}
  BY DEF RequestsTypeOK, Settle, LoopLabel
<1>2. \A q \in Requests : todo'[q] \subseteq todo[q] /\ (q # r => pc'[q] = pc[q] /\ todo'[q] = todo[q])
  BY DEF RequestsTypeOK, Settle
<1> QED BY <1>1, <1>2 DEF BatchAllowed, Settle

\* What a request found out stays true while others work: groups stay.
LEMMA OthersChecked ==
    ASSUME NEW q \in Requests, GroupsChecked(q), groups \subseteq groups',
           pc'[q] = pc[q], op'[q] = op[q], tenant'[q] = tenant[q], devs'[q] = devs[q],
           kind'[q] = kind[q], types'[q] = types[q], failed'[q] = failed[q]
    PROVE  GroupsChecked(q)'
<1>1. TypesOf(q)' = TypesOf(q) /\ Unchecked(q)' = Unchecked(q) /\ Active(q)' = Active(q)
  BY DEF TypesOf, Unchecked, Active
<1> QED BY <1>1 DEF GroupsChecked

\* Past the first loop what a request found out about service groups stays true.
LEMMA CheckedStays ==
    ASSUME \A q \in Requests : GroupsChecked(q), NEW r \in Requests,
           UNCHANGED <<op, tenant, devs, kind, failed, groups>>,
           pc[r] \notin {"idle", "group", "mkgroup"}, pc'[r] \notin {"idle", "group", "mkgroup"},
           \A q \in Requests \ {r} : pc'[q] = pc[q] /\ types'[q] = types[q]
    PROVE  \A q \in Requests : GroupsChecked(q)'
<1>1. \A q \in Requests : Unchecked(q)' = Unchecked(q) /\ (Active(q)' => Active(q))
  BY DEF Unchecked, Active
<1>2. \A q \in Requests : TypesOf(q)' = TypesOf(q)
  BY DEF TypesOf
<1> QED BY <1>1, <1>2 DEF GroupsChecked

\* Every step preserves GroupInv.
LEMMA GroupStep == TypeInv /\ GroupInv /\ [Next]_vars => GroupInv'
<1> USE BackendsAssumption, HandlersAssumption
<1>1. ASSUME TypeInv, GroupInv, NEW r \in Requests, NEW o \in Ops, NEW t \in Tenants, NEW D \in SUBSET Imeis,
             NEW k \in KindsOf(o, D), Start(r, o, t, D, k)
      PROVE  GroupInv'
  <2>1. Grouped'
    BY <1>1 DEF GroupInv, Grouped, Start, backendVars
  <2>2. \A q \in Requests : GroupsChecked(q)'
    <3>1. GroupsChecked(r)'
      <4>1. /\ op'[r] = o /\ TypesOf(r)' = {k[i] : i \in D}
            /\ o = "create" => pc'[r] = "group" /\ types'[r] = {k[i] : i \in D}
        BY <1>1 DEF TypeInv, TypeOK, RequestsTypeOK, Start, TypesOf
      <4> QED BY <4>1 DEF GroupsChecked, Unchecked
    <3>2. ASSUME NEW q \in Requests, q # r PROVE GroupsChecked(q)'
      BY <1>1, <3>2, OthersChecked DEF TypeInv, TypeOK, RequestsTypeOK, GroupInv, Start, backendVars
    <3> QED BY <3>1, <3>2
  <2>3. \A q \in Requests : Subscribed(q)'
    BY <1>1 DEF TypeInv, TypeOK, RequestsTypeOK, GroupInv, Subscribed, Start, backendVars
  <2>4. \A q \in Requests : BatchAllowed(q)'
    BY <1>1 DEF TypeInv, TypeOK, RequestsTypeOK, GroupInv, BatchAllowed, Start
  <2>5. \A q \in Requests : OwnCall(q)'
    BY <1>1 DEF TypeInv, TypeOK, RequestsTypeOK, GroupInv, OwnCall, Start
  <2> QED BY <2>1, <2>2, <2>3, <2>4, <2>5 DEF GroupInv
<1>2. ASSUME TypeInv, GroupInv, NEW r \in Requests, Clear(r) PROVE GroupInv'
  <2>1. Grouped'
    BY <1>2 DEF GroupInv, Grouped, Clear, backendVars
  <2>2. \A q \in Requests : GroupsChecked(q)'
    <3>1. GroupsChecked(r)'
      BY <1>2 DEF TypeInv, TypeOK, RequestsTypeOK, Clear, GroupsChecked, Active
    <3>2. ASSUME NEW q \in Requests, q # r PROVE GroupsChecked(q)'
      BY <1>2, <3>2, OthersChecked DEF TypeInv, TypeOK, RequestsTypeOK, GroupInv, Clear, backendVars
    <3> QED BY <3>1, <3>2
  <2>3. \A q \in Requests : Subscribed(q)'
    BY <1>2 DEF TypeInv, TypeOK, RequestsTypeOK, GroupInv, Subscribed, Clear, backendVars
  <2>4. \A q \in Requests : BatchAllowed(q)'
    BY <1>2 DEF TypeInv, TypeOK, RequestsTypeOK, GroupInv, BatchAllowed, Clear
  <2>5. \A q \in Requests : OwnCall(q)'
    BY <1>2 DEF TypeInv, TypeOK, RequestsTypeOK, GroupInv, OwnCall, Clear
  <2> QED BY <2>1, <2>2, <2>3, <2>4, <2>5 DEF GroupInv
<1>3. ASSUME TypeInv, GroupInv, NEW r \in Requests, NEW ty \in Types, ServiceGroupExists(r, ty)
      PROVE  GroupInv'
  <2>1. Grouped'
    BY <1>3 DEF TypeInv, TypeOK, RequestsTypeOK, GroupInv, Grouped,
       ServiceGroupExists, backendVars
  <2>2. \A q \in Requests : GroupsChecked(q)'
    <3>1. ASSUME NEW q \in Requests, q # r PROVE GroupsChecked(q)'
      BY <1>3, <3>1, OthersChecked DEF TypeInv, TypeOK, RequestsTypeOK, GroupInv,
         ServiceGroupExists, GroupDone, backendVars
    <3>2. /\ GroupsChecked(r) /\ Active(r) /\ Unchecked(r) = types[r] /\ TypesOf(r)' = TypesOf(r)
          /\ UNCHANGED <<op, tenant, devs, kind, groups>>
      BY <1>3 DEF GroupInv, ServiceGroupExists, Active, Unchecked, TypesOf, backendVars
    <3>3. ASSUME <<tenant[r], ty>> \in groups /\ GroupDone(r, ty) /\ UNCHANGED failed
          PROVE  GroupsChecked(r)'
      <4>1. types[r] \subseteq Unchecked(r)' \cup {ty}
        BY <1>3, <3>3 DEF TypeInv, TypeOK, RequestsTypeOK, GroupDone, Unchecked
      <4> QED BY <3>2, <3>3, <4>1 DEF GroupsChecked
    <3>4. ASSUME UNCHANGED <<types, failed>> /\ pc' = [pc EXCEPT ![r] = "mkgroup"]
          PROVE  GroupsChecked(r)'
      <4>1. Unchecked(r)' = types[r]
        BY <1>3, <3>4 DEF TypeInv, TypeOK, RequestsTypeOK, Unchecked
      <4> QED BY <3>2, <3>4, <4>1 DEF GroupsChecked
    <3>5. ASSUME failed' = [failed EXCEPT ![r] = @ \cup {ty}] /\ GroupDone(r, ty)
          PROVE  GroupsChecked(r)'
      <4>1. types[r] \subseteq Unchecked(r)' \cup {ty} /\ failed'[r] = failed[r] \cup {ty}
        BY <1>3, <3>5 DEF TypeInv, TypeOK, RequestsTypeOK, GroupDone, Unchecked
      <4> QED BY <3>2, <3>5, <4>1 DEF GroupsChecked
    <3> QED BY <1>3, <3>1, <3>3, <3>4, <3>5 DEF ServiceGroupExists
  <2>3. \A q \in Requests : Subscribed(q)'
    BY <1>3 DEF TypeInv, TypeOK, RequestsTypeOK, GroupInv, Subscribed, OwnCall,
       ServiceGroupExists, GroupDone, backendVars
  <2>4. \A q \in Requests : BatchAllowed(q)'
    BY <1>3 DEF TypeInv, TypeOK, RequestsTypeOK, GroupInv, BatchAllowed, ServiceGroupExists,
       GroupDone, backendVars
  <2>5. \A q \in Requests : OwnCall(q)'
    BY <1>3 DEF TypeInv, TypeOK, RequestsTypeOK, GroupInv, OwnCall, ServiceGroupExists,
       GroupDone, backendVars
  <2> QED BY <2>1, <2>2, <2>3, <2>4, <2>5 DEF GroupInv
<1>4. ASSUME TypeInv, GroupInv, NEW r \in Requests, NEW ok \in BOOLEAN, MakeServiceGroup(r, ok)
      PROVE  GroupInv'
  <2>1. Grouped'
    BY <1>4 DEF TypeInv, TypeOK, RequestsTypeOK, GroupInv, Grouped,
       MakeServiceGroup, CreateServiceGroup
  <2>2. \A q \in Requests : GroupsChecked(q)'
    BY <1>4 DEF TypeInv, TypeOK, RequestsTypeOK, GroupInv, GroupsChecked, Unchecked, Active,
       TypesOf, MakeServiceGroup, GroupDone, CreateServiceGroup
  <2>3. \A q \in Requests : Subscribed(q)'
    BY <1>4 DEF TypeInv, TypeOK, RequestsTypeOK, GroupInv, Subscribed, OwnCall,
       MakeServiceGroup, GroupDone, CreateServiceGroup
  <2>4. \A q \in Requests : BatchAllowed(q)'
    BY <1>4 DEF TypeInv, TypeOK, RequestsTypeOK, GroupInv, BatchAllowed, MakeServiceGroup,
       GroupDone, CreateServiceGroup
  <2>5. \A q \in Requests : OwnCall(q)'
    BY <1>4 DEF TypeInv, TypeOK, RequestsTypeOK, GroupInv, OwnCall, MakeServiceGroup,
       GroupDone, CreateServiceGroup
  <2> QED BY <2>1, <2>2, <2>3, <2>4, <2>5 DEF GroupInv
<1>5. ASSUME TypeInv, GroupInv, NEW r \in Requests, SubscriptionExists(r)
      PROVE  GroupInv'
  <2>1. Grouped'
    BY <1>5 DEF TypeInv, TypeOK, RequestsTypeOK, GroupInv, Grouped,
       SubscriptionExists, backendVars
  <2>2. \A q \in Requests : GroupsChecked(q)'
    <3>1. UNCHANGED <<op, tenant, devs, kind, failed, groups>> /\ pc[r] \notin {"idle", "group", "mkgroup"}
      BY <1>5 DEF SubscriptionExists, backendVars
    <3>2. pc'[r] \in {"batch", "mksub", "reply"}
      BY <1>5 DEF TypeInv, TypeOK, RequestsTypeOK, SubscriptionExists, SubscriptionDone,
         SubscriptionFailed
    <3>3. \A q \in Requests \ {r} : pc'[q] = pc[q] /\ types'[q] = types[q]
      BY <1>5 DEF TypeInv, TypeOK, RequestsTypeOK, SubscriptionExists, SubscriptionDone,
         SubscriptionFailed
    <3>4. \A q \in Requests : Unchecked(q)' = Unchecked(q) /\ (Active(q)' => Active(q))
      BY <3>1, <3>2, <3>3 DEF Unchecked, Active
    <3> QED BY <1>5, <3>1, <3>4 DEF GroupInv, GroupsChecked, TypesOf
  <2>3. \A q \in Requests : Subscribed(q)'
    BY <1>5 DEF TypeInv, TypeOK, RequestsTypeOK, GroupInv, Subscribed, OwnCall,
       SubscriptionExists, SubscriptionDone, SubscriptionFailed, backendVars
  <2>4. \A q \in Requests : BatchAllowed(q)'
    BY <1>5 DEF TypeInv, TypeOK, RequestsTypeOK, GroupInv, BatchAllowed, SubscriptionExists,
       SubscriptionDone, SubscriptionFailed, backendVars
  <2>5. \A q \in Requests : OwnCall(q)'
    BY <1>5 DEF TypeInv, TypeOK, RequestsTypeOK, GroupInv, OwnCall, SubscriptionExists,
       SubscriptionDone, SubscriptionFailed, backendVars
  <2> QED BY <2>1, <2>2, <2>3, <2>4, <2>5 DEF GroupInv
<1>6. ASSUME TypeInv, GroupInv, NEW r \in Requests, NEW ok \in BOOLEAN, MakeSubscription(r, ok)
      PROVE  GroupInv'
  <2>1. Grouped'
    BY <1>6 DEF TypeInv, TypeOK, RequestsTypeOK, GroupInv, Grouped,
       MakeSubscription, CreateSubscription
  <2>2. \A q \in Requests : GroupsChecked(q)'
    <3>1. UNCHANGED <<op, tenant, devs, kind, failed, groups>> /\ pc[r] \notin {"idle", "group", "mkgroup"}
      BY <1>6 DEF MakeSubscription, CreateSubscription
    <3>2. pc'[r] \in {"batch", "reply"}
      BY <1>6 DEF TypeInv, TypeOK, RequestsTypeOK, MakeSubscription, SubscriptionDone,
         SubscriptionFailed
    <3>3. \A q \in Requests \ {r} : pc'[q] = pc[q] /\ types'[q] = types[q]
      BY <1>6 DEF TypeInv, TypeOK, RequestsTypeOK, MakeSubscription, SubscriptionDone,
         SubscriptionFailed
    <3>4. \A q \in Requests : Unchecked(q)' = Unchecked(q) /\ (Active(q)' => Active(q))
      BY <3>1, <3>2, <3>3 DEF Unchecked, Active
    <3> QED BY <1>6, <3>1, <3>4 DEF GroupInv, GroupsChecked, TypesOf
  <2>3. \A q \in Requests : Subscribed(q)'
    BY <1>6 DEF TypeInv, TypeOK, RequestsTypeOK, GroupInv, Subscribed, OwnCall,
       MakeSubscription, SubscriptionDone, SubscriptionFailed, CreateSubscription
  <2>4. \A q \in Requests : BatchAllowed(q)'
    <3>1. UNCHANGED <<op, devs, kind, failed, todo, batch>>
      BY <1>6 DEF MakeSubscription
    <3>2. pc'[r] \in {"batch", "reply"} /\ \A q \in Requests \ {r} : pc'[q] = pc[q]
      BY <1>6 DEF TypeInv, TypeOK, RequestsTypeOK, MakeSubscription, SubscriptionDone,
         SubscriptionFailed
    <3> QED BY <1>6, <3>1, <3>2 DEF GroupInv, BatchAllowed
  <2>5. \A q \in Requests : OwnCall(q)'
    BY <1>6 DEF TypeInv, TypeOK, RequestsTypeOK, GroupInv, OwnCall, MakeSubscription,
       SubscriptionDone, SubscriptionFailed, CreateSubscription
  <2> QED BY <2>1, <2>2, <2>3, <2>4, <2>5 DEF GroupInv
<1>7. ASSUME TypeInv, GroupInv, NEW r \in Requests, NEW ty \in Types, NextGroup(r, ty)
      PROVE  GroupInv'
  <2>1. Grouped'
    BY <1>7 DEF TypeInv, TypeOK, RequestsTypeOK, GroupInv, Grouped, NextGroup,
       backendVars
  <2>2. \A q \in Requests : GroupsChecked(q)'
    <3>1. UNCHANGED <<op, tenant, devs, kind, failed, groups>>
      BY <1>7 DEF NextGroup, backendVars
    <3>2. pc[r] \notin {"idle", "group", "mkgroup"} /\ pc'[r] \notin {"idle", "group", "mkgroup"}
      BY <1>7 DEF TypeInv, TypeOK, RequestsTypeOK, NextGroup, backendVars
    <3>3. \A q \in Requests \ {r} : pc'[q] = pc[q] /\ types'[q] = types[q]
      BY <1>7 DEF TypeInv, TypeOK, RequestsTypeOK, NextGroup, backendVars
    <3> QED BY <1>7, <3>1, <3>2, <3>3, CheckedStays DEF GroupInv
  <2>3. \A q \in Requests : Subscribed(q)'
    BY <1>7 DEF TypeInv, TypeOK, RequestsTypeOK, GroupInv, Subscribed, OwnCall, NextGroup,
       backendVars
  <2>4. \A q \in Requests : BatchAllowed(q)'
    BY <1>7 DEF TypeInv, TypeOK, RequestsTypeOK, GroupInv, BatchAllowed, NextGroup, backendVars
  <2>5. \A q \in Requests : OwnCall(q)'
    BY <1>7 DEF TypeInv, TypeOK, RequestsTypeOK, GroupInv, OwnCall, NextGroup, backendVars
  <2> QED BY <2>1, <2>2, <2>3, <2>4, <2>5 DEF GroupInv
<1>8. ASSUME TypeInv, GroupInv, NEW r \in Requests, NEW ok \in BOOLEAN, NEW i \in Imeis, LookupForCreate(r, i)
      PROVE  GroupInv'
  <2>1. Grouped'
    BY <1>8 DEF TypeInv, TypeOK, RequestsTypeOK, GroupInv, Grouped,
       LookupForCreate, backendVars
  <2>2. \A q \in Requests : GroupsChecked(q)'
    <3>1. UNCHANGED <<op, tenant, devs, kind, failed, groups>>
      BY <1>8 DEF LookupForCreate, backendVars
    <3>2. pc[r] \notin {"idle", "group", "mkgroup"} /\ pc'[r] \notin {"idle", "group", "mkgroup"}
      BY <1>8 DEF TypeInv, TypeOK, RequestsTypeOK, LookupForCreate, backendVars, AfterLookup, LoopLabel
    <3>3. \A q \in Requests \ {r} : pc'[q] = pc[q] /\ types'[q] = types[q]
      BY <1>8 DEF TypeInv, TypeOK, RequestsTypeOK, LookupForCreate, backendVars
    <3> QED BY <1>8, <3>1, <3>2, <3>3, CheckedStays DEF GroupInv
  <2>3. \A q \in Requests : Subscribed(q)'
    BY <1>8 DEF TypeInv, TypeOK, RequestsTypeOK, GroupInv, Subscribed, OwnCall,
       LookupForCreate, AfterLookup, LoopLabel, backendVars
  <2>4. \A q \in Requests : BatchAllowed(q)'
    BY <1>8 DEF TypeInv, TypeOK, RequestsTypeOK, GroupInv, BatchAllowed, LookupForCreate,
       AfterLookup, LoopLabel, backendVars
  <2>5. \A q \in Requests : OwnCall(q)'
    BY <1>8 DEF TypeInv, TypeOK, RequestsTypeOK, GroupInv, OwnCall, LookupForCreate,
       AfterLookup, LoopLabel, backendVars
  <2> QED BY <2>1, <2>2, <2>3, <2>4, <2>5 DEF GroupInv
<1>9. ASSUME TypeInv, GroupInv, NEW r \in Requests, NEW ok \in BOOLEAN, ProvisionBatch(r, ok)
      PROVE  GroupInv'
  <2>1. Grouped'
    <3>1. PICK S \in SUBSET batch[r] : agent' = agent \cup {<<tenant[r], i>> : i \in S}
      BY <1>9 DEF ProvisionBatch, CreateDevices
    <3>2. op[r] = "create" /\ pc[r] = "agent"
      BY <1>9 DEF GroupInv, OwnCall, ProvisionBatch
    <3>3. tenant[r] \in subs
      BY <1>9, <3>2 DEF GroupInv, Subscribed
    <3>4. ASSUME NEW i \in batch[r] PROVE \E ty \in Types : <<tenant[r], ty>> \in groups
      <4>1. i \in devs[r] /\ kind[r][i] \in Types /\ kind[r][i] \notin failed[r]
        BY <1>9, <3>2 DEF TypeInv, TypeOK, RequestsTypeOK, GroupInv, BatchAllowed
      <4>2. <<tenant[r], kind[r][i]>> \in groups
        BY <1>9, <3>2, <4>1 DEF GroupInv, GroupsChecked, Unchecked, Active, TypesOf
      <4> QED BY <4>1, <4>2
    <3> QED BY <1>9, <3>1, <3>3, <3>4 DEF GroupInv, Grouped, ProvisionBatch, CreateDevices
  <2>2. \A q \in Requests : GroupsChecked(q)'
    <3>1. UNCHANGED <<op, tenant, devs, kind, failed, groups>>
      BY <1>9 DEF ProvisionBatch, CreateDevices, Settle
    <3>2. pc[r] \notin {"idle", "group", "mkgroup"} /\ pc'[r] \notin {"idle", "group", "mkgroup"}
      BY <1>9 DEF TypeInv, TypeOK, RequestsTypeOK, ProvisionBatch, CreateDevices, Settle, LoopLabel
    <3>3. \A q \in Requests \ {r} : pc'[q] = pc[q] /\ types'[q] = types[q]
      BY <1>9 DEF TypeInv, TypeOK, RequestsTypeOK, ProvisionBatch, CreateDevices, Settle
    <3> QED BY <1>9, <3>1, <3>2, <3>3, CheckedStays DEF GroupInv
  <2>3. \A q \in Requests : Subscribed(q)'
    BY <1>9 DEF TypeInv, TypeOK, RequestsTypeOK, GroupInv, Subscribed, OwnCall, ProvisionBatch,
       CreateDevices, Settle, LoopLabel
  <2>4. \A q \in Requests : BatchAllowed(q)'
    BY <1>9 DEF TypeInv, TypeOK, RequestsTypeOK, GroupInv, BatchAllowed, ProvisionBatch,
       CreateDevices, Settle, LoopLabel
  <2>5. \A q \in Requests : OwnCall(q)'
    BY <1>9 DEF TypeInv, TypeOK, RequestsTypeOK, GroupInv, OwnCall, ProvisionBatch,
       CreateDevices, Settle, LoopLabel
  <2> QED BY <2>1, <2>2, <2>3, <2>4, <2>5 DEF GroupInv
<1>10. ASSUME TypeInv, GroupInv, NEW r \in Requests, NEW ok \in BOOLEAN, NEW i \in Imeis, MapDevice(r, i, ok)
      PROVE  GroupInv'
  <2>1. Grouped'
    <3>1. UNCHANGED <<agent, subs, groups, inflight>> /\ pc[r] = "map"
      BY <1>10 DEF MapDevice, setDeviceTenant
    <3>2. op[r] = "create" => tenant[r] \in subs
      BY <1>10, <3>1 DEF GroupInv, Subscribed
    <3>3. redis' = redis \/ redis' = [redis EXCEPT ![i] = tenant[r]]
      BY <1>10 DEF MapDevice, setDeviceTenant
    <3>4. op[r] = "create"
      BY <1>10, <3>1 DEF GroupInv, OwnCall
    <3> QED BY <1>10, <3>1, <3>2, <3>3, <3>4 DEF TypeInv, TypeOK, BackendsTypeOK, GroupInv, Grouped
  <2>2. \A q \in Requests : GroupsChecked(q)'
    <3>1. UNCHANGED <<op, tenant, devs, kind, failed, groups>>
      BY <1>10 DEF MapDevice, setDeviceTenant, Settle
    <3>2. pc[r] \notin {"idle", "group", "mkgroup"} /\ pc'[r] \notin {"idle", "group", "mkgroup"}
      BY <1>10 DEF TypeInv, TypeOK, RequestsTypeOK, MapDevice, setDeviceTenant, Settle, LoopLabel
    <3>3. \A q \in Requests \ {r} : pc'[q] = pc[q] /\ types'[q] = types[q]
      BY <1>10 DEF TypeInv, TypeOK, RequestsTypeOK, MapDevice, setDeviceTenant, Settle
    <3> QED BY <1>10, <3>1, <3>2, <3>3, CheckedStays DEF GroupInv
  <2>3. \A q \in Requests : Subscribed(q)'
    BY <1>10 DEF TypeInv, TypeOK, RequestsTypeOK, GroupInv, Subscribed, OwnCall, MapDevice,
       setDeviceTenant, Settle, LoopLabel
  <2>4. \A q \in Requests : BatchAllowed(q)'
    <3>1. CASE ok
      BY <1>10, <3>1 DEF TypeInv, TypeOK, RequestsTypeOK, GroupInv, BatchAllowed, MapDevice
    <3>2. CASE ~ok
      BY <1>10, <3>2, SettleBatch DEF TypeInv, TypeOK, GroupInv, MapDevice
    <3> QED BY <1>10, <3>1, <3>2
  <2>5. \A q \in Requests : OwnCall(q)'
    BY <1>10 DEF TypeInv, TypeOK, RequestsTypeOK, GroupInv, OwnCall, MapDevice,
       setDeviceTenant, Settle, LoopLabel
  <2> QED BY <2>1, <2>2, <2>3, <2>4, <2>5 DEF GroupInv
<1>11. ASSUME TypeInv, GroupInv, NEW r \in Requests, NEW ok \in BOOLEAN, MakeEntity(r, ok)
      PROVE  GroupInv'
  <2>1. Grouped'
    BY <1>11 DEF TypeInv, TypeOK, RequestsTypeOK, GroupInv, Grouped, MakeEntity,
       CreateEntity
  <2>2. \A q \in Requests : GroupsChecked(q)'
    <3>1. UNCHANGED <<op, tenant, devs, kind, failed, groups>>
      BY <1>11 DEF MakeEntity, CreateEntity, Settle
    <3>2. pc[r] \notin {"idle", "group", "mkgroup"} /\ pc'[r] \notin {"idle", "group", "mkgroup"}
      BY <1>11 DEF TypeInv, TypeOK, RequestsTypeOK, MakeEntity, CreateEntity, Settle, LoopLabel
    <3>3. \A q \in Requests \ {r} : pc'[q] = pc[q] /\ types'[q] = types[q]
      BY <1>11 DEF TypeInv, TypeOK, RequestsTypeOK, MakeEntity, CreateEntity, Settle
    <3> QED BY <1>11, <3>1, <3>2, <3>3, CheckedStays DEF GroupInv
  <2>3. \A q \in Requests : Subscribed(q)'
    BY <1>11 DEF TypeInv, TypeOK, RequestsTypeOK, GroupInv, Subscribed, OwnCall, MakeEntity,
       CreateEntity, Settle, LoopLabel
  <2>4. \A q \in Requests : BatchAllowed(q)'
    BY <1>11 DEF TypeInv, TypeOK, RequestsTypeOK, GroupInv, BatchAllowed, MakeEntity,
       CreateEntity, Settle, LoopLabel
  <2>5. \A q \in Requests : OwnCall(q)'
    BY <1>11 DEF TypeInv, TypeOK, RequestsTypeOK, GroupInv, OwnCall, MakeEntity, CreateEntity,
       Settle, LoopLabel
  <2> QED BY <2>1, <2>2, <2>3, <2>4, <2>5 DEF GroupInv
<1>12. ASSUME TypeInv, GroupInv, NEW r \in Requests, NEW ok \in BOOLEAN, NEW i \in Imeis, LookupForChange(r, i)
      PROVE  GroupInv'
  <2>1. Grouped'
    BY <1>12 DEF TypeInv, TypeOK, RequestsTypeOK, GroupInv, Grouped,
       LookupForChange, backendVars
  <2>2. \A q \in Requests : GroupsChecked(q)'
    <3>1. UNCHANGED <<op, tenant, devs, kind, failed, groups>>
      BY <1>12 DEF LookupForChange, Settle, backendVars
    <3>2. pc[r] \notin {"idle", "group", "mkgroup"} /\ pc'[r] \notin {"idle", "group", "mkgroup"}
      BY <1>12 DEF TypeInv, TypeOK, RequestsTypeOK, LookupForChange, Settle, backendVars, LoopLabel
    <3>3. \A q \in Requests \ {r} : pc'[q] = pc[q] /\ types'[q] = types[q]
      BY <1>12 DEF TypeInv, TypeOK, RequestsTypeOK, LookupForChange, Settle, backendVars
    <3> QED BY <1>12, <3>1, <3>2, <3>3, CheckedStays DEF GroupInv
  <2>3. \A q \in Requests : Subscribed(q)'
    BY <1>12 DEF TypeInv, TypeOK, RequestsTypeOK, GroupInv, Subscribed, OwnCall,
       LookupForChange, Settle, LoopLabel, backendVars
  <2>4. \A q \in Requests : BatchAllowed(q)'
    BY <1>12 DEF TypeInv, TypeOK, RequestsTypeOK, GroupInv, BatchAllowed, LookupForChange,
       Settle, LoopLabel, backendVars
  <2>5. \A q \in Requests : OwnCall(q)'
    BY <1>12 DEF TypeInv, TypeOK, RequestsTypeOK, GroupInv, OwnCall, LookupForChange, Settle,
       LoopLabel, backendVars
  <2> QED BY <2>1, <2>2, <2>3, <2>4, <2>5 DEF GroupInv
<1>13. ASSUME TypeInv, GroupInv, NEW r \in Requests, NEW ok \in BOOLEAN, NEW empty \in BOOLEAN, PatchEntity(r, empty, ok)
      PROVE  GroupInv'
  <2>1. Grouped'
    BY <1>13 DEF TypeInv, TypeOK, RequestsTypeOK, GroupInv, Grouped, PatchEntity,
       UpdateEntity
  <2>2. \A q \in Requests : GroupsChecked(q)'
    <3>1. UNCHANGED <<op, tenant, devs, kind, failed, groups>>
      BY <1>13 DEF PatchEntity, UpdateEntity, Settle
    <3>2. pc[r] \notin {"idle", "group", "mkgroup"} /\ pc'[r] \notin {"idle", "group", "mkgroup"}
      BY <1>13 DEF TypeInv, TypeOK, RequestsTypeOK, PatchEntity, UpdateEntity, Settle, LoopLabel
    <3>3. \A q \in Requests \ {r} : pc'[q] = pc[q] /\ types'[q] = types[q]
      BY <1>13 DEF TypeInv, TypeOK, RequestsTypeOK, PatchEntity, UpdateEntity, Settle
    <3> QED BY <1>13, <3>1, <3>2, <3>3, CheckedStays DEF GroupInv
  <2>3. \A q \in Requests : Subscribed(q)'
    BY <1>13 DEF TypeInv, TypeOK, RequestsTypeOK, GroupInv, Subscribed, OwnCall, PatchEntity,
       UpdateEntity, Settle, LoopLabel
  <2>4. \A q \in Requests : BatchAllowed(q)'
    BY <1>13 DEF TypeInv, TypeOK, RequestsTypeOK, GroupInv, BatchAllowed, PatchEntity,
       UpdateEntity, Settle, LoopLabel
  <2>5. \A q \in Requests : OwnCall(q)'
    BY <1>13 DEF TypeInv, TypeOK, RequestsTypeOK, GroupInv, OwnCall, PatchEntity, UpdateEntity,
       Settle, LoopLabel
  <2> QED BY <2>1, <2>2, <2>3, <2>4, <2>5 DEF GroupInv
<1>14. ASSUME TypeInv, GroupInv, NEW r \in Requests, NEW ok \in BOOLEAN, RemoveFromAgent(r, ok)
      PROVE  GroupInv'
  <2>1. Grouped'
    BY <1>14 DEF TypeInv, TypeOK, RequestsTypeOK, GroupInv, Grouped,
       RemoveFromAgent, DeleteDevice
  <2>2. \A q \in Requests : GroupsChecked(q)'
    <3>1. UNCHANGED <<op, tenant, devs, kind, failed, groups>>
      BY <1>14 DEF RemoveFromAgent, DeleteDevice, DeleteStep, Settle
    <3>2. pc[r] \notin {"idle", "group", "mkgroup"} /\ pc'[r] \notin {"idle", "group", "mkgroup"}
      BY <1>14 DEF TypeInv, TypeOK, RequestsTypeOK, RemoveFromAgent, DeleteDevice, DeleteStep, Settle, LoopLabel
    <3>3. \A q \in Requests \ {r} : pc'[q] = pc[q] /\ types'[q] = types[q]
      BY <1>14 DEF TypeInv, TypeOK, RequestsTypeOK, RemoveFromAgent, DeleteDevice, DeleteStep, Settle
    <3> QED BY <1>14, <3>1, <3>2, <3>3, CheckedStays DEF GroupInv
  <2>3. \A q \in Requests : Subscribed(q)'
    BY <1>14 DEF TypeInv, TypeOK, RequestsTypeOK, GroupInv, Subscribed, OwnCall,
       RemoveFromAgent, DeleteDevice, DeleteStep, Settle, LoopLabel
  <2>4. \A q \in Requests : BatchAllowed(q)'
    <3>1. CASE ok
      BY <1>14, <3>1 DEF TypeInv, TypeOK, RequestsTypeOK, GroupInv, BatchAllowed,
         RemoveFromAgent, DeleteStep
    <3>2. CASE ~ok
      BY <1>14, <3>2, SettleBatch DEF TypeInv, TypeOK, GroupInv, RemoveFromAgent, DeleteStep
    <3> QED BY <1>14, <3>1, <3>2
  <2>5. \A q \in Requests : OwnCall(q)'
    BY <1>14 DEF TypeInv, TypeOK, RequestsTypeOK, GroupInv, OwnCall, RemoveFromAgent,
       DeleteDevice, DeleteStep, Settle, LoopLabel
  <2> QED BY <2>1, <2>2, <2>3, <2>4, <2>5 DEF GroupInv
<1>15. ASSUME TypeInv, GroupInv, NEW r \in Requests, NEW ok \in BOOLEAN, RemoveEntity(r, ok)
      PROVE  GroupInv'
  <2>1. Grouped'
    BY <1>15 DEF TypeInv, TypeOK, RequestsTypeOK, GroupInv, Grouped,
       RemoveEntity, DeleteEntity
  <2>2. \A q \in Requests : GroupsChecked(q)'
    <3>1. UNCHANGED <<op, tenant, devs, kind, failed, groups>>
      BY <1>15 DEF RemoveEntity, DeleteEntity, DeleteStep, Settle
    <3>2. pc[r] \notin {"idle", "group", "mkgroup"} /\ pc'[r] \notin {"idle", "group", "mkgroup"}
      BY <1>15 DEF TypeInv, TypeOK, RequestsTypeOK, RemoveEntity, DeleteEntity, DeleteStep, Settle, LoopLabel
    <3>3. \A q \in Requests \ {r} : pc'[q] = pc[q] /\ types'[q] = types[q]
      BY <1>15 DEF TypeInv, TypeOK, RequestsTypeOK, RemoveEntity, DeleteEntity, DeleteStep, Settle
    <3> QED BY <1>15, <3>1, <3>2, <3>3, CheckedStays DEF GroupInv
  <2>3. \A q \in Requests : Subscribed(q)'
    BY <1>15 DEF TypeInv, TypeOK, RequestsTypeOK, GroupInv, Subscribed, OwnCall, RemoveEntity,
       DeleteEntity, DeleteStep, Settle, LoopLabel
  <2>4. \A q \in Requests : BatchAllowed(q)'
    <3>1. CASE ok
      BY <1>15, <3>1 DEF TypeInv, TypeOK, RequestsTypeOK, GroupInv, BatchAllowed, RemoveEntity,
         DeleteStep
    <3>2. CASE ~ok
      BY <1>15, <3>2, SettleBatch DEF TypeInv, TypeOK, GroupInv, RemoveEntity, DeleteStep
    <3> QED BY <1>15, <3>1, <3>2
  <2>5. \A q \in Requests : OwnCall(q)'
    BY <1>15 DEF TypeInv, TypeOK, RequestsTypeOK, GroupInv, OwnCall, RemoveEntity,
       DeleteEntity, DeleteStep, Settle, LoopLabel
  <2> QED BY <2>1, <2>2, <2>3, <2>4, <2>5 DEF GroupInv
<1>16. ASSUME TypeInv, GroupInv, NEW r \in Requests, NEW ok \in BOOLEAN, Unmap(r, ok)
      PROVE  GroupInv'
  <2>1. Grouped'
    <3>1. UNCHANGED <<agent, subs, groups, inflight>>
      BY <1>16 DEF Unmap, deleteDeviceTenantMapping
    <3>2. redis' = redis \/ redis' = [redis EXCEPT ![cur[r]] = NoTenant]
      BY <1>16 DEF Unmap, deleteDeviceTenantMapping
    <3> QED BY <1>16, <3>1, <3>2 DEF TypeInv, TypeOK, BackendsTypeOK, GroupInv, Grouped
  <2>2. \A q \in Requests : GroupsChecked(q)'
    <3>1. UNCHANGED <<op, tenant, devs, kind, failed, groups>>
      BY <1>16 DEF Unmap, deleteDeviceTenantMapping, Settle
    <3>2. pc[r] \notin {"idle", "group", "mkgroup"} /\ pc'[r] \notin {"idle", "group", "mkgroup"}
      BY <1>16 DEF TypeInv, TypeOK, RequestsTypeOK, Unmap, deleteDeviceTenantMapping, Settle, LoopLabel
    <3>3. \A q \in Requests \ {r} : pc'[q] = pc[q] /\ types'[q] = types[q]
      BY <1>16 DEF TypeInv, TypeOK, RequestsTypeOK, Unmap, deleteDeviceTenantMapping, Settle
    <3> QED BY <1>16, <3>1, <3>2, <3>3, CheckedStays DEF GroupInv
  <2>3. \A q \in Requests : Subscribed(q)'
    BY <1>16 DEF TypeInv, TypeOK, RequestsTypeOK, GroupInv, Subscribed, OwnCall, Unmap,
       deleteDeviceTenantMapping, Settle, LoopLabel
  <2>4. \A q \in Requests : BatchAllowed(q)'
    BY <1>16 DEF TypeInv, TypeOK, RequestsTypeOK, GroupInv, BatchAllowed, Unmap,
       deleteDeviceTenantMapping, Settle, LoopLabel
  <2>5. \A q \in Requests : OwnCall(q)'
    BY <1>16 DEF TypeInv, TypeOK, RequestsTypeOK, GroupInv, OwnCall, Unmap,
       deleteDeviceTenantMapping, Settle, LoopLabel
  <2> QED BY <2>1, <2>2, <2>3, <2>4, <2>5 DEF GroupInv
<1>17. ASSUME TypeInv, GroupInv, Messages PROVE GroupInv'
  <2>1. UNCHANGED <<groups, subs, redis, requestVars>>
    BY <1>17 DEF Messages, RouteMessage, DeliverMessage
  <2>2. Grouped'
    <3>1. ASSUME NEW i \in Imeis, RouteMessage(i) PROVE Grouped'
      BY <1>17, <3>1 DEF TypeInv, TypeOK, BackendsTypeOK, Device, GroupInv, Grouped, RouteMessage
    <3>2. ASSUME NEW t \in Tenants, NEW i \in Imeis, DeliverMessage(t, i) PROVE Grouped'
      <4>1. t \in subs
        BY <1>17, <3>2 DEF GroupInv, Grouped, DeliverMessage
      <4>2. agent' = agent \/ (agent' = agent \cup {<<t, i>>} /\ \E ty \in Types : <<t, ty>> \in groups)
        BY <3>2 DEF DeliverMessage
      <4>3. inflight' \subseteq inflight
        BY <3>2 DEF DeliverMessage
      <4> QED BY <1>17, <2>1, <4>1, <4>2, <4>3 DEF GroupInv, Grouped
    <3> QED BY <1>17, <3>1, <3>2 DEF Messages
  <2>3. \A q \in Requests : GroupsChecked(q)' /\ Subscribed(q)' /\ BatchAllowed(q)' /\ OwnCall(q)'
    BY <1>17, <2>1 DEF GroupInv, GroupsChecked, Unchecked, Subscribed, BatchAllowed, OwnCall,
       Active, TypesOf, requestVars
  <2> QED BY <2>2, <2>3 DEF GroupInv
<1>18. ASSUME TypeInv, GroupInv, UNCHANGED vars PROVE GroupInv'
  BY <1>18 DEF GroupInv, Grouped, GroupsChecked, Unchecked, Subscribed,
     BatchAllowed, OwnCall, Active,
               TypesOf, vars, backendVars, requestVars
<1> QED BY <1>1, <1>2, <1>3, <1>4, <1>5, <1>6, <1>7, <1>8, <1>9, <1>10, <1>11, <1>12, <1>13, <1>14, <1>15, <1>16, <1>17, <1>18 DEF Next, HandlerStep, Reply, Crash

\* No device reaches the IoT Agent without its service group and its tenant's
\* subscription, however many requests race and whichever calls fail.
THEOREM AgentDevicesAlwaysHaveGroup == Spec => []AgentDevicesHaveGroup
<1>1. Init => TypeInv /\ GroupInv
  <2>1. Init => TypeInv
    BY InitTypeInv
  <2>2. Init => GroupInv
    BY BackendsAssumption DEF Init, BackendsInit, GroupInv, Grouped, GroupsChecked, Subscribed,
       BatchAllowed, OwnCall, Active
  <2> QED BY <2>1, <2>2
<1>2. TypeInv /\ GroupInv => AgentDevicesHaveGroup
  <2> SUFFICES ASSUME TypeInv, GroupInv PROVE AgentDevicesHaveGroup
    OBVIOUS
  <2>1. ASSUME NEW r \in Requests, pc[r] = "agent", NEW i \in batch[r]
        PROVE  <<tenant[r], kind[r][i]>> \in groups
    <3>1. op[r] = "create" /\ i \in devs[r] /\ kind[r][i] \notin failed[r]
      BY <2>1 DEF GroupInv, OwnCall, BatchAllowed
    <3> QED BY <2>1, <3>1 DEF GroupInv, GroupsChecked, Unchecked, Active, TypesOf
  <2> QED BY <2>1 DEF GroupInv, Grouped, AgentDevicesHaveGroup
<1> QED BY <1>1, <1>2, TypeStep, GroupStep, PTL DEF Spec

-------------------------------------------------------------------------------
(* The calls a request has left *)

\* Wherever a request is there is something for it to do.
Workable(r) ==
    /\ devs[r] # {} <=> Active(r)
    /\ types[r] \subseteq TypesOf(r)
    /\ todo[r] \subseteq devs[r] /\ batch[r] \subseteq devs[r]
    /\ pc[r] \in {"group", "mkgroup", "batch"} => types[r] # {}
    /\ pc[r] = "mkgroup" => cur[r] \in types[r]
    /\ pc[r] \in {"lookup", "map"} => todo[r] # {}
    /\ pc[r] \in {"entity", "update", "unagent", "unentity", "unmap"} => cur[r] \in todo[r]
    /\ pc[r] = "agent" => todo[r] = {} /\ batch[r] # {}

\* The sets a request works on are finite.
LEMMA Sizes ==
    ASSUME TypeInv, NEW r \in Requests, Workable(r)
    PROVE  /\ IsFiniteSet(devs[r]) /\ IsFiniteSet(TypesOf(r)) /\ IsFiniteSet(types[r])
           /\ IsFiniteSet(todo[r]) /\ IsFiniteSet(batch[r])
           /\ Cardinality(devs[r]) \in Nat /\ Cardinality(TypesOf(r)) \in Nat
           /\ Cardinality(types[r]) \in Nat /\ Cardinality(todo[r]) \in Nat
           /\ Cardinality(batch[r]) \in Nat
<1>1. devs[r] \in SUBSET Imeis /\ todo[r] \in SUBSET Imeis /\ batch[r] \in SUBSET Imeis
  BY DEF TypeInv, TypeOK, RequestsTypeOK
<1>2. IsFiniteSet(Imeis) BY BackendsAssumption
<1>3. IsFiniteSet(devs[r]) /\ IsFiniteSet(todo[r]) /\ IsFiniteSet(batch[r])
  BY <1>1, <1>2, FS_Subset
<1>4. IsFiniteSet(TypesOf(r))
  <2> DEFINE f == [i \in devs[r] |-> kind[r][i]]
  <2>1. f \in Surjection(devs[r], TypesOf(r))
    BY DEF Surjection, TypesOf
  <2> QED BY <1>3, <2>1, FS_Surjection
<1>5. IsFiniteSet(types[r]) BY <1>4, FS_Subset DEF Workable
<1> QED BY <1>3, <1>4, <1>5, FS_CardinalityType

\* One less.
LEMMA OneLess ==
    ASSUME NEW S, IsFiniteSet(S), NEW x \in S
    PROVE  Cardinality(S \ {x}) = Cardinality(S) - 1 /\ Cardinality(S) >= 1
           /\ Cardinality(S) \in Nat
BY FS_RemoveElement, FS_CardinalityType, FS_EmptySet

\* A round less.
LEMMA RoundLess ==
    ASSUME NEW k \in Nat, NEW n \in Nat
    PROVE  k * n \in Nat /\ k * (n - 1) = k * n - k
OBVIOUS

\* In the loops over service groups every step leaves less to do.
LEMMA GroupsLess ==
    ASSUME NEW k \in Nat, NEW td \in Nat, NEW t \in Nat, NEW n \in Nat, NEW b \in Nat
    PROVE  /\ Left("mkgroup", k, td, t, n, b) < Left("group", k, td, t, n, b)
           /\ t >= 1 => \A p \in {"group", "mkgroup"}, s \in Nat :
                 /\ Left("group", k, td, t - 1, n, b) < Left(p, k, td, t, n, b)
                 /\ Left("sub", k, td, s, n, b) < Left(p, k, td, t, n, b)
           /\ Left("mksub", k, td, t, n, b) < Left("sub", k, td, t, n, b)
           /\ \A p \in {"sub", "mksub"} :
                 /\ Left("batch", k, td, td, n, b) < Left(p, k, td, t, n, b)
                 /\ Left("reply", k, td, t, n, b) < Left(p, k, td, t, n, b)
           /\ t >= 1 => \A m \in Nat : 5 * m + 3 <= k =>
                 Left("lookup", k, td, t - 1, m, b) < Left("batch", k, td, t, n, b)
           /\ t >= 1 /\ k >= 3 =>
                 /\ Left("batch", k, td, t - 1, n, b) < Left("batch", k, td, t, n, b)
                 /\ Left("reply", k, td, t - 1, n, b) < Left("batch", k, td, t, n, b)
<1>1. k * td \in Nat /\ k * t \in Nat /\ k * (t - 1) = k * t - k /\ (t >= 1 => k * (t - 1) \in Nat)
  BY RoundLess
<1> QED BY <1>1 DEF Left

\* And so does every step in the loops over IMEIs.
LEMMA ImeisLess ==
    ASSUME NEW k \in Nat, NEW td \in Nat, NEW t \in Nat, NEW n \in Nat, NEW b \in Nat
    PROVE  /\ \A here \in {"lookup", "map"}, p \in {"batch", "reply"} :
                 Left(p, k, td, t, 0, b) <= Left(here, k, td, t, 0, b)
           /\ n >= 1 => \A c \in {b, b + 1} :
                 /\ Left("lookup", k, td, t, n - 1, c) < Left("lookup", k, td, t, n, b)
                 /\ Left("agent", k, td, t, n - 1, c) < Left("lookup", k, td, t, n, b)
                 /\ Left("batch", k, td, t, n - 1, c) < Left("lookup", k, td, t, n, b)
                 /\ Left("reply", k, td, t, n - 1, c) < Left("lookup", k, td, t, n, b)
           /\ \A p \in {"update", "unagent"} :
                 Left(p, k, td, t, n, b) < Left("lookup", k, td, t, n, b)
           /\ Left("unentity", k, td, t, n, b) < Left("unagent", k, td, t, n, b)
           /\ Left("unmap", k, td, t, n, b) < Left("unentity", k, td, t, n, b)
           /\ n >= 1 => \A p \in {"lookup", "update", "unagent", "unentity", "unmap"} :
                 Left("lookup", k, td, t, n - 1, b) < Left(p, k, td, t, n, b)
           /\ b >= 1 =>
                 /\ Left("map", k, td, t, b, 0) < Left("agent", k, td, t, n, b)
                 /\ Left("batch", k, td, t, n, 0) < Left("agent", k, td, t, n, b)
                 /\ Left("reply", k, td, t, n, 0) < Left("agent", k, td, t, n, b)
           /\ Left("entity", k, td, t, n, b) < Left("map", k, td, t, n, b)
           /\ n >= 1 => \A p \in {"map", "entity"} :
                 Left("map", k, td, t, n - 1, b) < Left(p, k, td, t, n, b)
<1>1. k * t \in Nat
  BY RoundLess
<1> QED BY <1>1 DEF Left

\* Only a request that is over has no call left.
LEMMA LeftType ==
    ASSUME NEW k \in Nat, NEW td \in Nat, NEW t \in Nat, NEW n \in Nat, NEW b \in Nat
    PROVE  \A p \in Labels \ {"idle"} : (p \in {"entity", "unentity", "unmap"} => n >= 1) =>
               /\ Left(p, k, td, t, n, b) \in Nat
               /\ Left("idle", k, td, t, n, b) < Left(p, k, td, t, n, b)
<1>1. k * td \in Nat /\ k * t \in Nat
  BY RoundLess
<1> DEFINE Some(p) == /\ Left(p, k, td, t, n, b) \in Nat
                     /\ Left("idle", k, td, t, n, b) < Left(p, k, td, t, n, b)
<1>2. Some("reply") /\ Some("group") /\ Some("mkgroup")
  BY <1>1 DEF Left
<1>3. Some("sub") /\ Some("mksub")
  BY <1>1 DEF Left
<1>4. Some("batch") /\ Some("lookup") /\ Some("agent")
  BY <1>1 DEF Left
<1>5. Some("map") /\ Some("update") /\ Some("unagent")
  BY <1>1 DEF Left
<1>6. n >= 1 => Some("entity") /\ Some("unentity") /\ Some("unmap")
  BY <1>1 DEF Left
<1> HIDE DEF Some
<1>7. \A p \in Labels \ {"idle"} : (p \in {"entity", "unentity", "unmap"} => n >= 1) => Some(p)
  BY <1>2, <1>3, <1>4, <1>5, <1>6 DEF Labels
<1> QED BY <1>7 DEF Some

\* The calls left are a number.
LEMMA CallsType ==
    ASSUME TypeInv, NEW r \in Requests, Workable(r)
    PROVE  CallsLeft(r) \in Nat
<1>1. pc[r] \in Labels
  BY DEF TypeInv, TypeOK, RequestsTypeOK
<1>2. pc[r] \in {"entity", "unentity", "unmap"} => Cardinality(todo[r]) >= 1
  BY Sizes, OneLess DEF Workable
<1>3. CASE pc[r] = "idle"
  BY <1>3 DEF CallsLeft, Left
<1>4. CASE pc[r] # "idle"
  <2> DEFINE k == 5 * Cardinality(devs[r]) + 3
  <2>1. k \in Nat
    BY Sizes
  <2> HIDE DEF k
  <2>2. Left(pc[r], k, Cardinality(TypesOf(r)), Cardinality(types[r]), Cardinality(todo[r]),
             Cardinality(batch[r])) \in Nat
    BY <1>1, <1>2, <1>4, <2>1, Sizes, LeftType
  <2> QED BY <2>2 DEF CallsLeft, k
<1> QED BY <1>3, <1>4

\* What a step of a request does for it: there is work left, and less of it.
Advanced(r) == Workable(r)' /\ CallsLeft(r)' < CallsLeft(r)

\* A round of the first loop.
LEMMA GroupAdvanced ==
    ASSUME TypeInv, NEW r \in Requests, Workable(r), NEW ty, ty \in types[r],
           pc[r] \in {"group", "mkgroup"}, GroupDone(r, ty), UNCHANGED <<devs, kind, todo, batch>>
    PROVE  Advanced(r)
<1>1. /\ types'[r] = types[r] \ {ty}
      /\ pc'[r] = IF types[r] = {ty} THEN "sub" ELSE "group"
      /\ TypesOf(r)' = TypesOf(r)
  BY DEF TypeInv, TypeOK, RequestsTypeOK, GroupDone, TypesOf
<1>2. Workable(r)'
  BY <1>1 DEF Workable, Active
<1> DEFINE k == 5 * Cardinality(devs[r]) + 3
           td == Cardinality(TypesOf(r))
           t == Cardinality(types[r])
           n == Cardinality(todo[r])
           b == Cardinality(batch[r])
<1>3. k \in Nat /\ td \in Nat /\ t \in Nat /\ n \in Nat /\ b \in Nat
  BY Sizes
<1>4. t >= 1 /\ Cardinality(types'[r]) = t - 1
  BY <1>1, Sizes, OneLess
<1>5. CallsLeft(r) = Left(pc[r], k, td, t, n, b) /\ CallsLeft(r)' = Left(pc'[r], k, td, t - 1, n, b)
  BY <1>4 DEF CallsLeft, TypesOf
<1> HIDE DEF k, td, t, n, b
<1>6. t - 1 \in Nat
  BY <1>3, <1>4
<1>7. /\ Left("group", k, td, t - 1, n, b) < Left(pc[r], k, td, t, n, b)
      /\ Left("sub", k, td, t - 1, n, b) < Left(pc[r], k, td, t, n, b)
  BY <1>3, <1>4, <1>6, GroupsLess
<1> QED BY <1>1, <1>2, <1>5, <1>7 DEF Advanced

\* The check of the subscription.
LEMMA SubscriptionAdvanced ==
    ASSUME TypeInv, NEW r \in Requests, Workable(r), pc[r] \in {"sub", "mksub"},
           SubscriptionDone(r) \/ SubscriptionFailed(r), UNCHANGED <<devs, kind, todo, batch, cur>>
    PROVE  Advanced(r)
<1> DEFINE k == 5 * Cardinality(devs[r]) + 3
           td == Cardinality(TypesOf(r))
           t == Cardinality(types[r])
           n == Cardinality(todo[r])
           b == Cardinality(batch[r])
<1>1. k \in Nat /\ td \in Nat /\ t \in Nat /\ n \in Nat /\ b \in Nat
  BY Sizes
<1>2. CASE SubscriptionDone(r)
  <2>1. pc'[r] = "batch" /\ types'[r] = TypesOf(r)
    BY <1>2 DEF TypeInv, TypeOK, RequestsTypeOK, SubscriptionDone
  <2>2. TypesOf(r) # {}
    BY DEF TypesOf, Workable, Active
  <2>3. Workable(r)'
    BY <2>1, <2>2 DEF Workable, Active, TypesOf
  <2>4. CallsLeft(r) = Left(pc[r], k, td, t, n, b) /\ CallsLeft(r)' = Left("batch", k, td, td, n, b)
    BY <2>1 DEF CallsLeft, TypesOf
  <2> HIDE DEF k, td, t, n, b
  <2> QED BY <1>1, <2>3, <2>4, GroupsLess DEF Advanced
<1>3. CASE SubscriptionFailed(r)
  <2>1. pc'[r] = "reply" /\ types'[r] = types[r]
    BY <1>3 DEF TypeInv, TypeOK, RequestsTypeOK, SubscriptionFailed
  <2>2. Workable(r)'
    BY <2>1 DEF Workable, Active, TypesOf
  <2>3. CallsLeft(r) = Left(pc[r], k, td, t, n, b) /\ CallsLeft(r)' = Left("reply", k, td, t, n, b)
    BY <2>1 DEF CallsLeft, TypesOf
  <2> HIDE DEF k, td, t, n, b
  <2> QED BY <1>1, <2>2, <2>3, GroupsLess DEF Advanced
<1> QED BY <1>2, <1>3

\* One IMEI of a loop is settled.
LEMMA SettleAdvanced ==
    ASSUME TypeInv, NEW r \in Requests, Workable(r), NEW i \in todo[r], NEW status,
           NEW here \in {"lookup", "map"}, Settle(r, {i}, status, here), UNCHANGED batch,
           \/ here = "lookup" /\ pc[r] \in {"lookup", "update", "unagent", "unentity", "unmap"}
           \/ here = "map" /\ pc[r] \in {"map", "entity"}
    PROVE  Advanced(r)
<1>1. /\ todo'[r] = todo[r] \ {i}
      /\ pc'[r] = LoopLabel(r, here, todo'[r])
      /\ UNCHANGED <<devs, kind, types>>
  BY DEF TypeInv, TypeOK, RequestsTypeOK, Settle
<1>2. Workable(r)'
  BY <1>1 DEF Workable, Active, LoopLabel, TypesOf
<1> DEFINE k == 5 * Cardinality(devs[r]) + 3
           td == Cardinality(TypesOf(r))
           t == Cardinality(types[r])
           n == Cardinality(todo[r])
           b == Cardinality(batch[r])
<1>3. k \in Nat /\ td \in Nat /\ t \in Nat /\ n \in Nat /\ b \in Nat
  BY Sizes
<1>4. n >= 1 /\ Cardinality(todo'[r]) = n - 1
  BY <1>1, Sizes, OneLess
<1>5. CallsLeft(r) = Left(pc[r], k, td, t, n, b) /\ CallsLeft(r)' = Left(pc'[r], k, td, t, n - 1, b)
  BY <1>1, <1>4 DEF CallsLeft, TypesOf
<1>6. pc'[r] = here \/ (pc'[r] \in {"batch", "reply"} /\ n - 1 = 0)
  <2>1. todo'[r] = {} => n - 1 = 0
    BY <1>4, FS_EmptySet
  <2> HIDE DEF n
  <2> QED BY <1>1, <2>1 DEF LoopLabel
<1> HIDE DEF k, td, t, n, b
<1>7. Left(here, k, td, t, n - 1, b) < Left(pc[r], k, td, t, n, b)
  BY <1>3, <1>4, ImeisLess
<1>8. n - 1 \in Nat
  BY <1>3, <1>4
<1>9. Left(pc'[r], k, td, t, n - 1, b) <= Left(here, k, td, t, n - 1, b)
  <2>1. Left(here, k, td, t, n - 1, b) \in Nat
    BY <1>3, <1>8, LeftType DEF Labels
  <2>2. CASE pc'[r] = here
    BY <2>1, <2>2
  <2>3. CASE pc'[r] \in {"batch", "reply"} /\ n - 1 = 0
    <3>1. Left(pc'[r], k, td, t, 0, b) <= Left(here, k, td, t, 0, b)
      BY <1>3, <2>3, ImeisLess
    <3> QED BY <2>3, <3>1
  <2> QED BY <1>6, <2>2, <2>3
<1>10. /\ Left(here, k, td, t, n - 1, b) \in Nat /\ Left(pc[r], k, td, t, n, b) \in Nat
       /\ Left(pc'[r], k, td, t, n - 1, b) \in Nat
  <2>1. Left(here, k, td, t, n - 1, b) \in Nat
    BY <1>3, <1>8, LeftType DEF Labels
  <2>2. Left(pc[r], k, td, t, n, b) \in Nat
    BY <1>3, <1>4, LeftType DEF Labels
  <2>3. pc'[r] \in {"lookup", "map", "batch", "reply"}
    BY <1>6
  <2>4. Left(pc'[r], k, td, t, n - 1, b) \in Nat
    BY <1>3, <1>8, <2>3, LeftType DEF Labels
  <2> QED BY <2>1, <2>2, <2>4
<1> QED BY <1>2, <1>5, <1>7, <1>9, <1>10 DEF Advanced

\* A round of the second loop is begun.
LEMMA NextAdvanced ==
    ASSUME TypeInv, NEW r \in Requests, Workable(r), NEW ty \in Types, NextGroup(r, ty),
           \E i \in devs[r] : kind[r][i] = ty
    PROVE  Advanced(r)
<1> DEFINE k == 5 * Cardinality(devs[r]) + 3
           td == Cardinality(TypesOf(r))
           t == Cardinality(types[r])
           n == Cardinality(todo[r])
           b == Cardinality(batch[r])
           D == {i \in devs[r] : kind[r][i] = ty}
<1>1. k \in Nat /\ td \in Nat /\ t \in Nat /\ n \in Nat /\ b \in Nat
  BY Sizes
<1>2. /\ types'[r] = types[r] \ {ty}
      /\ UNCHANGED <<devs, kind, batch>>
      /\ pc[r] = "batch" /\ ty \in types[r]
  BY DEF TypeInv, TypeOK, RequestsTypeOK, NextGroup
<1>3. t >= 1 /\ t - 1 \in Nat /\ Cardinality(types'[r]) = t - 1
  <2>1. t >= 1 /\ Cardinality(types'[r]) = t - 1
    BY <1>2, Sizes, OneLess
  <2> HIDE DEF t
  <2> QED BY <1>1, <2>1
<1>4. CASE ty \in failed[r]
  <2>1. todo' = todo /\ pc'[r] = IF types[r] = {ty} THEN "reply" ELSE "batch"
    BY <1>4 DEF TypeInv, TypeOK, RequestsTypeOK, NextGroup
  <2>2. Workable(r)'
    BY <1>2, <2>1 DEF Workable, Active, TypesOf
  <2>3. CallsLeft(r) = Left("batch", k, td, t, n, b) /\ CallsLeft(r)' = Left(pc'[r], k, td, t - 1, n, b)
    BY <1>2, <1>3, <2>1 DEF CallsLeft, TypesOf
  <2> HIDE DEF k, td, t, n, b
  <2>4. /\ Left("batch", k, td, t - 1, n, b) < Left("batch", k, td, t, n, b)
        /\ Left("reply", k, td, t - 1, n, b) < Left("batch", k, td, t, n, b)
    <3>1. k >= 3 BY Sizes DEF k
    <3> QED BY <1>1, <1>3, <3>1, GroupsLess
  <2> QED BY <2>1, <2>2, <2>3, <2>4 DEF Advanced
<1>5. CASE ty \notin failed[r]
  <2>1. pc'[r] = "lookup" /\ todo'[r] = D
    BY <1>5 DEF TypeInv, TypeOK, RequestsTypeOK, NextGroup
  <2>2. D # {} /\ D \subseteq devs[r]
    OBVIOUS
  <2> HIDE DEF D
  <2>3. Workable(r)'
    BY <1>2, <2>1, <2>2 DEF Workable, Active, TypesOf
  <2>4. Cardinality(D) \in Nat /\ 5 * Cardinality(D) + 3 <= k
    BY <2>2, Sizes, FS_Subset, FS_CardinalityType
  <2>5. CallsLeft(r) = Left("batch", k, td, t, n, b) /\ CallsLeft(r)' = Left("lookup", k, td, t - 1, Cardinality(D), b)
    BY <1>2, <1>3, <2>1 DEF CallsLeft, TypesOf
  <2> HIDE DEF k, td, t, n, b
  <2>6. Left("lookup", k, td, t - 1, Cardinality(D), b) < Left("batch", k, td, t, n, b)
    BY <1>1, <1>3, <2>4, GroupsLess
  <2> QED BY <2>3, <2>5, <2>6 DEF Advanced
<1> QED BY <1>4, <1>5

\* A lookup of HandleCreate.
LEMMA LookupAdvanced ==
    ASSUME TypeInv, NEW r \in Requests, Workable(r), NEW i \in Imeis, LookupForCreate(r, i)
    PROVE  Advanced(r)
<1> DEFINE k == 5 * Cardinality(devs[r]) + 3
           td == Cardinality(TypesOf(r))
           t == Cardinality(types[r])
           n == Cardinality(todo[r])
           b == Cardinality(batch[r])
<1>1. k \in Nat /\ td \in Nat /\ t \in Nat /\ n \in Nat /\ b \in Nat
  BY Sizes
<1>2. /\ todo'[r] = todo[r] \ {i} /\ i \in todo[r]
      /\ UNCHANGED <<devs, kind, types>>
      /\ pc[r] = "lookup"
      /\ batch'[r] \in {batch[r], batch[r] \cup {i}}
      /\ pc'[r] = AfterLookup(r, todo'[r], batch'[r])
  BY DEF TypeInv, TypeOK, RequestsTypeOK, LookupForCreate
<1>3. Workable(r)'
  BY <1>2 DEF Workable, Active, AfterLookup, LoopLabel, TypesOf
<1>4. n >= 1 /\ n - 1 \in Nat /\ Cardinality(todo'[r]) = n - 1
  <2>1. n >= 1 /\ Cardinality(todo'[r]) = n - 1
    BY <1>2, Sizes, OneLess
  <2> HIDE DEF n
  <2> QED BY <1>1, <2>1
<1>5. Cardinality(batch'[r]) \in {b, b + 1}
  BY <1>2, Sizes, FS_AddElement
<1>6. CallsLeft(r) = Left("lookup", k, td, t, n, b)
      /\ CallsLeft(r)' = Left(pc'[r], k, td, t, n - 1, Cardinality(batch'[r]))
  BY <1>2, <1>4 DEF CallsLeft, TypesOf
<1>7. pc'[r] \in {"lookup", "agent", "batch", "reply"}
  BY <1>2 DEF AfterLookup, LoopLabel
<1> DEFINE c == Cardinality(batch'[r])
<1> HIDE DEF k, td, t, n, b, c
<1>8. /\ Left("lookup", k, td, t, n - 1, c) < Left("lookup", k, td, t, n, b)
      /\ Left("agent", k, td, t, n - 1, c) < Left("lookup", k, td, t, n, b)
      /\ Left("batch", k, td, t, n - 1, c) < Left("lookup", k, td, t, n, b)
      /\ Left("reply", k, td, t, n - 1, c) < Left("lookup", k, td, t, n, b)
  <2>1. c \in {b, b + 1} BY <1>5 DEF c
  <2> QED BY <1>1, <1>4, <2>1, ImeisLess
<1> QED BY <1>3, <1>6, <1>7, <1>8 DEF Advanced, c

\* The batch goes to the IoT Agent.
LEMMA BatchAdvanced ==
    ASSUME TypeInv, NEW r \in Requests, Workable(r), NEW ok \in BOOLEAN, ProvisionBatch(r, ok)
    PROVE  Advanced(r)
<1> DEFINE k == 5 * Cardinality(devs[r]) + 3
           td == Cardinality(TypesOf(r))
           t == Cardinality(types[r])
           n == Cardinality(todo[r])
           b == Cardinality(batch[r])
<1>1. k \in Nat /\ td \in Nat /\ t \in Nat /\ n \in Nat /\ b \in Nat
  BY Sizes
<1>2. pc[r] = "agent" /\ todo[r] = {} /\ batch[r] # {} /\ batch'[r] = {} /\ UNCHANGED <<devs, kind, types>>
  BY DEF TypeInv, TypeOK, RequestsTypeOK, ProvisionBatch, Settle, Workable
<1>3. b >= 1 /\ Cardinality(batch'[r]) = 0
  BY <1>2, Sizes, FS_EmptySet
<1>4. CASE ok
  <2>1. pc'[r] = "map" /\ todo'[r] = batch[r]
    BY <1>4 DEF TypeInv, TypeOK, RequestsTypeOK, ProvisionBatch
  <2>2. Workable(r)'
    BY <1>2, <2>1 DEF Workable, Active, TypesOf
  <2>3. CallsLeft(r) = Left("agent", k, td, t, n, b) /\ CallsLeft(r)' = Left("map", k, td, t, b, 0)
    BY <1>2, <1>3, <2>1 DEF CallsLeft, TypesOf
  <2> HIDE DEF k, td, t, n, b
  <2> QED BY <1>1, <1>3, <2>2, <2>3, ImeisLess DEF Advanced
<1>5. CASE ~ok
  <2>1. todo'[r] = {} /\ pc'[r] = IF types[r] # {} THEN "batch" ELSE "reply"
    BY <1>2, <1>5 DEF TypeInv, TypeOK, RequestsTypeOK, ProvisionBatch, Settle, LoopLabel
  <2>2. Workable(r)'
    BY <1>2, <2>1 DEF Workable, Active, TypesOf
  <2>3. CallsLeft(r) = Left("agent", k, td, t, n, b) /\ CallsLeft(r)' = Left(pc'[r], k, td, t, n, 0)
    BY <1>2, <1>3, <2>1 DEF CallsLeft, TypesOf
  <2> HIDE DEF k, td, t, n, b
  <2>4. /\ Left("batch", k, td, t, n, 0) < Left("agent", k, td, t, n, b)
        /\ Left("reply", k, td, t, n, 0) < Left("agent", k, td, t, n, b)
    BY <1>1, <1>3, ImeisLess
  <2> QED BY <2>1, <2>2, <2>3, <2>4 DEF Advanced
<1> QED BY <1>4, <1>5

\* A request goes on with the same element.
LEMMA MoveAdvanced ==
    ASSUME TypeInv, NEW r \in Requests, Workable(r), UNCHANGED <<devs, kind, types, todo, batch>>,
           Workable(r)',
           <<pc[r], pc'[r]>> \in
               {<<"group", "mkgroup">>, <<"sub", "mksub">>, <<"map", "entity">>, <<"lookup", "update">>,
                <<"lookup", "unagent">>, <<"unagent", "unentity">>, <<"unentity", "unmap">>}
    PROVE  Advanced(r)
<1> DEFINE k == 5 * Cardinality(devs[r]) + 3
           td == Cardinality(TypesOf(r))
           t == Cardinality(types[r])
           n == Cardinality(todo[r])
           b == Cardinality(batch[r])
<1>1. k \in Nat /\ td \in Nat /\ t \in Nat /\ n \in Nat /\ b \in Nat
  BY Sizes
<1>2. CallsLeft(r) = Left(pc[r], k, td, t, n, b) /\ CallsLeft(r)' = Left(pc'[r], k, td, t, n, b)
  BY DEF CallsLeft, TypesOf
<1> HIDE DEF k, td, t, n, b
<1>3. /\ Left("mkgroup", k, td, t, n, b) < Left("group", k, td, t, n, b)
      /\ Left("mksub", k, td, t, n, b) < Left("sub", k, td, t, n, b)
  BY <1>1, GroupsLess
<1>4. /\ Left("entity", k, td, t, n, b) < Left("map", k, td, t, n, b)
      /\ Left("update", k, td, t, n, b) < Left("lookup", k, td, t, n, b)
      /\ Left("unagent", k, td, t, n, b) < Left("lookup", k, td, t, n, b)
      /\ Left("unentity", k, td, t, n, b) < Left("unagent", k, td, t, n, b)
      /\ Left("unmap", k, td, t, n, b) < Left("unentity", k, td, t, n, b)
  BY <1>1, ImeisLess
<1> QED BY <1>2, <1>3, <1>4 DEF Advanced

\* The slot of a request is cleared.
LEMMA ClearAdvanced ==
    ASSUME TypeInv, NEW r \in Requests, Workable(r), Active(r), Clear(r)
    PROVE  Advanced(r)
<1>1. /\ pc'[r] = "idle" /\ devs'[r] = {} /\ types'[r] = {} /\ todo'[r] = {} /\ batch'[r] = {}
  BY DEF TypeInv, TypeOK, RequestsTypeOK, Clear
<1>2. Workable(r)'
  BY <1>1 DEF Workable, Active, TypesOf
<1>3. CallsLeft(r)' = 0
  BY <1>1 DEF CallsLeft, Left
<1>4. CallsLeft(r) > 0
  <2> DEFINE k == 5 * Cardinality(devs[r]) + 3
             td == Cardinality(TypesOf(r))
             t == Cardinality(types[r])
             n == Cardinality(todo[r])
             b == Cardinality(batch[r])
  <2>1. k \in Nat /\ td \in Nat /\ t \in Nat /\ n \in Nat /\ b \in Nat
    BY Sizes
  <2>2. pc[r] \in {"entity", "unentity", "unmap"} => n >= 1
    BY Sizes, OneLess DEF Workable
  <2>3. pc[r] \in Labels \ {"idle"}
    BY DEF TypeInv, TypeOK, RequestsTypeOK, Active
  <2>4. CallsLeft(r) = Left(pc[r], k, td, t, n, b)
    BY DEF CallsLeft
  <2> HIDE DEF k, td, t, n, b
  <2>5. Left("idle", k, td, t, n, b) = 0
    BY DEF Left
  <2> QED BY <2>1, <2>2, <2>3, <2>4, <2>5, LeftType
<1> QED BY <1>2, <1>3, <1>4 DEF Advanced

\* Whatever a request does next, and whatever is answered, it has less to do
\* then.
LEMMA Advances ==
    ASSUME TypeInv, NEW r \in Requests, Workable(r), HandlerStep(r) \/ Crash(r)
    PROVE  Advanced(r)
<1> USE DEF TypeInv, TypeOK, RequestsTypeOK
<1>1. CASE Reply(r) \/ Crash(r)
  BY <1>1, ClearAdvanced DEF Reply, Crash, Active
<1>2. ASSUME NEW ty \in Types, ServiceGroupExists(r, ty) PROVE Advanced(r)
  <2>1. pc[r] = "group" /\ ty \in types[r] /\ UNCHANGED <<devs, kind, todo, batch>>
    BY <1>2 DEF ServiceGroupExists
  <2>2. CASE GroupDone(r, ty)
    BY <2>1, <2>2, GroupAdvanced
  <2>3. CASE pc' = [pc EXCEPT ![r] = "mkgroup"] /\ cur' = [cur EXCEPT ![r] = ty] /\ UNCHANGED types
    <3>1. pc'[r] = "mkgroup" /\ cur'[r] = ty
      BY <2>3
    <3>2. Workable(r)'
      BY <2>1, <2>3, <3>1 DEF Workable, Active, TypesOf
    <3> QED BY <2>1, <2>3, <3>1, <3>2, MoveAdvanced
  <2> QED BY <1>2, <2>2, <2>3 DEF ServiceGroupExists
<1>3. ASSUME NEW ty \in Types, NextGroup(r, ty) PROVE Advanced(r)
  <2>1. \E i \in devs[r] : kind[r][i] = ty
    BY <1>3 DEF NextGroup, Workable, TypesOf
  <2> QED BY <1>3, <2>1, NextAdvanced
<1>4. ASSUME SubscriptionExists(r) PROVE Advanced(r)
  <2>1. pc[r] = "sub" /\ UNCHANGED <<devs, kind, todo, batch, cur>>
    BY <1>4 DEF SubscriptionExists
  <2>2. CASE SubscriptionDone(r) \/ SubscriptionFailed(r)
    BY <2>1, <2>2, SubscriptionAdvanced
  <2>3. CASE pc' = [pc EXCEPT ![r] = "mksub"] /\ UNCHANGED types
    <3>1. pc'[r] = "mksub"
      BY <2>3
    <3>2. Workable(r)'
      BY <2>1, <2>3, <3>1 DEF Workable, Active, TypesOf
    <3> QED BY <2>1, <2>3, <3>1, <3>2, MoveAdvanced
  <2> QED BY <1>4, <2>2, <2>3 DEF SubscriptionExists
<1>5. ASSUME NEW i \in Imeis, LookupForChange(r, i) PROVE Advanced(r)
  <2>1. pc[r] = "lookup" /\ i \in todo[r] /\ UNCHANGED batch
    BY <1>5 DEF LookupForChange
  <2>2. CASE \E status \in {"error", "not_found"} : Settle(r, {i}, status, "lookup")
    BY <2>1, <2>2, SettleAdvanced
  <2>3. CASE /\ pc' = [pc EXCEPT ![r] = IF op[r] = "update" THEN "update" ELSE "unagent"]
             /\ cur' = [cur EXCEPT ![r] = i]
             /\ UNCHANGED <<devs, kind, types, todo>>
    <3>1. pc'[r] \in {"update", "unagent"} /\ cur'[r] = i
      BY <2>3
    <3>2. Workable(r)'
      BY <2>1, <2>3, <3>1 DEF Workable, Active, TypesOf
    <3> QED BY <2>1, <2>3, <3>1, <3>2, MoveAdvanced
  <2> QED BY <1>5, <2>2, <2>3 DEF LookupForChange
<1>6. ASSUME NEW ok \in BOOLEAN, MakeServiceGroup(r, ok) PROVE Advanced(r)
  BY <1>6, GroupAdvanced DEF MakeServiceGroup, Workable
<1>7. ASSUME NEW ok \in BOOLEAN, MakeSubscription(r, ok) PROVE Advanced(r)
  BY <1>7, SubscriptionAdvanced DEF MakeSubscription
<1>8. ASSUME NEW ok \in BOOLEAN, NEW i \in Imeis, MapDevice(r, i, ok) PROVE Advanced(r)
  <2>1. pc[r] = "map" /\ i \in todo[r] /\ UNCHANGED batch
    BY <1>8 DEF MapDevice
  <2>2. CASE ok
    <3>1. pc'[r] = "entity" /\ cur'[r] = i /\ UNCHANGED <<devs, kind, types, todo>>
      BY <1>8, <2>2 DEF MapDevice
    <3>2. Workable(r)'
      BY <2>1, <3>1 DEF Workable, Active, TypesOf
    <3> QED BY <2>1, <3>1, <3>2, MoveAdvanced
  <2>3. CASE ~ok
    BY <1>8, <2>1, <2>3, SettleAdvanced DEF MapDevice
  <2> QED BY <2>2, <2>3
<1>9. ASSUME NEW ok \in BOOLEAN, MakeEntity(r, ok) PROVE Advanced(r)
  BY <1>9, SettleAdvanced DEF MakeEntity, Workable
<1>10. ASSUME NEW ok \in BOOLEAN, NEW empty \in BOOLEAN, PatchEntity(r, empty, ok) PROVE Advanced(r)
  BY <1>10, SettleAdvanced DEF PatchEntity, Workable
<1>11. ASSUME NEW ok \in BOOLEAN, NEW next,
              <<pc[r], next>> \in {<<"unagent", "unentity">>, <<"unentity", "unmap">>},
              DeleteStep(r, next, ok)
       PROVE  Advanced(r)
  <2>1. cur[r] \in todo[r] /\ UNCHANGED batch
    BY <1>11 DEF DeleteStep, Workable
  <2>2. CASE ok
    <3>1. pc'[r] = next /\ UNCHANGED <<devs, kind, types, todo, cur>>
      BY <1>11, <2>2 DEF DeleteStep
    <3>2. Workable(r)'
      BY <1>11, <2>1, <3>1 DEF Workable, Active, TypesOf
    <3> QED BY <1>11, <2>1, <3>1, <3>2, MoveAdvanced
  <2>3. CASE ~ok
    BY <1>11, <2>1, <2>3, SettleAdvanced DEF DeleteStep
  <2> QED BY <2>2, <2>3
<1>12. ASSUME NEW ok \in BOOLEAN, Unmap(r, ok) PROVE Advanced(r)
  BY <1>12, SettleAdvanced DEF Unmap, Workable
<1> QED BY <1>1, <1>2, <1>3, <1>4, <1>5, <1>6, <1>7, <1>8, <1>9, <1>10, <1>11, <1>12,
           LookupAdvanced, BatchAdvanced
        DEF HandlerStep, RemoveFromAgent, RemoveEntity

\* A request keeps its place when another one starts, goes on or dies.
LEMMA PlacesStay ==
    ASSUME TypeInv, NEW r \in Requests, NEW q \in Requests, q # r,
           \/ \E o \in Ops, t \in Tenants, D \in SUBSET Imeis : \E k \in KindsOf(o, D) : Start(r, o, t, D, k)
           \/ HandlerStep(r) \/ Crash(r)
    PROVE  Place(q)' = Place(q)
<1> USE DEF TypeInv, TypeOK, RequestsTypeOK, Place
<1>1. CASE \E o \in Ops, t \in Tenants, D \in SUBSET Imeis : \E k \in KindsOf(o, D) : Start(r, o, t, D, k)
  BY <1>1 DEF Start
<1>2. CASE Reply(r) \/ Crash(r)
  BY <1>2 DEF Reply, Crash, Clear
<1>3. CASE \E ty \in Types : ServiceGroupExists(r, ty)
  BY <1>3 DEF ServiceGroupExists, GroupDone
<1>4. CASE \E ty \in Types : NextGroup(r, ty)
  BY <1>4 DEF NextGroup
<1>5. CASE SubscriptionExists(r)
  BY <1>5 DEF SubscriptionExists, SubscriptionDone, SubscriptionFailed
<1>6. CASE \E i \in Imeis : LookupForCreate(r, i)
  BY <1>6 DEF LookupForCreate
<1>7. CASE \E i \in Imeis : LookupForChange(r, i)
  BY <1>7 DEF LookupForChange, Settle
<1>8. CASE \E ok \in BOOLEAN : MakeServiceGroup(r, ok)
  BY <1>8 DEF MakeServiceGroup, GroupDone
<1>9. CASE \E ok \in BOOLEAN : MakeSubscription(r, ok)
  BY <1>9 DEF MakeSubscription, SubscriptionDone, SubscriptionFailed
<1>10. CASE \E ok \in BOOLEAN : ProvisionBatch(r, ok)
  BY <1>10 DEF ProvisionBatch, Settle
<1>11. CASE \E ok \in BOOLEAN, i \in Imeis : MapDevice(r, i, ok)
  BY <1>11 DEF MapDevice, Settle
<1>12. CASE \E ok \in BOOLEAN : MakeEntity(r, ok) \/ \E empty \in BOOLEAN : PatchEntity(r, empty, ok)
  BY <1>12 DEF MakeEntity, PatchEntity, Settle
<1>13. CASE \E ok \in BOOLEAN : RemoveFromAgent(r, ok) \/ RemoveEntity(r, ok) \/ Unmap(r, ok)
  BY <1>13 DEF RemoveFromAgent, RemoveEntity, Unmap, DeleteStep, Settle
<1> QED BY <1>1, <1>2, <1>3, <1>4, <1>5, <1>6, <1>7, <1>8, <1>9, <1>10, <1>11, <1>12, <1>13
        DEF HandlerStep

\* A request that starts has work to do.
LEMMA StartWorkable ==
    ASSUME TypeInv, NEW r \in Requests, Workable(r), NEW o, NEW t, NEW D \in SUBSET Imeis,
           NEW k \in KindsOf(o, D), Start(r, o, t, D, k)
    PROVE  Workable(r)'
<1>1. /\ devs'[r] = D /\ D # {} /\ kind'[r] = k /\ batch'[r] = {}
      /\ types'[r] = IF o = "create" THEN {k[i] : i \in D} ELSE {}
      /\ todo'[r] = IF o = "create" THEN {} ELSE D
      /\ pc'[r] = IF o = "create" THEN "group" ELSE "lookup"
  BY DEF TypeInv, TypeOK, RequestsTypeOK, Start, Workable, Active
<1>2. {k[i] : i \in D} # {}
  BY <1>1
<1> QED BY <1>1, <1>2 DEF Workable, Active, TypesOf

WorkInv == \A r \in Requests : Workable(r)

\* Every step leaves the requests workable, and advances the one that made it.
LEMMA WorkStep ==
    TypeInv /\ WorkInv /\ [Next]_vars => WorkInv' /\ \A r \in Requests : RequestAdvances(r)
<1> SUFFICES ASSUME TypeInv, WorkInv, [Next]_vars, NEW q \in Requests
             PROVE  Workable(q)' /\ RequestAdvances(q)
  BY DEF WorkInv
<1>1. Workable(q)
  BY DEF WorkInv
<1> USE CallsType
<1>2. CASE HandlerStep(q) \/ Crash(q)
  <2>1. Workable(q)' /\ CallsLeft(q)' < CallsLeft(q) /\ CallsLeft(q) \in Nat
    BY <1>1, <1>2, Advances DEF Advanced
  <2>2. Place(q)' # Place(q)
    <3> SUFFICES ASSUME Place(q)' = Place(q) PROVE FALSE
      OBVIOUS
    <3>1. CallsLeft(q)' = CallsLeft(q)
      BY DEF Place, CallsLeft, TypesOf
    <3> QED BY <2>1, <3>1
  <2> QED BY <2>1, <2>2 DEF RequestAdvances
<1>3. CASE ~(HandlerStep(q) \/ Crash(q)) /\ Place(q)' = Place(q)
  BY <1>1, <1>3 DEF Place, Workable, Active, TypesOf, RequestAdvances
<1>4. CASE \E o \in Ops, t \in Tenants, D \in SUBSET Imeis : \E k \in KindsOf(o, D) : Start(q, o, t, D, k)
  BY <1>1, <1>2, <1>4, StartWorkable DEF Start, Active, RequestAdvances
<1>5. CASE Messages \/ UNCHANGED vars
  BY <1>2, <1>3, <1>5 DEF Messages, requestVars, vars, Place
<1>6. CASE \E r \in Requests \ {q} :
              \/ \E o \in Ops, t \in Tenants, D \in SUBSET Imeis : \E k \in KindsOf(o, D) : Start(r, o, t, D, k)
              \/ HandlerStep(r) \/ Crash(r)
  BY <1>2, <1>3, <1>6, PlacesStay
<1> QED BY <1>2, <1>4, <1>5, <1>6 DEF Next

\* A request is never stuck in a loop and never sent back: wherever it is there
\* is something its next call is about, every call of its handler, whatever is
\* answered, leaves it fewer calls to make, and nothing that others do in between,
\* messages and crashes included, gives it more.
THEOREM RequestsAdvance == Spec => [](\A r \in Requests : Workable(r)) /\ HandlersAdvance
<1>1. Init => TypeInv /\ WorkInv
  <2>1. Init => WorkInv
    BY DEF Init, WorkInv, Workable, Active, TypesOf
  <2> QED BY <2>1, InitTypeInv
<1>2. WorkInv => \A r \in Requests : Workable(r)
  BY DEF WorkInv
<1>3. TypeInv /\ WorkInv /\ [Next]_vars => [\A r \in Requests : RequestAdvances(r)]_vars
  BY WorkStep
<1>4. TypeInv /\ WorkInv /\ [Next]_vars => WorkInv'
  BY WorkStep
<1> QED BY <1>1, <1>2, <1>3, <1>4, TypeStep, PTL DEF Spec, HandlersAdvance
===============================================================================
