--------------------------- MODULE DeviceOwnership ----------------------------
(***************************************************************************)
(* What the device registry promises of ownership, whatever the steps of   *)
(* the handlers: an IMEI has at most one owner, and passes from one tenant *)
(* to another only through being free (API.md: registering an IMEI that    *)
(* another tenant owns is an error).                                       *)
(***************************************************************************)
CONSTANTS Tenants, Imeis, NoTenant

VARIABLE owner

Init == owner = [i \in Imeis |-> NoTenant]

Claim(t, i) ==
    /\ owner[i] = NoTenant
    /\ owner' = [owner EXCEPT ![i] = t]

Release(i) ==
    /\ owner[i] # NoTenant
    /\ owner' = [owner EXCEPT ![i] = NoTenant]

Next == \E i \in Imeis : Release(i) \/ \E t \in Tenants : Claim(t, i)

Spec == Init /\ [][Next]_owner
===============================================================================
