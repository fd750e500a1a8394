------------------------------ MODULE MCDevices -------------------------------
(* Finite instances of DeviceHandlers. *)
EXTENDS DeviceHandlers, TLC

\* Requests are interchangeable, and so are tenants, IMEIs and device types.
Symmetry ==
    Permutations(Requests) \cup Permutations(Tenants)
        \cup Permutations(Imeis) \cup Permutations(Types)
===============================================================================
