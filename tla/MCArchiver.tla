------------------------------ MODULE MCArchiver ------------------------------
(* Finite instances of Archiver. *)
EXTENDS Archiver, TLC

CONSTANTS i1, i2, i3, s1, s2

\* i1 and i2 are devices of one tenant, i3 of another.
MCSchemaOf == [i \in Imeis |-> IF i = i3 THEN s2 ELSE s1]

\* The two devices of a tenant are interchangeable.
MCSymmetry == Permutations({i1, i2})
===============================================================================
