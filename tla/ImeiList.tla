------------------------------- MODULE ImeiList -------------------------------
(***************************************************************************)
(* The IMEIs of a tenant and lists of them (frontend/lib/imei.ts).  What   *)
(* a file holds is a sequence of tokens; the 15 digits and the check digit *)
(* of an IMEI are abstracted to membership of a set.                       *)
(***************************************************************************)
EXTENDS Integers, Sequences, FiniteSets

CONSTANTS
    Imeis,     \* the tokens that validateImei accepts
    NoFile     \* the value of a staged file when there is none

Valid(token) == token \in Imeis

\* A token is ok the first time it is seen and a duplicate after that.
ParseImeis(tokens) ==
    [k \in DOMAIN tokens |->
        IF ~Valid(tokens[k]) THEN "invalid"
        ELSE IF \E j \in 1..(k - 1) : tokens[j] = tokens[k] THEN "duplicate" ELSE "ok"]
===============================================================================
