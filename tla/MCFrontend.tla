------------------------------- MODULE MCFrontend -----------------------------
(***************************************************************************)
(* Finite instances of the pages of the frontend and of the way of their   *)
(* requests.  A browser shows one page at a time and the parts keep no     *)
(* state in common: what another page, or the same page in an earlier      *)
(* visit, does to the server is among the steps from elsewhere of each     *)
(* part.  So a behaviour is one of one part, chosen at the start.          *)
(***************************************************************************)
EXTENDS RegisterPage, OverviewPage, CertCard, ApiProxy, TLC

CONSTANTS i1, i2, r1, r2

VARIABLE part

frontendVars == <<registerVars, overviewVars, cardVars, proxyVars, part>>

\* The first IMEI twice and something else; the two IMEIs.
MCFiles == {<<i1, i1, "bad">>, <<i1, i2>>}

Meta(plate, make) == [f \in Fields |-> IF f = Required THEN plate ELSE make]
MCStore == i1 :> Meta("a", "b") @@ i2 :> Meta("", "")
MCOutside == {Absent, Meta("b", "")}

\* A field left blank, both devices, and a second row for the first.
MCCsvFiles == {<<[imei |-> i1, meta |-> Meta("b", "")], [imei |-> i2, meta |-> Meta("a", "a")],
                 [imei |-> i1, meta |-> Meta("a", "a")]>>}

FrontendInit ==
    /\ part \in {"register", "overview", "card", "proxy"}
    /\ RegisterInit /\ OverviewInit /\ CardInit /\ ProxyInit

FrontendNext ==
    /\ UNCHANGED part
    /\ \/ part = "register" /\ RegisterNext /\ UNCHANGED <<overviewVars, cardVars, proxyVars>>
       \/ part = "overview" /\ OverviewNext /\ UNCHANGED <<registerVars, cardVars, proxyVars>>
       \/ part = "card" /\ CardNext /\ UNCHANGED <<registerVars, overviewVars, proxyVars>>
       \/ part = "proxy" /\ ProxyNext /\ UNCHANGED <<registerVars, overviewVars, cardVars>>

\* A browser ends every request with an answer or a failure.
FrontendSpec ==
    /\ FrontendInit /\ [][FrontendNext]_frontendVars
    /\ WF_frontendVars(part = "register" /\ (BulkArrives \/ BulkFails)
                         /\ UNCHANGED <<overviewVars, cardVars, proxyVars, part>>)

\* The variables of every part keep their types, and no part has a state its
\* page cannot render: the rotation dialog only for an administrator, the
\* spinner of the overview exactly while the list is asked for.
FrontendTypeOK == RegisterTypeOK /\ OverviewTypeOK /\ CardTypeOK /\ ProxyTypeOK
===============================================================================
