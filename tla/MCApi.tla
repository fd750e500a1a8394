--------------------------------- MODULE MCApi --------------------------------
(***************************************************************************)
(* Finite instances of the operations of the API that touch neither        *)
(* devices nor each other: exports, the certificate of a tenant, and       *)
(* positions.  They keep no state in common, so a behaviour is one of one  *)
(* of them, chosen at the start.                                           *)
(***************************************************************************)
EXTENDS ExportJob, TenantCert, PositionStream

VARIABLE operation

apiVars == <<exportVars, certVars, streamVars, operation>>

\* What is not chosen begins in one way only.
ApiInit ==
    /\ operation \in {"export", "certificate", "positions"}
    /\ ExportInit /\ CertInit /\ StreamInit
    /\ operation # "export" => total \in [Jobs -> {0}]

ApiNext ==
    /\ UNCHANGED operation
    /\ \/ operation = "export" /\ ExportNext /\ UNCHANGED <<certVars, streamVars>>
       \/ operation = "certificate" /\ CertNext /\ UNCHANGED <<exportVars, streamVars>>
       \/ operation = "positions" /\ StreamNext /\ UNCHANGED <<exportVars, certVars>>

InExport(A) == operation = "export" /\ A /\ UNCHANGED <<certVars, streamVars, operation>>

\* The fairness of ExportFairSpec.
ApiSpec ==
    /\ ApiInit /\ [][ApiNext]_apiVars
    /\ \A j \in Jobs :
          /\ WF_apiVars(InExport(ApiStep(j)))
          /\ WF_apiVars(InExport(TimeUp(j))) /\ WF_apiVars(InExport(Expire(j)))

\* The variables of every operation keep their types; among other things, what
\* is answered with a certificate has one, and a poll never asks for what is still
\* to come (job.go:75-125, tenant.go:47-175, position.go:43).
ApiTypeOK == ExportTypeOK /\ CertTypeOK /\ StreamTypeOK
===============================================================================
