------------------------------ MODULE TenantCert -------------------------------
(***************************************************************************)
(* The certificate of a tenant (api/internal/pki/tenant.go), kept in a     *)
(* Kubernetes secret, and the three handlers that use it                   *)
(* (api/internal/device/certs.go): get or issue, rotate, info.             *)
(*                                                                         *)
(* Every tenant has a secret of its own, so this is about one of them.     *)
(* Certificates are numbered as they are generated.  Requests interleave   *)
(* between the calls to Kubernetes; an Update without a resourceVersion is *)
(* unconditional.                                                          *)
(***************************************************************************)
EXTENDS Integers

CONSTANTS
    Requests,    \* request slots
    Handlers,    \* the handlers that clients call
    MaxCerts     \* bound on the certificates generated

Ops == {"getOrIssue", "rotate", "info"}

ASSUME CertAssumption == Handlers \subseteq Ops /\ MaxCerts \in Nat

NoCert == 0

VARIABLES
    secret,    \* the certificate in secret tenant-cert-<cvr>, or NoCert
    issued,    \* how many were generated
    pc,        \* the call a request makes next
    op,        \* its handler
    tc,        \* the certificate it has got or generated
    answer,    \* what it was answered; "conflict" is the 500 of AlreadyExists
    held       \* what the secret held while it was in progress

requestVars == <<pc, op, tc, answer>>
certVars == <<secret, issued, requestVars, held>>

CertTypeOK ==
    /\ issued \in 0..MaxCerts
    /\ secret \in 0..issued
    /\ pc \in [Requests -> {"idle", "get", "generate", "update", "create"}]
    /\ op \in [Requests -> Ops]
    /\ tc \in [Requests -> 0..issued]
    /\ answer \in [Requests -> {"none", "bundle", "info", "notFound", "conflict", "error"}]
    /\ held \in [Requests -> SUBSET (0..issued)]
    /\ \A r \in Requests : answer[r] \in {"bundle", "info"} => tc[r] # NoCert

CertInit ==
    /\ secret = NoCert /\ issued = 0
    /\ pc = [r \in Requests |-> "idle"]
    /\ op = [r \in Requests |-> "info"]
    /\ tc = [r \in Requests |-> NoCert]
    /\ answer = [r \in Requests |-> "none"]
    /\ held = [r \in Requests |-> {}]

-------------------------------------------------------------------------------

\* The secret gets a certificate; every request in progress lives to see it.
Store(c) ==
    /\ secret' = c
    /\ held' = [q \in Requests |-> IF pc[q] = "idle" THEN held[q] ELSE held[q] \cup {c}]

Answer(r, a) ==
    /\ answer' = [answer EXCEPT ![r] = a]
    /\ pc' = [pc EXCEPT ![r] = "idle"]

Start(r, o) ==
    /\ pc[r] = "idle"
    /\ op' = [op EXCEPT ![r] = o]
    /\ pc' = [pc EXCEPT ![r] = IF o = "rotate" THEN "generate" ELSE "get"]
    /\ tc' = [tc EXCEPT ![r] = NoCert]
    /\ answer' = [answer EXCEPT ![r] = "none"]
    /\ held' = [held EXCEPT ![r] = {secret}]
    /\ UNCHANGED <<secret, issued>>

\* Mutant: any error of the call is taken for NotFound.
BuggyGet(r, ok) ==
    /\ pc[r] = "get"
    /\ tc' = [tc EXCEPT ![r] = IF ok THEN secret ELSE NoCert]
    /\ IF ok /\ secret # NoCert
         THEN Answer(r, IF op[r] = "info" THEN "info" ELSE "bundle")
         ELSE IF op[r] = "info" THEN Answer(r, "notFound")
         ELSE pc' = [pc EXCEPT ![r] = "generate"] /\ UNCHANGED answer
    /\ UNCHANGED <<secret, issued, op, held>>

\* Get: a secret that is not there is no error; info answers 404 then, and
\* GetOrIssue goes on to Issue.
Get(r, ok) ==
    /\ pc[r] = "get"
    /\ \/ /\ ok /\ secret # NoCert
          /\ tc' = [tc EXCEPT ![r] = secret]
          /\ Answer(r, IF op[r] = "info" THEN "info" ELSE "bundle")
       \/ /\ ok /\ secret = NoCert /\ op[r] = "info"
          /\ Answer(r, "notFound") /\ UNCHANGED tc
       \/ /\ ok /\ secret = NoCert /\ op[r] = "getOrIssue"
          /\ pc' = [pc EXCEPT ![r] = "generate"] /\ UNCHANGED <<tc, answer>>
       \/ ~ok /\ Answer(r, "error") /\ UNCHANGED tc
    /\ UNCHANGED <<secret, issued, op, held>>

\* Issue: a new key and certificate.
Generate(r) ==
    /\ pc[r] = "generate" /\ issued < MaxCerts
    /\ issued' = issued + 1
    /\ tc' = [tc EXCEPT ![r] = issued + 1]
    /\ pc' = [pc EXCEPT ![r] = "update"]
    /\ UNCHANGED <<secret, op, answer, held>>

GenerateFails(r) ==
    /\ pc[r] = "generate"
    /\ Answer(r, "error")
    /\ UNCHANGED <<secret, issued, op, tc, held>>

\* save: Update replaces whatever is in the secret; NotFound leads to Create.
Update(r, ok) ==
    /\ pc[r] = "update"
    /\ \/ ok /\ secret # NoCert /\ Store(tc[r]) /\ Answer(r, "bundle")
       \/ /\ ok /\ secret = NoCert
          /\ pc' = [pc EXCEPT ![r] = "create"]
          /\ UNCHANGED <<secret, held, answer>>
       \/ ~ok /\ secret # NoCert /\ Store(tc[r]) /\ Answer(r, "error")
       \/ ~ok /\ UNCHANGED <<secret, held>> /\ Answer(r, "error")
    /\ UNCHANGED <<issued, op, tc>>

\* Mutant: AlreadyExists is taken for success.
BuggyCreate(r, ok) ==
    /\ pc[r] = "create"
    /\ \/ ok /\ secret = NoCert /\ Store(tc[r]) /\ Answer(r, "bundle")
       \/ secret # NoCert /\ UNCHANGED <<secret, held>> /\ Answer(r, "bundle")
       \/ ~ok /\ secret = NoCert /\ Store(tc[r]) /\ Answer(r, "error")
       \/ ~ok /\ UNCHANGED <<secret, held>> /\ Answer(r, "error")
    /\ UNCHANGED <<issued, op, tc>>

\* save: Create fails when the secret is there by now.
Create(r, ok) ==
    /\ pc[r] = "create"
    /\ \/ ok /\ secret = NoCert /\ Store(tc[r]) /\ Answer(r, "bundle")
       \/ ok /\ secret # NoCert /\ UNCHANGED <<secret, held>> /\ Answer(r, "conflict")
       \/ ~ok /\ secret = NoCert /\ Store(tc[r]) /\ Answer(r, "error")
       \/ ~ok /\ UNCHANGED <<secret, held>> /\ Answer(r, "error")
    /\ UNCHANGED <<issued, op, tc>>

\* The client or the API process goes away in the middle.
RequestDies(r) ==
    /\ pc[r] # "idle"
    /\ pc' = [pc EXCEPT ![r] = "idle"]
    /\ UNCHANGED <<secret, issued, op, tc, answer, held>>

CertNext == \E r \in Requests :
    \/ \E o \in Handlers : Start(r, o)
    \/ \E ok \in BOOLEAN : Get(r, ok) \/ Update(r, ok) \/ Create(r, ok)
    \/ Generate(r) \/ GenerateFails(r) \/ RequestDies(r)

CertSpec == CertInit /\ [][CertNext]_certVars

-------------------------------------------------------------------------------

\* What a client is given was in the secret while its request was in progress,
\* whoever else issued or rotated meanwhile: nobody gets a certificate that was
\* refused by the store, or is told "not found" when there was one all along; and
\* only a request that began before the first certificate was stored can meet one
\* that it did not expect (tenant.go:137-175).
AnswersWereTrue ==
    \A r \in Requests :
        /\ answer[r] \in {"bundle", "info"} => tc[r] \in held[r]
        /\ answer[r] = "notFound" => NoCert \in held[r]
        /\ answer[r] = "conflict" => NoCert \in held[r] /\ held[r] # {NoCert}

\* A certificate is only replaced by a rotation or by a request that began when
\* there was none; a failing lookup does not make one.
ReplacedKnowingly ==
    [][secret \notin {NoCert, secret'} =>
          \E r \in Requests : tc[r] = secret' /\ (op[r] = "rotate" \/ NoCert \in held[r])]_certVars

\* API.md of GET /tenant/cert: "Calling it again for an existing certificate
\* returns the same bundle": only a rotation replaces a certificate that a client
\* was given.
GetNeverRotates ==
    [][secret' # secret /\ (\E q \in Requests : answer[q] = "bundle" /\ tc[q] = secret) =>
          \E r \in Requests : tc[r] = secret' /\ op[r] = "rotate"]_certVars
===============================================================================
