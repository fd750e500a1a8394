-------------------------------- MODULE CertCard ------------------------------
(***************************************************************************)
(* The certificate card at the top of /overview and /register              *)
(* (frontend/components/tenant-certificate-card.tsx): an administrator     *)
(* downloads the tenant's certificate, which issues the first one, or has  *)
(* it rotated; after each the card asks for the certificate anew.          *)
(*                                                                         *)
(* Certificates are numbered as they are issued, 0 is none.  Others issue  *)
(* and rotate too.  Whether the card is folded out is left out.            *)
(***************************************************************************)
EXTENDS Integers

CONSTANT MaxSerial    \* bound on the certificates issued

ASSUME CardAssumption == MaxSerial \in Nat

VARIABLES
    cert,          \* server: the certificate of the tenant
    admin,         \* use-privileges: asked, yes, no
    loads,         \* GET /tenant/cert in flight: a number, and the answer or -1
    asks,          \* how many were made
    shown, certLoaded, certError,   \* state of use-tenant-certificate
    rotateOpen,
    action,        \* download or rotate, none, sent, answered or failed
    saved          \* the newest certificate saved to a file here

loadState == <<loads, asks, shown, certLoaded, certError>>
cardVars == <<cert, admin, loadState, rotateOpen, action, saved>>

NoAction == [kind |-> "none", phase |-> "idle", got |-> 0]
MaxAsks == MaxSerial + 3    \* bound on the loads

CardTypeOK ==
    /\ cert \in 0..MaxSerial /\ shown \in 0..MaxSerial /\ saved \in 0..MaxSerial
    /\ admin \in {"asked", "yes", "no"}
    /\ asks \in 0..MaxAsks /\ loads \subseteq (0..MaxAsks) \X (-1..MaxSerial)
    /\ certLoaded \in BOOLEAN /\ certError \in BOOLEAN /\ rotateOpen \in BOOLEAN
    /\ action \in [kind : {"none", "download", "rotate"}, phase : {"idle", "sent", "answered"},
                   got : 0..MaxSerial]
    /\ rotateOpen => admin = "yes"

CardInit ==
    /\ cert = 0 /\ admin = "asked"
    /\ loads = {<<0, -1>>} /\ asks = 0
    /\ shown = 0 /\ certLoaded = FALSE /\ certError = FALSE
    /\ rotateOpen = FALSE /\ action = NoAction /\ saved = 0

-------------------------------------------------------------------------------
(* The server *)

RotatedElsewhere ==
    /\ cert < MaxSerial /\ cert' = cert + 1
    /\ UNCHANGED <<admin, loadState, rotateOpen, action, saved>>

\* POST /tenant/cert gives the certificate, or issues the first; /rotate issues
\* a new one.  Each is one step here; TenantCert has what may come between the
\* lookup and the saving of a certificate.
ActionServed ==
    /\ action.phase = "sent"
    /\ LET new == IF action.kind = "rotate" \/ cert = 0 THEN cert + 1 ELSE cert
       IN  /\ new <= MaxSerial
           /\ cert' = new
           /\ action' = [action EXCEPT !.phase = "answered", !.got = new]
    /\ UNCHANGED <<admin, loadState, rotateOpen, saved>>

LoadAnswered ==
    \E r \in loads :
        /\ r[2] = -1
        /\ loads' = (loads \ {r}) \cup {<<r[1], cert>>}
        /\ UNCHANGED <<cert, admin, asks, shown, certLoaded, certError, rotateOpen, action, saved>>

-------------------------------------------------------------------------------
(* hooks/use-privileges.ts and hooks/use-tenant-certificate.ts *)

PrivilegesArrive ==
    /\ admin = "asked"
    /\ admin' \in {"yes", "no"}
    /\ UNCHANGED <<cert, loadState, rotateOpen, action, saved>>

\* Mutant: the load before is not aborted.
BuggyRefresh ==
    /\ asks < MaxAsks
    /\ asks' = asks + 1 /\ loads' = loads \cup {<<asks + 1, -1>>}
    /\ UNCHANGED <<shown, certLoaded, certError>>

\* load: aborts the one before, whose answer is dropped.
Refresh ==
    /\ asks < MaxAsks
    /\ asks' = asks + 1 /\ loads' = {<<asks + 1, -1>>}
    /\ UNCHANGED <<shown, certLoaded, certError>>

CertArrives ==
    \E r \in loads :
        /\ r[2] # -1
        /\ loads' = loads \ {r}
        /\ shown' = r[2] /\ certLoaded' = TRUE /\ certError' = FALSE
        /\ UNCHANGED <<cert, admin, asks, rotateOpen, action, saved>>

\* A failure shows no certificate, also where one was shown.
CertFails ==
    \E r \in loads :
        /\ loads' = loads \ {r}
        /\ shown' = 0 /\ certLoaded' = TRUE /\ certError' = TRUE
        /\ UNCHANGED <<cert, admin, asks, rotateOpen, action, saved>>

-------------------------------------------------------------------------------
(* tenant-certificate-card.tsx *)

Busy == action # NoAction

\* handleDownload; the dialog takes the clicks of the card while it is open.
Download ==
    /\ admin = "yes" /\ ~Busy /\ ~rotateOpen
    /\ action' = [NoAction EXCEPT !.kind = "download", !.phase = "sent"]
    /\ UNCHANGED <<cert, admin, loadState, rotateOpen, saved>>

OpenRotate ==
    /\ admin = "yes" /\ shown # 0 /\ ~Busy /\ ~rotateOpen
    /\ rotateOpen' = TRUE
    /\ UNCHANGED <<cert, admin, loadState, action, saved>>

CloseRotate ==
    /\ rotateOpen /\ ~Busy
    /\ rotateOpen' = FALSE
    /\ UNCHANGED <<cert, admin, loadState, action, saved>>

\* handleRotate
Rotate ==
    /\ rotateOpen /\ ~Busy
    /\ action' = [NoAction EXCEPT !.kind = "rotate", !.phase = "sent"]
    /\ UNCHANGED <<cert, admin, loadState, rotateOpen, saved>>

\* The file is saved, then the certificate is asked for anew.
ActionArrives ==
    /\ action.phase = "answered"
    /\ saved' = action.got
    /\ Refresh
    /\ action' = NoAction
    /\ rotateOpen' = (rotateOpen /\ action.kind # "rotate")
    /\ UNCHANGED <<cert, admin>>

\* The server may have issued a certificate all the same: nothing is asked anew,
\* and the card goes on showing the one before.
ActionFails ==
    /\ Busy
    /\ action' = NoAction
    /\ UNCHANGED <<cert, admin, loadState, rotateOpen, saved>>

-------------------------------------------------------------------------------

CardNext ==
    \/ RotatedElsewhere \/ ActionServed \/ LoadAnswered
    \/ PrivilegesArrive \/ CertArrives \/ CertFails
    \/ Download \/ OpenRotate \/ CloseRotate \/ Rotate \/ ActionArrives \/ ActionFails

CardSpec == CardInit /\ [][CardNext]_cardVars

-------------------------------------------------------------------------------

\* When nothing is being loaded, the card shows a certificate at least as new
\* as the one saved last, or that it could not be loaded: the status and the
\* expiry of the old certificate are not shown for the new one, although an
\* answer that was asked for before may still be under way
\* (tenant-certificate-card.tsx:48-75, use-tenant-certificate.ts:21-38).
SavedIsShown == loads = {} => certError \/ shown >= saved
===============================================================================
