------------------------------ MODULE RegisterPage ----------------------------
(***************************************************************************)
(* The page /register (frontend/app/register): one IMEI at a time or a CSV *)
(* of them, sent with POST /devices.                                       *)
(*                                                                         *)
(* Both tabs stay mounted, so a post of each may be under way at once,     *)
(* while the list of the tenant's devices, asked for once when the page    *)
(* opens, has not been answered and a file is still being read.  The       *)
(* server answers a request at one moment and the browser handles the      *)
(* answer, or the loss of it, at a later one.                              *)
(*                                                                         *)
(* An IMEI is a token that validateImei accepts; any other token is bad.   *)
(* Names, wording, the messages of the dropzone and the order of the       *)
(* records are left out.                                                   *)
(***************************************************************************)
EXTENDS ImeiList

CONSTANTS
    Types,           \* GPS_DEVICES
    Files,           \* files that may be dropped: sequences of tokens
    Typed,           \* texts typed into the field: some of Imeis, "", others
    MaxPosts,        \* bound on the requests of the page
    MaxElsewhere     \* bound on the changes others make

ASSUME RegisterAssumption ==
    IsFiniteSet(Imeis) /\ MaxPosts \in Nat /\ MaxElsewhere \in Nat

NoType == "no type"
Tabs == {"single", "bulk"}

VARIABLES
    devices,      \* server: the IMEIs of the tenant
    creations,    \* how often the server created <<IMEI, type>> for this page
    ever,         \* IMEIs that were registered at some moment
    elsewhere,    \* changes others have made
    listing,      \* GET /devices of use-tenant-imeis: asked, answered, done
    listed,       \*   its answer
    imeis,        \*   the set the hook keeps
    records,      \* how often each <<IMEI, type>> is in the list at the bottom
    device,       \* selectedDevice
    deviceMissing,
    posts,        \* requests made
    post,         \* the request of each tab
    value,        \* single: the text of the field
    error,        \*   is an error shown
    staged,       \* bulk: the tokens of the staged file
    reading,      \*   files whose text has been asked for
    reviewOpen,
    dialogError,  \*   none, failed or partial
    summary,      \*   "n of m registered" of a partial answer: n
    made          \*   how many IMEIs that request really created

serverVars == <<devices, creations, ever, elsewhere>>
listVars == <<listing, listed>>
formVars == <<device, deviceMissing>>
singleVars == <<value, error>>
bulkVars == <<staged, reading, reviewOpen, dialogError, summary, made>>
registerVars == <<serverVars, listVars, imeis, records, formVars, posts, post, singleVars, bulkVars>>

Pairs == Imeis \X Types
Idle == [phase |-> "idle", imeis |-> {}, type |-> NoType, created |-> {}, already |-> {}]

RegisterTypeOK ==
    /\ creations \in [Pairs -> Nat] /\ records \in [Pairs -> Nat]
    /\ devices \subseteq ever /\ ever \subseteq Imeis /\ listed \subseteq Imeis /\ imeis \subseteq Imeis
    /\ listing \in {"asked", "answered", "done"}
    /\ device \in Types \cup {NoType} /\ deviceMissing \in BOOLEAN
    /\ post \in [Tabs -> [phase : {"idle", "sent", "answered"}, imeis : SUBSET Imeis,
                          type : Types \cup {NoType},
                          created : SUBSET Imeis, already : SUBSET Imeis]]
    /\ posts \in 0..MaxPosts /\ elsewhere \in 0..MaxElsewhere
    /\ error \in BOOLEAN
    /\ staged \in Files \cup {NoFile} /\ reading \subseteq Files
    /\ reviewOpen \in BOOLEAN /\ dialogError \in {"none", "failed", "partial"}
    /\ summary \in Int /\ made \in Nat

RegisterInit ==
    /\ devices = {} /\ creations = [x \in Pairs |-> 0] /\ records = [x \in Pairs |-> 0]
    /\ ever = {} /\ elsewhere = 0
    /\ listing = "asked" /\ listed = {} /\ imeis = {}
    /\ device = NoType /\ deviceMissing = FALSE
    /\ posts = 0 /\ post = [t \in Tabs |-> Idle]
    /\ value = "" /\ error = FALSE
    /\ staged = NoFile /\ reading = {}
    /\ reviewOpen = FALSE /\ dialogError = "none" /\ summary = 0 /\ made = 0

-------------------------------------------------------------------------------
(* The classification of a staged file *)

\* classify: the IMEIs that will be posted.
NewImeis(tokens, known) ==
    {tokens[k] : k \in {j \in DOMAIN tokens : ParseImeis(tokens)[j] = "ok"}} \ known

\* The payload of the confirm dialog: computed from the file and the set at
\* every render, never stored.
Payload == IF staged = NoFile THEN {} ELSE NewImeis(staged, imeis)

\* The message of the dialog, with the number a partial answer gives.
ShowError(kind, n, created) == dialogError' = kind /\ summary' = n /\ made' = created
NoError == ShowError("none", 0, 0)
KeepError == UNCHANGED <<dialogError, summary, made>>

\* A modal dialog takes the clicks and the keys of the page behind it.
Modal == reviewOpen /\ staged # NoFile

-------------------------------------------------------------------------------
(* The server, and others who register and delete devices of the tenant *)

Elsewhere(i) ==
    /\ elsewhere < MaxElsewhere
    /\ elsewhere' = elsewhere + 1
    /\ \/ i \in devices /\ devices' = devices \ {i} /\ UNCHANGED ever
       \/ i \notin devices /\ devices' = devices \cup {i} /\ ever' = ever \cup {i}
    /\ UNCHANGED <<creations, listVars, imeis, records, formVars, posts, post, singleVars, bulkVars>>

\* POST /devices: some IMEIs fail; of the others, those the tenant has are
\* already_registered.  The API looks an IMEI up and registers it in several
\* steps (DeviceHandlers); here a request is served at one moment.
Serve(tab, failing) ==
    LET p == post[tab]
        fresh == p.imeis \ (failing \cup devices)
    IN  /\ p.phase = "sent"
        /\ post' = [post EXCEPT ![tab].phase = "answered", ![tab].created = fresh,
                                ![tab].already = p.imeis \ (failing \cup fresh)]
        /\ devices' = devices \cup fresh
        /\ creations' = [x \in Pairs |->
                            IF x[1] \in fresh /\ x[2] = p.type THEN creations[x] + 1
                            ELSE creations[x]]
        /\ ever' = ever \cup fresh
        /\ UNCHANGED <<elsewhere, listVars, imeis, records, formVars, posts, singleVars, bulkVars>>

-------------------------------------------------------------------------------
(* hooks/use-tenant-imeis.ts *)

ListServed ==
    /\ listing = "asked"
    /\ listing' = "answered" /\ listed' = devices
    /\ UNCHANGED <<serverVars, imeis, records, formVars, posts, post, singleVars, bulkVars>>

\* The answer replaces the set, with what markRegistered has put in it.
ListArrives ==
    /\ listing = "answered"
    /\ listing' = "done" /\ imeis' = listed /\ listed' = {}
    /\ UNCHANGED <<serverVars, records, formVars, posts, post, singleVars, bulkVars>>

\* A failure keeps the set as it is.
ListFails ==
    /\ listing # "done"
    /\ listing' = "done" /\ listed' = {}
    /\ UNCHANGED <<serverVars, imeis, records, formVars, posts, post, singleVars, bulkVars>>

MarkRegistered(new) == imeis' = imeis \cup new

-------------------------------------------------------------------------------
(* register-form.tsx *)

SelectDevice(type) ==
    /\ ~Modal
    /\ device' = type /\ deviceMissing' = FALSE
    /\ UNCHANGED <<serverVars, listVars, imeis, records, posts, post, singleVars, bulkVars>>

AddRecords(new, type) ==
    records' = [x \in Pairs |-> IF x[1] \in new /\ x[2] = type THEN records[x] + 1 ELSE records[x]]

\* postDevices with the device that is selected now.
Send(tab, new) ==
    /\ posts < MaxPosts
    /\ posts' = posts + 1
    /\ post' = [post EXCEPT ![tab] = [Idle EXCEPT !.phase = "sent", !.imeis = new, !.type = device]]

Ended(tab) == post' = [post EXCEPT ![tab] = Idle]

-------------------------------------------------------------------------------
(* manual-imei-tab.tsx *)

\* The field stays open while a post of it is under way.
Type(text) ==
    /\ ~Modal
    /\ value' = text /\ error' = FALSE
    /\ UNCHANGED <<serverVars, listVars, imeis, records, formVars, posts, post, bulkVars>>

\* handleSubmit and the checks of submitManual that need no server.
SubmitSingle ==
    /\ ~Modal /\ post["single"].phase = "idle"
    /\ \/ /\ device = NoType
          /\ deviceMissing' = TRUE
          /\ UNCHANGED <<error, posts, post>>
       \/ /\ device # NoType /\ value # ""
          /\ ~Valid(value) \/ value \in imeis
          /\ error' = TRUE
          /\ UNCHANGED <<deviceMissing, posts, post>>
       \/ /\ device # NoType /\ Valid(value) /\ value \notin imeis
          /\ Send("single", {value})
          /\ error' = FALSE
          /\ UNCHANGED deviceMissing
    /\ UNCHANGED <<serverVars, listVars, imeis, records, device, value, bulkVars>>

\* Mutant: the record gets the device that is selected when the answer comes.
BuggySingleArrives ==
    LET p == post["single"]
    IN  /\ p.phase = "answered"
        /\ Ended("single")
        /\ IF p.created # {}
             THEN AddRecords(p.created, device) /\ MarkRegistered(p.created) /\ value' = "" /\ error' = error
             ELSE error' = TRUE /\ UNCHANGED <<records, imeis, value>>
        /\ UNCHANGED <<serverVars, listVars, formVars, posts, bulkVars>>

\* created: the field is emptied, whatever is in it by now; anything else is
\* an error, and already_registered does not enter the set.
SingleArrives ==
    LET p == post["single"]
    IN  /\ p.phase = "answered"
        /\ Ended("single")
        /\ \/ /\ p.created # {}
              /\ AddRecords(p.created, p.type) /\ MarkRegistered(p.created)
              /\ value' = "" /\ UNCHANGED error
           \/ /\ p.created = {}
              /\ error' = TRUE /\ UNCHANGED <<records, imeis, value>>
        /\ UNCHANGED <<serverVars, listVars, formVars, posts, bulkVars>>

\* The request fails, or its answer is lost after the server has acted on it.
SingleFails ==
    /\ post["single"].phase # "idle"
    /\ Ended("single") /\ error' = TRUE
    /\ UNCHANGED <<serverVars, listVars, imeis, records, formVars, posts, value, bulkVars>>

-------------------------------------------------------------------------------
(* csv-dropzone.tsx and bulk-imei-tab.tsx *)

\* The dropzone is there as long as no file is staged, so a second file may be
\* dropped while the first is read.
DropFile(f) ==
    /\ staged = NoFile
    /\ reading' = reading \cup {f}
    /\ UNCHANGED <<serverVars, listVars, imeis, records, formVars, posts, post, singleVars,
                   staged, reviewOpen, dialogError, summary, made>>

\* readFile: a file with no token in it, or unreadable, is not staged; any
\* other is, over one that was staged meanwhile, even under an open dialog.
ReadEnds(f) ==
    /\ f \in reading
    /\ reading' = reading \ {f}
    /\ \/ f # <<>> /\ staged' = f
       \/ UNCHANGED staged
    /\ UNCHANGED <<serverVars, listVars, imeis, records, formVars, posts, post, singleVars,
                   reviewOpen, dialogError, summary, made>>

RemoveFile ==
    /\ staged # NoFile /\ ~Modal
    /\ staged' = NoFile
    /\ UNCHANGED <<serverVars, listVars, imeis, records, formVars, posts, post, singleVars,
                   reading, reviewOpen, dialogError, summary, made>>

Review ==
    /\ staged # NoFile /\ ~Modal
    /\ IF device = NoType
         THEN deviceMissing' = TRUE /\ KeepError /\ UNCHANGED reviewOpen
         ELSE reviewOpen' = TRUE /\ NoError /\ UNCHANGED deviceMissing
    /\ UNCHANGED <<serverVars, listVars, imeis, records, device, posts, post, singleVars,
                   staged, reading>>

\* Cancel, Escape and a click outside do nothing while a post is under way.
CancelReview ==
    /\ Modal /\ post["bulk"].phase = "idle"
    /\ reviewOpen' = FALSE /\ NoError
    /\ UNCHANGED <<serverVars, listVars, imeis, records, formVars, posts, post, singleVars,
                   staged, reading>>

Confirm ==
    /\ Modal /\ post["bulk"].phase = "idle" /\ Payload # {}
    /\ Send("bulk", Payload) /\ NoError
    /\ UNCHANGED <<serverVars, listVars, imeis, records, formVars, singleVars,
                   staged, reading, reviewOpen>>

\* Mutant: the summary counts from the payload as it is after the answer.
BuggyRegisteredOf(p) ==
    Cardinality(NewImeis(staged, imeis \cup p.created \cup p.already))
        - Cardinality(p.imeis \ (p.created \cup p.already))

\* partialSummary: counts from the payload that was posted.
RegisteredOf(p) ==
    Cardinality(p.imeis) - Cardinality(p.imeis \ (p.created \cup p.already))
                         - Cardinality(p.already)

\* Mutant: what has failed is marked as registered too.
BuggyBulkArrives ==
    LET p == post["bulk"]
    IN  /\ p.phase = "answered"
        /\ Ended("bulk")
        /\ AddRecords(p.created, p.type) /\ MarkRegistered(p.imeis)
        /\ IF p.created = p.imeis
             THEN reviewOpen' = FALSE /\ staged' = NoFile /\ KeepError
             ELSE ShowError("partial", RegisteredOf(p), Cardinality(p.created))
                  /\ UNCHANGED <<reviewOpen, staged>>
        /\ UNCHANGED <<serverVars, listVars, formVars, posts, singleVars, reading>>

\* All created: the dialog closes and the file that is staged by now goes.
BulkArrives ==
    LET p == post["bulk"]
    IN  /\ p.phase = "answered"
        /\ Ended("bulk")
        /\ AddRecords(p.created, p.type) /\ MarkRegistered(p.created \cup p.already)
        /\ \/ /\ p.created = p.imeis
              /\ reviewOpen' = FALSE /\ staged' = NoFile /\ KeepError
           \/ /\ p.created # p.imeis
              /\ ShowError("partial", RegisteredOf(p), Cardinality(p.created))
              /\ UNCHANGED <<reviewOpen, staged>>
        /\ UNCHANGED <<serverVars, listVars, formVars, posts, singleVars, reading>>

\* Mutant: the error of the failed request is not shown.
BuggyBulkFails ==
    /\ post["bulk"].phase # "idle"
    /\ Ended("bulk")
    /\ UNCHANGED <<serverVars, listVars, imeis, records, formVars, posts, singleVars, bulkVars>>

BulkFails ==
    /\ post["bulk"].phase # "idle"
    /\ Ended("bulk") /\ ShowError("failed", 0, 0)
    /\ UNCHANGED <<serverVars, listVars, imeis, records, formVars, posts, singleVars,
                   staged, reading, reviewOpen>>

-------------------------------------------------------------------------------

RegisterNext ==
    \/ \E i \in Imeis : Elsewhere(i)
    \/ \E tab \in Tabs : \E failing \in SUBSET post[tab].imeis : Serve(tab, failing)
    \/ ListServed \/ ListArrives \/ ListFails
    \/ \E type \in Types : SelectDevice(type)
    \/ \E text \in Typed : Type(text)
    \/ SubmitSingle \/ SingleArrives \/ SingleFails
    \/ \E f \in Files : DropFile(f) \/ ReadEnds(f)
    \/ RemoveFile \/ Review \/ CancelReview \/ Confirm
    \/ BulkArrives \/ BulkFails

RegisterSpec == RegisterInit /\ [][RegisterNext]_registerVars

-------------------------------------------------------------------------------

\* Every line in "Registered devices" stands for a creation of its own: the
\* server created that IMEI, with that type, for this page.  Neither the answer
\* of a list that came late, which makes the page post an IMEI again, nor two
\* posts of one IMEI from both tabs, nor a device that is selected while a post
\* is under way gives a line that no creation stands behind (SingleArrives,
\* BulkArrives: register-form.tsx:48-112).
EachRecordWasCreated == \A x \in Pairs : records[x] <= creations[x]

\* An IMEI the page calls already registered, and leaves out of a post, has
\* been registered at some moment; one whose registration failed is offered
\* again (bulk-imei-tab.tsx:51, register-form.tsx:52,98-102).
BelievedWasRegistered == imeis \subseteq ever

\* "n of m registered" counts what that request created, although the payload
\* of the dialog has been computed anew since (bulk-imei-tab.tsx:72-74,138).
SummaryIsTrue == dialogError = "partial" => summary = made

\* A confirmation is answered: the dialog closes or says what went wrong, and
\* its buttons work again (bulk-imei-tab.tsx:127-138).
ConfirmIsAnswered ==
    post["bulk"].phase # "idle" ~>
        post["bulk"].phase = "idle" /\ (~reviewOpen \/ dialogError # "none")
===============================================================================
