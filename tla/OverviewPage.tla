------------------------------ MODULE OverviewPage ----------------------------
(***************************************************************************)
(* The page /overview (frontend/app/overview): the table of the tenant's   *)
(* devices, with the dialogs that delete a device, edit its vehicle and    *)
(* import the metadata of many from a CSV file.                            *)
(*                                                                         *)
(* The dialogs are modal, so at most one is open and one write under way;  *)
(* the table is changed by hand after a delete and an edit, and loaded     *)
(* anew after an import.  Other users, other tabs and requests of an       *)
(* earlier visit change the server at any moment ("outside").              *)
(*                                                                         *)
(* The metadata of a device is a value per field, "" for none; Required    *)
(* stands for the plate and the vehicle id.                                *)
(***************************************************************************)
EXTENDS ImeiList

CONSTANTS
    Fields, Required, Values,
    Absent,          \* in place of metadata: no such device
    OutsideMetas,    \* what it may become from outside: of Metas and Absent
    Store0,          \* what the server holds when the page opens
    CsvFiles,        \* files that may be dropped: sequences of [imei, meta]
    MaxWrites,       \* bound on the requests that write
    MaxOutside       \* bound on the changes from outside

NoImei == "no imei"
Metas == [Fields -> Values \cup {""}]
Tables == [Imeis -> Metas \cup {Absent}]
Blank == [f \in Fields |-> ""]

ASSUME FieldsAssumption ==
    /\ Required \in Fields /\ "" \notin Values
    /\ Absent \notin Metas /\ NoFile \notin Tables
    /\ Store0 \in Tables /\ OutsideMetas \subseteq Metas \cup {Absent}
    /\ \A file \in CsvFiles : \A k \in DOMAIN file : file[k].meta \in Metas

ASSUME BoundsAssumption == MaxWrites \in Nat /\ MaxOutside \in Nat

VARIABLES
    store,        \* server: the metadata of each device, or Absent
    outside,      \* changes made from outside
    stale,        \* rows that may differ from the server, from the page's own
                  \* point of view: an answer it missed or a change from outside
    since,        \* rows that changed since the server answered the list
    loading, loadError,
    get, got,     \* GET /devices of use-overview-devices, and its answer
    rows,         \* records
    deletion,     \* the IMEI the delete dialog asks about
    attach,       \* attachTarget, the IMEI of the edit dialog
    draft,
    importOpen,
    csv,          \* staged: what each IMEI is to be updated with
    csvReading,   \*   files being read, with knownImeis at that moment
    failed,       \* dialogs that show an error
    writes,       \* requests made
    write         \* the request under way

storeVars == <<store, outside, stale, since>>
loadVars == <<loading, loadError, get, got>>
editVars == <<attach, draft>>
importVars == <<importOpen, csv, csvReading>>
writeVars == <<writes, write>>
overviewVars == <<storeVars, loadVars, rows, deletion, editVars, importVars, failed, writeVars>>

NoWrite == [kind |-> "none", phase |-> "idle", data |-> [i \in Imeis |-> Absent],
            done |-> {}, missing |-> {}]

Listed(table) == {i \in Imeis : table[i] # Absent}

OverviewTypeOK ==
    /\ store \in Tables /\ rows \in Tables /\ got \in Tables
    /\ stale \subseteq Imeis /\ since \subseteq Imeis
    /\ outside \in 0..MaxOutside /\ writes \in 0..MaxWrites
    /\ loading \in BOOLEAN /\ loadError \in BOOLEAN /\ importOpen \in BOOLEAN
    /\ get \in {"none", "asked", "answered"} /\ loading = (get # "none")
    /\ deletion \in Imeis \cup {NoImei} /\ attach \in Imeis \cup {NoImei}
    /\ draft \in Metas
    /\ csv \in Tables \cup {NoFile}
    /\ csvReading \subseteq [file : CsvFiles, known : SUBSET Imeis]
    /\ failed \subseteq {"delete", "save", "import"}
    /\ write \in [kind : {"none", "delete", "save", "import"},
                  phase : {"idle", "sent", "answered"}, data : Tables,
                  done : SUBSET Imeis, missing : SUBSET Imeis]

OverviewInit ==
    /\ store = Store0 /\ outside = 0 /\ stale = {} /\ since = {}
    /\ loading = TRUE /\ loadError = FALSE
    /\ get = "asked" /\ got = NoWrite.data /\ rows = NoWrite.data
    /\ deletion = NoImei /\ attach = NoImei /\ draft = Blank
    /\ importOpen = FALSE /\ csv = NoFile /\ csvReading = {}
    /\ failed = {} /\ writes = 0 /\ write = NoWrite

-------------------------------------------------------------------------------
(* The server *)

\* PATCH keeps what it is not given.
Merge(old, new) == [f \in Fields |-> IF new[f] = "" THEN old[f] ELSE new[f]]

Outside(i, meta) ==
    /\ outside < MaxOutside /\ meta # store[i]
    /\ outside' = outside + 1
    /\ store' = [store EXCEPT ![i] = meta]
    /\ stale' = stale \cup {i} /\ since' = since \cup {i}
    /\ UNCHANGED <<loadVars, rows, deletion, editVars, importVars, failed, writeVars>>

\* PATCH and DELETE: some IMEIs fail; of the others, those that are not there
\* are not_found.  A request is served at one moment here.
WriteServed(failing) ==
    LET there == {i \in Listed(write.data) \ failing : store[i] # Absent}
    IN  /\ write.phase = "sent"
        /\ write' = [write EXCEPT !.phase = "answered", !.done = there,
                                  !.missing = Listed(write.data) \ (failing \cup there)]
        /\ store' = [i \in Imeis |->
                        IF i \notin there THEN store[i]
                        ELSE IF write.kind = "delete" THEN Absent
                        ELSE Merge(store[i], write.data[i])]
        /\ since' = since \cup there
        /\ UNCHANGED <<outside, stale, loadVars, rows, deletion, editVars, importVars, failed, writes>>

-------------------------------------------------------------------------------
(* hooks/use-overview-devices.ts *)

LoadServed ==
    /\ get = "asked"
    /\ get' = "answered" /\ got' = store /\ since' = {}
    /\ UNCHANGED <<store, outside, stale, loading, loadError, rows, deletion, editVars,
                   importVars, failed, writeVars>>

LoadArrives ==
    /\ get = "answered"
    /\ rows' = got /\ loading' = FALSE /\ loadError' = FALSE
    /\ get' = "none" /\ got' = NoWrite.data
    /\ stale' = since
    /\ UNCHANGED <<store, outside, since, deletion, editVars, importVars, failed, writeVars>>

\* Mutant: the spinner goes on turning.
BuggyLoadFails ==
    /\ get # "none"
    /\ loadError' = TRUE
    /\ get' = "none" /\ got' = NoWrite.data
    /\ UNCHANGED <<storeVars, loading, rows, deletion, editVars, importVars, failed, writeVars>>

\* The records stay as they were, behind the error.
LoadFails ==
    /\ get # "none"
    /\ loading' = FALSE /\ loadError' = TRUE
    /\ get' = "none" /\ got' = NoWrite.data
    /\ UNCHANGED <<storeVars, rows, deletion, editVars, importVars, failed, writeVars>>

\* load: the spinner takes the place of the table and of its dialogs.
Load == loading' = TRUE /\ get' = "asked" /\ UNCHANGED <<loadError, got>>

TryAgain ==
    /\ ~loading /\ loadError
    /\ Load
    /\ UNCHANGED <<storeVars, rows, deletion, editVars, importVars, failed, writeVars>>

-------------------------------------------------------------------------------
(* overview-table.tsx: one of four views, and the delete dialog *)

TableShown == ~loading /\ ~loadError /\ Listed(rows) # {}
DialogShown == deletion # NoImei \/ attach # NoImei \/ importOpen
Ready == TableShown /\ ~DialogShown

SendWrite(kind, data) ==
    /\ write.phase = "idle" /\ writes < MaxWrites
    /\ writes' = writes + 1
    /\ write' = [NoWrite EXCEPT !.kind = kind, !.phase = "sent", !.data = data]
    /\ failed' = failed \ {kind}

Only(i, meta) == [NoWrite.data EXCEPT ![i] = meta]

\* What the answer, or its loss, leaves in doubt.
Doubt(is) == stale' = stale \cup is

AskDelete(i) ==
    /\ Ready /\ i \in Listed(rows)
    /\ deletion' = i
    /\ UNCHANGED <<storeVars, loadVars, rows, editVars, importVars, failed, writeVars>>

CancelDelete ==
    /\ deletion # NoImei /\ write.phase = "idle"
    /\ deletion' = NoImei
    /\ UNCHANGED <<storeVars, loadVars, rows, editVars, importVars, failed, writeVars>>

ConfirmDelete ==
    /\ deletion # NoImei
    /\ SendWrite("delete", Only(deletion, Blank))
    /\ UNCHANGED <<storeVars, loadVars, rows, deletion, editVars, importVars>>

\* handleDeleteConfirm: not_found counts as deleted; an error leaves the dialog
\* open.  The import dialog goes with the last row, and what it was reading.
DeleteArrives ==
    /\ write.kind = "delete" /\ write.phase = "answered"
    /\ write' = NoWrite
    /\ \/ /\ deletion \in write.done \cup write.missing
          /\ rows' = [rows EXCEPT ![deletion] = Absent] /\ deletion' = NoImei
          /\ IF Listed(rows) = {deletion}
               THEN csv' = NoFile /\ csvReading' = {}
               ELSE UNCHANGED <<csv, csvReading>>
          /\ UNCHANGED <<stale, failed>>
       \/ /\ deletion \notin write.done \cup write.missing
          /\ failed' = failed \cup {"delete"} /\ Doubt({deletion})
          /\ UNCHANGED <<rows, deletion, csv, csvReading>>
    /\ UNCHANGED <<store, outside, since, loadVars, editVars, importOpen, writes>>

-------------------------------------------------------------------------------
(* attach-vehicle-dialog.tsx *)

OpenEdit(i) ==
    /\ Ready /\ i \in Listed(rows)
    /\ attach' = i /\ draft' = rows[i]
    /\ UNCHANGED <<storeVars, loadVars, rows, deletion, importVars, failed, writeVars>>

\* The fields stay open while the draft is being saved.
EditField(f, v) ==
    /\ attach # NoImei
    /\ draft' = [draft EXCEPT ![f] = v]
    /\ UNCHANGED <<storeVars, loadVars, rows, deletion, attach, importVars, failed, writeVars>>

CloseEdit ==
    /\ attach # NoImei /\ write.phase = "idle"
    /\ attach' = NoImei /\ draft' = Blank /\ failed' = failed \ {"save"}
    /\ UNCHANGED <<storeVars, loadVars, rows, deletion, importVars, writeVars>>

Save ==
    /\ attach # NoImei /\ draft[Required] # ""
    /\ SendWrite("save", Only(attach, draft))
    /\ UNCHANGED <<storeVars, loadVars, rows, deletion, editVars, importVars>>

\* Mutant: the row takes the draft as it is when the answer comes.
BuggySaveArrives ==
    /\ write.kind = "save" /\ write.phase = "answered"
    /\ write' = NoWrite
    /\ IF attach \in write.done \cup write.missing
         THEN /\ rows' = [rows EXCEPT ![attach] = draft]
              /\ Doubt(write.missing)
              /\ attach' = NoImei /\ draft' = Blank
              /\ UNCHANGED failed
         ELSE failed' = failed \cup {"save"} /\ Doubt({attach}) /\ UNCHANGED <<rows, editVars>>
    /\ UNCHANGED <<store, outside, since, loadVars, deletion, importVars, writes>>

\* onSave: updated and not_found change the row to the draft that was sent, the
\* fields that were emptied in it too.
SaveArrives ==
    /\ write.kind = "save" /\ write.phase = "answered"
    /\ write' = NoWrite
    /\ \/ /\ attach \in write.done \cup write.missing
          /\ rows' = [rows EXCEPT ![attach] = write.data[attach]]
          /\ Doubt(write.missing)
          /\ attach' = NoImei /\ draft' = Blank
          /\ UNCHANGED failed
       \/ /\ attach \notin write.done \cup write.missing
          /\ failed' = failed \cup {"save"} /\ Doubt({attach})
          /\ UNCHANGED <<rows, editVars>>
    /\ UNCHANGED <<store, outside, since, loadVars, deletion, importVars, writes>>

-------------------------------------------------------------------------------
(* import-metadata-dialog.tsx and lib/metadata-csv.ts *)

\* The rows that will be updated: the first of each IMEI, if it was in the
\* table; the rest is invalid or not registered.
Updatable(file, known) ==
    [i \in Imeis |->
        LET first == {k \in DOMAIN file : file[k].imei = i /\ \A j \in 1..(k - 1) : file[j].imei # i}
        IN  IF i \in known /\ first # {} THEN file[CHOOSE k \in first : TRUE].meta ELSE Absent]

OpenImport ==
    /\ Ready
    /\ importOpen' = TRUE
    /\ UNCHANGED <<storeVars, loadVars, rows, deletion, editVars, csv, csvReading, failed, writeVars>>

\* Closing resets the dialog, but not a file that is still being read.
CloseImport ==
    /\ importOpen /\ write.phase = "idle"
    /\ importOpen' = FALSE /\ csv' = NoFile /\ failed' = failed \ {"import"}
    /\ UNCHANGED <<storeVars, loadVars, rows, deletion, editVars, csvReading, writeVars>>

DropCsv(file) ==
    /\ importOpen /\ csv = NoFile
    /\ csvReading' = csvReading \cup {[file |-> file, known |-> Listed(rows)]}
    /\ UNCHANGED <<storeVars, loadVars, rows, deletion, editVars, importOpen, csv, failed, writeVars>>

\* readFile: a file that is unreadable or has no rows is not staged; any other
\* is, when the dialog is closed and while it submits too.
CsvRead(r) ==
    /\ r \in csvReading
    /\ csvReading' = csvReading \ {r}
    /\ \/ r.file # <<>> /\ csv' = Updatable(r.file, r.known)
       \/ UNCHANGED csv
    /\ UNCHANGED <<storeVars, loadVars, rows, deletion, editVars, importOpen, failed, writeVars>>

\* reset: not disabled while the rows are being sent.
RemoveCsv ==
    /\ importOpen /\ csv # NoFile
    /\ csv' = NoFile /\ failed' = failed \ {"import"}
    /\ UNCHANGED <<storeVars, loadVars, rows, deletion, editVars, importOpen, csvReading, writeVars>>

SubmitImport ==
    /\ importOpen /\ csv # NoFile /\ Listed(csv) # {}
    /\ SendWrite("import", csv)
    /\ UNCHANGED <<storeVars, loadVars, rows, deletion, editVars, importVars>>

\* All rows updated: the list is loaded anew.  Otherwise the dialog says how
\* many were not, and the table keeps its rows, those that were updated too.
ImportArrives ==
    /\ write.kind = "import" /\ write.phase = "answered"
    /\ write' = NoWrite
    /\ \/ /\ write.done = Listed(write.data)
          /\ Load
          /\ importOpen' = FALSE /\ csv' = NoFile /\ csvReading' = {}
          /\ UNCHANGED <<stale, failed>>
       \/ /\ write.done # Listed(write.data)
          /\ failed' = failed \cup {"import"} /\ Doubt(Listed(write.data))
          /\ UNCHANGED <<loadVars, importVars>>
    /\ UNCHANGED <<store, outside, since, rows, deletion, editVars, writes>>

\* The request fails, or its answer is lost after the server has acted on it.
WriteFails ==
    /\ write.phase # "idle"
    /\ write' = NoWrite
    /\ failed' = failed \cup {write.kind} /\ Doubt(Listed(write.data))
    /\ UNCHANGED <<store, outside, since, loadVars, rows, deletion, editVars, importVars, writes>>

-------------------------------------------------------------------------------

OverviewNext ==
    \/ \E i \in Imeis, meta \in OutsideMetas : Outside(i, meta)
    \/ \E failing \in SUBSET Listed(write.data) : WriteServed(failing)
    \/ LoadServed \/ LoadArrives \/ LoadFails \/ TryAgain
    \/ \E i \in Imeis : AskDelete(i) \/ OpenEdit(i)
    \/ CancelDelete \/ ConfirmDelete \/ DeleteArrives
    \/ \E f \in Fields, v \in Values \cup {""} : EditField(f, v)
    \/ CloseEdit \/ Save \/ SaveArrives
    \/ OpenImport \/ CloseImport \/ RemoveCsv \/ SubmitImport \/ ImportArrives
    \/ \E file \in CsvFiles : DropCsv(file)
    \/ \E r \in csvReading : CsvRead(r)
    \/ WriteFails

OverviewSpec == OverviewInit /\ [][OverviewNext]_overviewVars

-------------------------------------------------------------------------------

\* Where nothing came from outside and every answer was a full success, the
\* table agrees with the server, although it is changed by hand: a row that is
\* shown is there, with every value the row shows, and one that is not shown is
\* not (overview-table.tsx:40-57,160-175, use-overview-devices.ts:96-113).  A
\* value that is blank in the row may still be at the server (vehicle.ts:35).
TableIsCurrent ==
    ~loading /\ ~loadError =>
        \A i \in Imeis \ (stale \cup Listed(write.data)) :
            /\ rows[i] = Absent <=> store[i] = Absent
            /\ rows[i] # Absent =>
                  \A f \in Fields : rows[i][f] \in {"", store[i][f]}
===============================================================================
