------------------------------- MODULE Archiver -------------------------------
(***************************************************************************)
(* The archiver (k8s/archiver/archive.py), a CronJob that copies rows of   *)
(* CrateDB older than ArchiveAfter to Parquet files in MinIO, one per IMEI *)
(* and run, deletes rows older than DeleteAfter, and keeps a watermark per *)
(* tenant schema in MinIO.                                                 *)
(*                                                                         *)
(* A row is an IMEI with a time_index; time is counted in minutes, the     *)
(* resolution of the file names.  concurrencyPolicy: Forbid and one Pod    *)
(* per Job make the runs sequential; a run that dies (an exception that    *)
(* main does not catch, an evicted Pod) is retried by the Job, and what it *)
(* did stays done.                                                         *)
(***************************************************************************)
EXTENDS Integers, FiniteSets

CONSTANTS
    Schemas,           \* CrateDB schemas, one per tenant
    Imeis,
    SchemaOf,          \* the schema an IMEI's rows are in
    ArchiveAfter,      \* ARCHIVE_AFTER_MINUTES
    DeleteAfter,       \* DELETE_AFTER_MINUTES
    MaxLate,           \* how long after its time_index a row may be inserted
    MaxTime,           \* bound on the clock
    MaxRows            \* bound on the rows inserted

ASSUME ArchiverAssumption ==
    /\ SchemaOf \in [Imeis -> Schemas]
    /\ ArchiveAfter \in Nat /\ DeleteAfter \in Nat /\ MaxTime \in Nat /\ MaxRows \in Nat
    /\ ArchiveAfter <= DeleteAfter /\ DeleteAfter < MaxTime
    /\ MaxLate \in 0..ArchiveAfter

VARIABLES
    now,
    stored,       \* every row QuantumLeap has inserted
    crate,        \* the rows that are in CrateDB
    files,        \* MinIO: <imei>/<minute>.parquet, as the rows' time_index
    replaced,     \* history: rows of a file that another of its name, without them, replaced
    watermark,    \* MinIO: watermark.json, 0 for a schema it does not name
    pc,           \* where main is
    archiveCut,   \* archive_cutoff_ms
    deleteCut,    \* delete_cutoff_ms
    marks,        \* the run's watermarks
    left,         \* schemas the loop has left
    schema,       \* the schema being processed
    batch,        \* the fetched rows, by IMEI, that are not uploaded yet
    batchTs,      \* batch_ts
    schemaOk,     \* schema_ok
    clean         \* no upload, run or reading of the watermark has failed yet

storeVars == <<now, stored, crate, files, replaced, watermark>>
runVars == <<pc, archiveCut, deleteCut, marks, left, schema, batch, batchTs, schemaOk>>
vars == <<storeVars, runVars, clean>>

Times == 1..MaxTime
Row == Imeis \X Times

TypeOK ==
    /\ now \in Times
    /\ stored \subseteq Row /\ crate \subseteq stored
    /\ files \in [Row -> SUBSET Times]
    /\ replaced \subseteq Row
    /\ watermark \in [Schemas -> 0..MaxTime]
    /\ pc \in {"idle", "schema", "upload", "delete", "save", "dead"}
    /\ archiveCut \in 0..MaxTime /\ deleteCut \in 0..MaxTime
    /\ marks \in [Schemas -> 0..MaxTime]
    /\ left \subseteq Schemas
    /\ schema \in Schemas
    /\ batch \in [Imeis -> SUBSET Times]
    /\ batchTs \in Times
    /\ schemaOk \in BOOLEAN /\ clean \in BOOLEAN

NoRows == [i \in Imeis |-> {}]

Init ==
    /\ now = DeleteAfter + 1
    /\ stored = {} /\ crate = {}
    /\ files = [f \in Row |-> {}]
    /\ replaced = {}
    /\ watermark = [s \in Schemas |-> 0]
    /\ pc = "idle"
    /\ archiveCut = 0 /\ deleteCut = 0
    /\ marks = [s \in Schemas |-> 0]
    /\ left = {} /\ schema \in Schemas
    /\ batch = NoRows /\ batchTs = 1
    /\ schemaOk = TRUE /\ clean = TRUE

-------------------------------------------------------------------------------
(* The world around the archiver *)

Tick ==
    /\ now < MaxTime
    /\ now' = now + 1
    /\ UNCHANGED <<stored, crate, files, replaced, watermark, runVars, clean>>

\* QuantumLeap stores a measure, at most MaxLate after its time_index.
Insert(i, t) ==
    /\ t \in now - MaxLate .. now
    /\ <<i, t>> \in Row \ stored
    /\ Cardinality(stored) < MaxRows
    /\ stored' = stored \cup {<<i, t>>}
    /\ crate' = crate \cup {<<i, t>>}
    /\ UNCHANGED <<now, files, replaced, watermark, runVars, clean>>

-------------------------------------------------------------------------------
(* main *)

\* Mutant: the minutes are added.
BuggyCutoff(minutes) == now + minutes

\* The present time less a number of minutes.
Cutoff(minutes) == now - minutes

\* A new run: both cutoffs are taken, and the watermarks read.  Any ClientError
\* of the download, not only a missing file, is taken for "none yet".  Scheduled
\* runs are hours apart and so in a fresh minute; the retry of a run that died
\* comes after the Job's back-off of seconds, in the same minute or later.
StartRun ==
    /\ \/ pc = "idle" /\ \A i \in Imeis : files[<<i, now>>] = {}
       \/ pc = "dead"
    /\ archiveCut' = Cutoff(ArchiveAfter)
    /\ deleteCut' = Cutoff(DeleteAfter)
    /\ \/ marks' = watermark /\ UNCHANGED clean
       \/ marks' = [s \in Schemas |-> 0] /\ clean' = FALSE
    /\ left' = {SchemaOf[r[1]] : r \in stored}
    /\ pc' = IF left' = {} THEN "idle" ELSE "schema"
    /\ UNCHANGED <<storeVars, schema, batch, batchTs, schemaOk>>

\* Mutant: the upper bound is inclusive.
BuggyFetched(s) ==
    [i \in Imeis |-> IF SchemaOf[i] # s THEN {}
                     ELSE {t \in Times : <<i, t>> \in crate /\ marks[s] <= t /\ t <= archiveCut}]

\* fetch_old_data: the rows of a schema from its watermark up to the cutoff.
Fetched(s) ==
    [i \in Imeis |-> IF SchemaOf[i] # s THEN {}
                     ELSE {t \in Times : <<i, t>> \in crate /\ marks[s] <= t /\ t < archiveCut}]

FetchSchema(s) ==
    /\ pc = "schema"
    /\ s \in left
    /\ left' = left \ {s}
    /\ schema' = s
    /\ batch' = Fetched(s)
    /\ batchTs' = now
    /\ schemaOk' = TRUE
    /\ pc' = IF Fetched(s) = NoRows THEN "delete" ELSE "upload"
    /\ UNCHANGED <<storeVars, archiveCut, deleteCut, marks, clean>>

\* upload_to_minio: a file of that name is replaced.
WriteFile(i) ==
    /\ files' = [files EXCEPT ![<<i, batchTs>>] = batch[i]]
    /\ replaced' = replaced \cup {<<i, t>> : t \in files[<<i, batchTs>>] \ batch[i]}

\* Mutant: the rows of a group that failed are forgotten.
BuggyUploadGroup(i, ok) ==
    /\ pc = "upload"
    /\ batch[i] # {}
    /\ \/ WriteFile(i)
       \/ ~ok /\ UNCHANGED <<files, replaced>>
    /\ clean' = (clean /\ ok)
    /\ batch' = [batch EXCEPT ![i] = {}]
    /\ pc' = IF batch' = NoRows THEN "delete" ELSE "upload"
    /\ UNCHANGED <<now, stored, crate, watermark, archiveCut, deleteCut, marks, left, schema, batchTs,
                   schemaOk>>

\* One group: an exception, or a file that does not verify, marks the schema and
\* the loop goes on.
UploadGroup(i, ok) ==
    /\ pc = "upload"
    /\ batch[i] # {}
    /\ \/ WriteFile(i)
       \/ ~ok /\ UNCHANGED <<files, replaced>>
    /\ schemaOk' = (schemaOk /\ ok)
    /\ clean' = (clean /\ ok)
    /\ batch' = [batch EXCEPT ![i] = {}]
    /\ pc' = IF batch' = NoRows THEN "delete" ELSE "upload"
    /\ UNCHANGED <<now, stored, crate, watermark, archiveCut, deleteCut, marks, left, schema, batchTs>>

AfterSchema == IF left = {} THEN "save" ELSE "schema"

\* Mutant: the delete takes the cutoff of the archive.
BuggyDeleteOld ==
    /\ pc = "delete" /\ schemaOk
    /\ marks' = [marks EXCEPT ![schema] = archiveCut]
    /\ crate' = {r \in crate : SchemaOf[r[1]] # schema \/ r[2] >= archiveCut}
    /\ pc' = AfterSchema
    /\ UNCHANGED <<now, stored, files, replaced, watermark, archiveCut, deleteCut, left, schema, batch,
                   batchTs, schemaOk, clean>>

\* All groups went well: the watermark moves, then old rows are deleted.
DeleteOld ==
    /\ pc = "delete" /\ schemaOk
    /\ marks' = [marks EXCEPT ![schema] = archiveCut]
    /\ crate' = {r \in crate : SchemaOf[r[1]] # schema \/ r[2] >= deleteCut}
    /\ pc' = AfterSchema
    /\ UNCHANGED <<now, stored, files, replaced, watermark, archiveCut, deleteCut, left, schema, batch,
                   batchTs, schemaOk, clean>>

\* Mutant: the watermark moves all the same.
BuggySkipDelete ==
    /\ pc = "delete" /\ ~schemaOk
    /\ marks' = [marks EXCEPT ![schema] = archiveCut]
    /\ pc' = AfterSchema
    /\ UNCHANGED <<storeVars, archiveCut, deleteCut, left, schema, batch, batchTs, schemaOk, clean>>

\* Some group failed: neither, for this schema.
SkipDelete ==
    /\ pc = "delete" /\ ~schemaOk
    /\ pc' = AfterSchema
    /\ UNCHANGED <<storeVars, archiveCut, deleteCut, marks, left, schema, batch, batchTs,
                   schemaOk, clean>>

\* The watermarks of all schemas are saved at the end of the run.
SaveWatermarks ==
    /\ pc = "save"
    /\ watermark' = marks
    /\ pc' = "idle"
    /\ UNCHANGED <<now, stored, crate, files, replaced, archiveCut, deleteCut, marks, left, schema, batch,
                   batchTs, schemaOk, clean>>

\* The run dies between any two steps: a query, an upload or the last save
\* raised, or the Pod is gone.
Die ==
    /\ pc \notin {"idle", "dead"}
    /\ pc' = "dead"
    /\ clean' = FALSE
    /\ UNCHANGED <<storeVars, archiveCut, deleteCut, marks, left, schema, batch, batchTs, schemaOk>>

Next ==
    \/ Tick
    \/ \E i \in Imeis, t \in Times : Insert(i, t)
    \/ StartRun
    \/ \E s \in Schemas : FetchSchema(s)
    \/ \E i \in Imeis, ok \in BOOLEAN : UploadGroup(i, ok)
    \/ DeleteOld \/ SkipDelete \/ SaveWatermarks \/ Die

Spec == Init /\ [][Next]_vars

-------------------------------------------------------------------------------
(* Properties *)

Archived(r) == \E m \in Times : r[2] \in files[<<r[1], m>>]

\* No row that was ever stored is lost: it is in CrateDB or in some file,
\* whatever fails, dies and is retried in between.
NoDataLoss == \A r \in stored : r \in crate \/ Archived(r)

\* What the code does keep of it: whatever fails, dies and is retried, a row is
\* lost only when a run that repeats one that died wrote, in the same minute, a
\* file of the same name without it; until something fails none is.
LostOnlyByReplacement ==
    /\ \A r \in stored : r \in crate \/ Archived(r) \/ r \in replaced
    /\ clean => replaced = {}

\* Everything below the saved watermark was archived, and is unless its file was
\* replaced; a row that comes late does not come below it.  Later runs look only
\* above it.
WatermarkHonest ==
    \A r \in stored : r[2] < watermark[SchemaOf[r[1]]] => Archived(r) \/ r \in replaced

\* Until something fails no row is archived twice: consecutive runs fetch
\* intervals that meet and do not overlap, whatever is inserted while they run.
ArchivedOnceWhileClean ==
    clean => \A i \in Imeis, m, n \in Times :
                m # n => files[<<i, m>>] \cap files[<<i, n>>] = {}

\* Rows stay in CrateDB, where GET /positions reads them, for DeleteAfter,
\* however long a run takes.
RecentRowsStay ==
    [][\A r \in crate \ crate' : r[2] < now - DeleteAfter]_vars
===============================================================================
