------------------------------ MODULE ExportJob -------------------------------
(***************************************************************************)
(* Archive exports (api/internal/export): POST /archive stores a job in    *)
(* Redis and spawns runJob, which pipes the CSV that one goroutine writes  *)
(* into the MinIO upload that another one drives, and records the outcome. *)
(*                                                                         *)
(* Jobs share nothing, so a job is one element of Jobs and every variable  *)
(* is a function of it.  The Redis record gets what is left of its 24      *)
(* hours at each save.  A CSV is a number of rows.                         *)
(***************************************************************************)
EXTENDS Integers

CONSTANTS
    Jobs,          \* job ids
    MaxRows,       \* bound on the rows a job selects
    BufferRows,    \* rows that fit into the csv.Writer's buffer
    UploadFaults,  \* whether MinIO may refuse or break off an upload
    Crashes        \* whether the API process may die

ASSUME ExportAssumption ==
    /\ MaxRows \in Nat
    /\ BufferRows \in Nat \ {0}
    /\ UploadFaults \in BOOLEAN /\ Crashes \in BOOLEAN

VARIABLES
    status,     \* Redis: Status of the record, "none" when there is no key
    rowCount,   \* Redis: RowCount of the record
    over,       \* ExpiresAt has passed
    ttl,        \* Redis: the key lives until ExpiresAt ("rest"), for a second
                \*   more, or for good ("never"; also when there is no key)
    handler,    \* HandleCreate
    run,        \* runJob
    writer,     \* the goroutine of runJob that runs writeCSV
    uploader,   \* PutObject, called by runJob
    pipe,       \* the write end of io.Pipe: open, closed ("eof") or broken ("err")
    total,      \* rows the archive holds for the job
    written,    \* rowsWritten of writeCSV, -1 after an error
    received,   \* rows the uploader has read from the pipe
    object,     \* rows of exports/<tenant>/<id>.csv, -1 when there is none
    seen        \* what the client's last GET /archive/<id> said

redisVars == <<status, rowCount, over, ttl>>
csvVars == <<writer, pipe, written, received>>
exportVars == <<redisVars, handler, run, uploader, csvVars, total, object, seen>>

Statuses == {"none", "pending", "running", "ready", "error"}

ExportTypeOK ==
    /\ status \in [Jobs -> Statuses]
    /\ rowCount \in [Jobs -> 0..MaxRows]
    /\ over \in [Jobs -> BOOLEAN]
    /\ ttl \in [Jobs -> {"rest", "second", "never"}]
    /\ handler \in [Jobs -> {"new", "saved", "accepted", "failed"}]
    /\ run \in [Jobs -> {"none", "mark", "upload", "save", "returned", "lost"}]
    /\ writer \in [Jobs -> {"none", "row", "push", "flush", "close", "sent"}]
    /\ uploader \in [Jobs -> {"none", "init", "read", "finish", "ok", "err"}]
    /\ pipe \in [Jobs -> {"open", "eof", "err"}]
    /\ total \in [Jobs -> 0..MaxRows]
    /\ written \in [Jobs -> -1..MaxRows]
    /\ received \in [Jobs -> 0..MaxRows]
    /\ object \in [Jobs -> -1..MaxRows]
    /\ seen \in [Jobs -> Statuses]

ExportInit ==
    /\ status = [j \in Jobs |-> "none"]
    /\ rowCount = [j \in Jobs |-> 0]
    /\ over = [j \in Jobs |-> FALSE]
    /\ ttl = [j \in Jobs |-> "never"]
    /\ handler = [j \in Jobs |-> "new"]
    /\ run = [j \in Jobs |-> "none"]
    /\ writer = [j \in Jobs |-> "none"]
    /\ uploader = [j \in Jobs |-> "none"]
    /\ pipe = [j \in Jobs |-> "open"]
    /\ total \in [Jobs -> 0..MaxRows]
    /\ written = [j \in Jobs |-> 0]
    /\ received = [j \in Jobs |-> 0]
    /\ object = [j \in Jobs |-> -1]
    /\ seen = [j \in Jobs |-> "none"]

-------------------------------------------------------------------------------
(* The record in Redis *)

\* Mutant: no floor of one second; the client sends a SET whose expiration is
\* not positive without one.
BuggySaveJob(j, s, n, ok) ==
    /\ \/ /\ status' = [status EXCEPT ![j] = s]
          /\ rowCount' = [rowCount EXCEPT ![j] = n]
          /\ ttl' = [ttl EXCEPT ![j] = IF over[j] THEN "never" ELSE "rest"]
       \/ ~ok /\ UNCHANGED <<status, rowCount, ttl>>
    /\ UNCHANGED over

\* SET export:<tenant>:<id> with what is left until ExpiresAt, or one second
\* when nothing is.  A failed call may have stored the record.
saveJob(j, s, n, ok) ==
    /\ \/ /\ status' = [status EXCEPT ![j] = s]
          /\ rowCount' = [rowCount EXCEPT ![j] = n]
          /\ ttl' = [ttl EXCEPT ![j] = IF over[j] THEN "second" ELSE "rest"]
       \/ ~ok /\ UNCHANGED <<status, rowCount, ttl>>
    /\ UNCHANGED over

\* The 24 hours since HandleCreate made the job are over.
TimeUp(j) ==
    /\ handler[j] # "new" /\ ~over[j]
    /\ over' = [over EXCEPT ![j] = TRUE]
    /\ UNCHANGED <<status, rowCount, ttl, handler, run, uploader, csvVars, total, object, seen>>

\* Redis drops a key when its time is over, and one without a TTL never.
Expire(j) ==
    /\ status[j] # "none"
    /\ ttl[j] = "second" \/ (ttl[j] = "rest" /\ over[j])
    /\ status' = [status EXCEPT ![j] = "none"]
    /\ rowCount' = [rowCount EXCEPT ![j] = 0]
    /\ ttl' = [ttl EXCEPT ![j] = "never"]
    /\ UNCHANGED <<over, handler, run, uploader, csvVars, total, object, seen>>

-------------------------------------------------------------------------------
(* HandleCreate *)

\* The pending record goes first; the client gets 500 when that fails.
SavePending(j, ok) ==
    /\ handler[j] = "new"
    /\ saveJob(j, "pending", 0, ok)
    /\ handler' = [handler EXCEPT ![j] = IF ok THEN "saved" ELSE "failed"]
    /\ UNCHANGED <<run, uploader, csvVars, total, object, seen>>

\* Mutant: runJob is spawned before the pending record is saved.
BuggySpawn(j) ==
    /\ handler[j] \in {"new", "saved"}
    /\ handler' = [handler EXCEPT ![j] = IF @ = "saved" THEN "accepted" ELSE @]
    /\ run' = [run EXCEPT ![j] = IF @ = "none" THEN "mark" ELSE @]
    /\ UNCHANGED <<redisVars, uploader, csvVars, total, object, seen>>

\* go runJob, and 202 with the id.
Spawn(j) ==
    /\ handler[j] = "saved"
    /\ handler' = [handler EXCEPT ![j] = "accepted"]
    /\ run' = [run EXCEPT ![j] = "mark"]
    /\ UNCHANGED <<redisVars, uploader, csvVars, total, object, seen>>

-------------------------------------------------------------------------------
(* runJob *)

\* Mark the job running, make the pipe, start the writer and call PutObject;
\* a failed save ends the goroutine there.
MarkRunning(j, ok) ==
    /\ run[j] = "mark"
    /\ saveJob(j, "running", 0, ok)
    /\ run' = [run EXCEPT ![j] = IF ok THEN "upload" ELSE "returned"]
    /\ writer' = [writer EXCEPT ![j] = IF ok THEN "row" ELSE @]
    /\ uploader' = [uploader EXCEPT ![j] = IF ok THEN "init" ELSE @]
    /\ UNCHANGED <<handler, pipe, written, received, total, object, seen>>

\* writeCSV: one more row goes into the buffer, which is written to the pipe
\* when it is full.
WriteRow(j) ==
    /\ writer[j] = "row" /\ written[j] < total[j]
    /\ written' = [written EXCEPT ![j] = @ + 1]
    /\ writer' = [writer EXCEPT ![j] =
                     IF written[j] + 1 - received[j] >= BufferRows THEN "push" ELSE @]
    /\ UNCHANGED <<redisVars, handler, run, uploader, pipe, received, total, object, seen>>

\* writeCSV: all rows are written, cw.Flush() writes the rest (the header at
\* least) to the pipe.
LastRow(j) ==
    /\ writer[j] = "row" /\ written[j] = total[j]
    /\ writer' = [writer EXCEPT ![j] = "flush"]
    /\ UNCHANGED <<redisVars, handler, run, uploader, pipe, written, received, total, object, seen>>

\* A write to the pipe returns when the uploader has read it: io.Pipe has no
\* buffer, and the read end is never closed.
PipeTransfer(j) ==
    /\ writer[j] \in {"push", "flush"} /\ uploader[j] = "read"
    /\ received' = [received EXCEPT ![j] = written[j]]
    /\ writer' = [writer EXCEPT ![j] = IF @ = "push" THEN "row" ELSE "close"]
    /\ UNCHANGED <<redisVars, handler, run, uploader, pipe, written, total, object, seen>>

\* Mutant: the pipe is closed as after a complete CSV.
BuggyReadFails(j) ==
    /\ writer[j] = "row"
    /\ pipe' = [pipe EXCEPT ![j] = "eof"]
    /\ writer' = [writer EXCEPT ![j] = "sent"]
    /\ UNCHANGED <<redisVars, handler, run, uploader, written, received, total, object, seen>>

\* writeCSV fails to list or read a Parquet file: pw.CloseWithError(err), then
\* -1 on rowCh.  An err that is io.EOF looks like a normal end to the reader.
ReadFails(j) ==
    /\ writer[j] = "row"
    /\ \E end \in {"err", "eof"} : pipe' = [pipe EXCEPT ![j] = end]
    /\ written' = [written EXCEPT ![j] = -1]
    /\ writer' = [writer EXCEPT ![j] = "sent"]
    /\ UNCHANGED <<redisVars, handler, run, uploader, received, total, object, seen>>

\* Mutant: the pipe is not closed.
BuggyCloseWriter(j) ==
    /\ writer[j] = "close"
    /\ writer' = [writer EXCEPT ![j] = "sent"]
    /\ UNCHANGED <<redisVars, handler, run, uploader, pipe, written, received, total, object, seen>>

\* pw.Close(), then the number of rows on rowCh.
CloseWriter(j) ==
    /\ writer[j] = "close"
    /\ pipe' = [pipe EXCEPT ![j] = "eof"]
    /\ writer' = [writer EXCEPT ![j] = "sent"]
    /\ UNCHANGED <<redisVars, handler, run, uploader, written, received, total, object, seen>>

UploadUnchanged == UNCHANGED <<redisVars, handler, run, csvVars, total, seen>>

\* PutObject opens the multipart upload before it reads, then reads to the end
\* of the pipe; MinIO may refuse either, and then nobody reads any more.
StartUpload(j, ok) ==
    /\ uploader[j] = "init" /\ (ok \/ UploadFaults)
    /\ uploader' = [uploader EXCEPT ![j] = IF ok THEN "read" ELSE "err"]
    /\ UploadUnchanged /\ UNCHANGED object

UploadBreaks(j) ==
    /\ uploader[j] = "read" /\ UploadFaults
    /\ uploader' = [uploader EXCEPT ![j] = "err"]
    /\ UploadUnchanged /\ UNCHANGED object

\* The reader gets the error the writer closed the pipe with.
ReadError(j) ==
    /\ uploader[j] = "read" /\ pipe[j] = "err"
    /\ uploader' = [uploader EXCEPT ![j] = "err"]
    /\ UploadUnchanged /\ UNCHANGED object

ReadEnd(j) ==
    /\ uploader[j] = "read" /\ pipe[j] = "eof"
    /\ uploader' = [uploader EXCEPT ![j] = "finish"]
    /\ UploadUnchanged /\ UNCHANGED object

\* The upload is completed, which is when the object appears; the reply to that
\* may be lost.
CompleteUpload(j, ok) ==
    /\ uploader[j] = "finish" /\ (ok \/ UploadFaults)
    /\ uploader' = [uploader EXCEPT ![j] = IF ok THEN "ok" ELSE "err"]
    /\ \/ object' = [object EXCEPT ![j] = received[j]]
       \/ ~ok /\ UNCHANGED object
    /\ UploadUnchanged

\* PutObject has returned and rowCh has a value.
Collect(j) ==
    /\ run[j] = "upload"
    /\ uploader[j] \in {"ok", "err"} /\ writer[j] = "sent"
    /\ run' = [run EXCEPT ![j] = "save"]
    /\ UNCHANGED <<redisVars, handler, uploader, csvVars, total, object, seen>>

\* The status runJob decides on.
Outcome(j) == IF uploader[j] = "err" \/ written[j] < 0 THEN "error" ELSE "ready"

\* Mutant: when the last save fails, the export is run again.
BuggySaveOutcome(j, ok) ==
    /\ run[j] = "save"
    /\ saveJob(j, Outcome(j), IF Outcome(j) = "ready" THEN written[j] ELSE 0, ok)
    /\ run' = [run EXCEPT ![j] = IF ok THEN "returned" ELSE "mark"]
    /\ UNCHANGED <<handler, uploader, csvVars, total, object, seen>>

\* The last save; a failure is logged and nothing else.
SaveOutcome(j, ok) ==
    /\ run[j] = "save"
    /\ saveJob(j, Outcome(j), IF Outcome(j) = "ready" THEN written[j] ELSE 0, ok)
    /\ run' = [run EXCEPT ![j] = "returned"]
    /\ UNCHANGED <<handler, uploader, csvVars, total, object, seen>>

\* The process dies, with whatever of the job was running in it.
Crash(j) ==
    /\ Crashes
    /\ handler[j] = "saved" \/ run[j] \in {"mark", "upload", "save"}
    /\ run' = [run EXCEPT ![j] = "lost"]
    /\ handler' = [handler EXCEPT ![j] = IF @ = "saved" THEN "failed" ELSE @]
    /\ writer' = [writer EXCEPT ![j] = "none"]
    /\ uploader' = [uploader EXCEPT ![j] = "none"]
    /\ UNCHANGED <<redisVars, pipe, written, received, total, object, seen>>

-------------------------------------------------------------------------------
(* The client *)

\* GET /archive/<id>, by the tenant that was told the id.
Poll(j) ==
    /\ handler[j] = "accepted"
    /\ seen' = [seen EXCEPT ![j] = status[j]]
    /\ UNCHANGED <<redisVars, handler, run, uploader, csvVars, total, object>>

\* GET /archive/<id>/download answers 200 with the object, or 500 without one.
Downloadable(j) == status[j] = "ready"

-------------------------------------------------------------------------------
(* The specification *)

ApiStep(j) ==
    \/ Spawn(j) \/ WriteRow(j) \/ LastRow(j) \/ PipeTransfer(j) \/ CloseWriter(j)
    \/ ReadEnd(j) \/ ReadError(j) \/ Collect(j)
    \/ \E ok \in BOOLEAN :
          MarkRunning(j, ok) \/ StartUpload(j, ok) \/ CompleteUpload(j, ok) \/ SaveOutcome(j, ok)

ExportNext == \E j \in Jobs :
    \/ ApiStep(j) \/ UploadBreaks(j) \/ ReadFails(j)
    \/ TimeUp(j) \/ Expire(j) \/ Crash(j) \/ Poll(j)
    \/ \E ok \in BOOLEAN : SavePending(j, ok)

ExportSpec == ExportInit /\ [][ExportNext]_exportVars

\* Goroutines run on, time passes and Redis drops the keys whose time is over;
\* clients and failures owe nothing, though a call that can fail returns.
ExportFairSpec ==
    /\ ExportSpec
    /\ \A j \in Jobs :
          WF_exportVars(ApiStep(j)) /\ WF_exportVars(TimeUp(j)) /\ WF_exportVars(Expire(j))

-------------------------------------------------------------------------------
(* Properties *)

\* A job that GET /archive/<id> calls ready has an object to download, with all
\* rows of the archive and as many as row_count says, however the writer, the
\* uploader and their failures were mixed.
ReadyIsComplete ==
    \A j \in Jobs : Downloadable(j) => object[j] = total[j] /\ rowCount[j] = total[j]

\* A record only moves pending -> running -> ready or error, and nothing but a
\* save after ExpiresAt brings back a record that is gone.
StatusMovesForward ==
    [][\A j \in Jobs : status'[j] \notin {status[j], "none"} =>
          \/ status[j] = "none" /\ (over[j] \/ status'[j] = "pending")
          \/ <<status[j], status'[j]>> \in {<<"pending", "running">>, <<"running", "ready">>,
                                            <<"running", "error">>}]_exportVars

\* A finished job never looks unfinished again to the client that polls it.
ClientSeesForward ==
    [][\A j \in Jobs : seen[j] \in {"ready", "error"} => seen'[j] \in {seen[j], "none"}]_exportVars

\* The record of every job is gone for good in the end, also when its process
\* died and its status is stuck, and when runJob was so slow that it saved after
\* ExpiresAt, which makes the record anew (the TTL of saveJob and its floor).
RecordsExpire == \A j \in Jobs : handler[j] # "new" ~> [](status[j] = "none")

\* A run that is not cut short by a crash comes to its end, whichever of the
\* writer and the uploader is the slower, as long as the upload does not fail.
RunsEndOrUploadFails ==
    \A j \in Jobs : run[j] = "mark" ~> run[j] \in {"returned", "lost"} \/ uploader[j] = "err"

\* The comment on runJob, "Updates job status in Redis at each transition": a
\* run that is not cut short by a crash comes to its end.
RunsEnd == \A j \in Jobs : run[j] = "mark" ~> run[j] \in {"returned", "lost"}
===============================================================================
