------------------------------- MODULE Api_proofs -----------------------------
(***************************************************************************)
(* Proofs about the operations of the API that touch no devices: exports,  *)
(* for any jobs, any numbers of rows, any buffer, with and without failing *)
(* uploads and crashes; the certificate of a tenant, for any number of     *)
(* requests; positions, for any trackers, rows and length of time; and of  *)
(* the three as MCApi puts them together.                                  *)
(*                                                                         *)
(* The record of an export says "ready" long after the rows were counted,  *)
(* read and uploaded by three goroutines.  ExportInv says what each place  *)
(* in the code knows about the others: how far the CSV is when the writer  *)
(* is somewhere (WriterKnows), that an upload can only be complete when    *)
(* the pipe was closed (UploaderKnows), and what the record can say while  *)
(* runJob is somewhere (RecordKnows).                                      *)
(*                                                                         *)
(* A request for the certificate knows nothing of the others; what it may  *)
(* rely on is what the secret held since it began.  CertInv says what the  *)
(* place of a request in the code tells about that.                        *)
(***************************************************************************)
EXTENDS MCApi, TLAPS

-------------------------------------------------------------------------------
(* Exports *)

\* The writer has written all rows when it flushes, and the uploader has read
\* them when the pipe is closed, unless the writer gave up (-1).
WriterKnows(j) ==
    /\ writer[j] \in {"row", "push"} => written[j] >= 0
    /\ writer[j] = "flush" => written[j] = total[j]
    /\ writer[j] = "close" => written[j] = total[j] /\ received[j] = total[j]
    /\ writer[j] = "sent" /\ written[j] >= 0 => written[j] = total[j] /\ received[j] = total[j]
    /\ pipe[j] # "open" => writer[j] = "sent" \/ run[j] = "lost"

\* The end of the pipe is only read after the writer has closed it.
UploaderKnows(j) ==
    /\ uploader[j] \in {"finish", "ok"} => writer[j] = "sent"
    /\ uploader[j] = "ok" /\ written[j] >= 0 => object[j] = total[j]

\* Where the goroutines are while runJob is somewhere.
RunKnows(j) ==
    /\ handler[j] \in {"new", "saved"} => run[j] = "none"
    /\ handler[j] = "failed" => run[j] \in {"none", "lost"}
    /\ run[j] \in {"none", "mark"} => written[j] = 0
    /\ run[j] \in {"none", "mark", "lost"} => writer[j] = "none" /\ uploader[j] = "none"
    /\ run[j] = "save" => writer[j] = "sent" /\ uploader[j] \in {"ok", "err"}
    /\ run[j] = "returned" => writer[j] \in {"none", "sent"} /\ uploader[j] \in {"none", "ok", "err"}

\* The record is s, or has expired.
RecordIs(j, s) == status[j] = s \/ (status[j] = "none" /\ over[j])

\* What the record and the client know.
RecordKnows(j) ==
    /\ handler[j] = "new" => status[j] = "none"
    /\ status[j] # "none" => ttl[j] # "never"
    /\ ttl[j] = "second" => over[j]
    /\ handler[j] = "saved" \/ run[j] = "mark" => RecordIs(j, "pending")
    /\ run[j] \in {"upload", "save"} => RecordIs(j, "running")
    /\ status[j] \in {"ready", "error"} => run[j] = "returned"
    /\ status[j] = "ready" => rowCount[j] = total[j] /\ object[j] = total[j]
    /\ seen[j] \in {"ready", "error"} => run[j] = "returned" /\ status[j] \in {seen[j], "none"}

ExportInv ==
    ExportTypeOK /\ \A j \in Jobs : WriterKnows(j) /\ UploaderKnows(j) /\ RunKnows(j) /\ RecordKnows(j)

-------------------------------------------------------------------------------

\* Every step preserves ExportInv.
LEMMA ExportStep == ExportInv /\ [ExportNext]_exportVars => ExportInv'
<1> USE ExportAssumption
<1>1. ASSUME ExportInv, NEW j \in Jobs, NEW ok \in BOOLEAN, SavePending(j, ok)
      PROVE  ExportInv'
  <2>1. ExportTypeOK'
    BY <1>1 DEF ExportInv, ExportTypeOK, Statuses, SavePending, saveJob, redisVars, csvVars
  <2>2. ASSUME NEW k \in Jobs PROVE WriterKnows(k)'
    BY <1>1 DEF ExportInv, ExportTypeOK, WriterKnows, SavePending, csvVars
  <2>3. ASSUME NEW k \in Jobs PROVE UploaderKnows(k)'
    BY <1>1 DEF ExportInv, ExportTypeOK, UploaderKnows, SavePending, csvVars
  <2>4. ASSUME NEW k \in Jobs PROVE RunKnows(k)'
    BY <1>1 DEF ExportInv, ExportTypeOK, RunKnows, SavePending, csvVars
  <2>5. ASSUME NEW k \in Jobs PROVE RecordKnows(k)'
    BY <1>1 DEF ExportInv, ExportTypeOK, RecordKnows, RecordIs, RunKnows, SavePending, saveJob
  <2> QED BY <2>1, <2>2, <2>3, <2>4, <2>5 DEF ExportInv
<1>2. ASSUME ExportInv, NEW j \in Jobs, Spawn(j)
      PROVE  ExportInv'
  <2>1. ExportTypeOK'
    BY <1>2 DEF ExportInv, ExportTypeOK, Spawn, redisVars, csvVars
  <2>2. ASSUME NEW k \in Jobs PROVE WriterKnows(k)'
    BY <1>2 DEF ExportInv, ExportTypeOK, WriterKnows, RunKnows, Spawn, csvVars
  <2>3. ASSUME NEW k \in Jobs PROVE UploaderKnows(k)'
    BY <1>2 DEF ExportInv, ExportTypeOK, UploaderKnows, Spawn, csvVars
  <2>4. ASSUME NEW k \in Jobs PROVE RunKnows(k)'
    BY <1>2 DEF ExportInv, ExportTypeOK, RunKnows, Spawn, csvVars
  <2>5. ASSUME NEW k \in Jobs PROVE RecordKnows(k)'
    BY <1>2 DEF ExportInv, ExportTypeOK, RecordKnows, RecordIs, RunKnows, Spawn, redisVars
  <2> QED BY <2>1, <2>2, <2>3, <2>4, <2>5 DEF ExportInv
<1>3. ASSUME ExportInv, NEW j \in Jobs, NEW ok \in BOOLEAN, MarkRunning(j, ok)
      PROVE  ExportInv'
  <2>1. ExportTypeOK'
    BY <1>3 DEF ExportInv, ExportTypeOK, Statuses, MarkRunning, saveJob, redisVars, csvVars
  <2>2. ASSUME NEW k \in Jobs PROVE WriterKnows(k)'
    BY <1>3 DEF ExportInv, ExportTypeOK, WriterKnows, RunKnows, MarkRunning
  <2>3. ASSUME NEW k \in Jobs PROVE UploaderKnows(k)'
    BY <1>3 DEF ExportInv, ExportTypeOK, UploaderKnows, MarkRunning
  <2>4. ASSUME NEW k \in Jobs PROVE RunKnows(k)'
    BY <1>3 DEF ExportInv, ExportTypeOK, RunKnows, MarkRunning
  <2>5. ASSUME NEW k \in Jobs PROVE RecordKnows(k)'
    BY <1>3 DEF ExportInv, ExportTypeOK, RecordKnows, RecordIs, RunKnows, MarkRunning, saveJob
  <2> QED BY <2>1, <2>2, <2>3, <2>4, <2>5 DEF ExportInv
<1>4. ASSUME ExportInv, NEW j \in Jobs, WriteRow(j)
      PROVE  ExportInv'
  <2>1. ExportTypeOK'
    BY <1>4 DEF ExportInv, ExportTypeOK, WriteRow, redisVars
  <2>2. ASSUME NEW k \in Jobs PROVE WriterKnows(k)'
    BY <1>4 DEF ExportInv, ExportTypeOK, WriterKnows, WriteRow
  <2>3. ASSUME NEW k \in Jobs PROVE UploaderKnows(k)'
    BY <1>4 DEF ExportInv, ExportTypeOK, UploaderKnows, WriteRow
  <2>4. ASSUME NEW k \in Jobs PROVE RunKnows(k)'
    BY <1>4 DEF ExportInv, ExportTypeOK, RunKnows, WriteRow
  <2>5. ASSUME NEW k \in Jobs PROVE RecordKnows(k)'
    BY <1>4 DEF ExportInv, ExportTypeOK, RecordKnows, RecordIs, WriteRow, redisVars
  <2> QED BY <2>1, <2>2, <2>3, <2>4, <2>5 DEF ExportInv
<1>5. ASSUME ExportInv, NEW j \in Jobs, LastRow(j)
      PROVE  ExportInv'
  <2>1. ExportTypeOK'
    BY <1>5 DEF ExportInv, ExportTypeOK, LastRow, redisVars
  <2>2. ASSUME NEW k \in Jobs PROVE WriterKnows(k)'
    BY <1>5 DEF ExportInv, ExportTypeOK, WriterKnows, LastRow
  <2>3. ASSUME NEW k \in Jobs PROVE UploaderKnows(k)'
    BY <1>5 DEF ExportInv, ExportTypeOK, UploaderKnows, LastRow
  <2>4. ASSUME NEW k \in Jobs PROVE RunKnows(k)'
    BY <1>5 DEF ExportInv, ExportTypeOK, RunKnows, LastRow
  <2>5. ASSUME NEW k \in Jobs PROVE RecordKnows(k)'
    BY <1>5 DEF ExportInv, ExportTypeOK, RecordKnows, RecordIs, LastRow, redisVars
  <2> QED BY <2>1, <2>2, <2>3, <2>4, <2>5 DEF ExportInv
<1>6. ASSUME ExportInv, NEW j \in Jobs, PipeTransfer(j)
      PROVE  ExportInv'
  <2>1. ExportTypeOK'
    BY <1>6 DEF ExportInv, ExportTypeOK, WriterKnows, PipeTransfer, redisVars
  <2>2. ASSUME NEW k \in Jobs PROVE WriterKnows(k)'
    BY <1>6 DEF ExportInv, ExportTypeOK, WriterKnows, PipeTransfer
  <2>3. ASSUME NEW k \in Jobs PROVE UploaderKnows(k)'
    BY <1>6 DEF ExportInv, ExportTypeOK, UploaderKnows, PipeTransfer
  <2>4. ASSUME NEW k \in Jobs PROVE RunKnows(k)'
    BY <1>6 DEF ExportInv, ExportTypeOK, RunKnows, PipeTransfer
  <2>5. ASSUME NEW k \in Jobs PROVE RecordKnows(k)'
    BY <1>6 DEF ExportInv, ExportTypeOK, RecordKnows, RecordIs, PipeTransfer, redisVars
  <2> QED BY <2>1, <2>2, <2>3, <2>4, <2>5 DEF ExportInv
<1>7. ASSUME ExportInv, NEW j \in Jobs, ReadFails(j)
      PROVE  ExportInv'
  <2>1. ExportTypeOK'
    BY <1>7 DEF ExportInv, ExportTypeOK, ReadFails, redisVars
  <2>2. ASSUME NEW k \in Jobs PROVE WriterKnows(k)'
    BY <1>7 DEF ExportInv, ExportTypeOK, WriterKnows, ReadFails
  <2>3. ASSUME NEW k \in Jobs PROVE UploaderKnows(k)'
    BY <1>7 DEF ExportInv, ExportTypeOK, UploaderKnows, ReadFails
  <2>4. ASSUME NEW k \in Jobs PROVE RunKnows(k)'
    BY <1>7 DEF ExportInv, ExportTypeOK, RunKnows, ReadFails
  <2>5. ASSUME NEW k \in Jobs PROVE RecordKnows(k)'
    BY <1>7 DEF ExportInv, ExportTypeOK, RecordKnows, RecordIs, ReadFails, redisVars
  <2> QED BY <2>1, <2>2, <2>3, <2>4, <2>5 DEF ExportInv
<1>8. ASSUME ExportInv, NEW j \in Jobs, CloseWriter(j)
      PROVE  ExportInv'
  <2>1. ExportTypeOK'
    BY <1>8 DEF ExportInv, ExportTypeOK, CloseWriter, redisVars
  <2>2. ASSUME NEW k \in Jobs PROVE WriterKnows(k)'
    BY <1>8 DEF ExportInv, ExportTypeOK, WriterKnows, CloseWriter
  <2>3. ASSUME NEW k \in Jobs PROVE UploaderKnows(k)'
    BY <1>8 DEF ExportInv, ExportTypeOK, UploaderKnows, CloseWriter
  <2>4. ASSUME NEW k \in Jobs PROVE RunKnows(k)'
    BY <1>8 DEF ExportInv, ExportTypeOK, RunKnows, CloseWriter
  <2>5. ASSUME NEW k \in Jobs PROVE RecordKnows(k)'
    BY <1>8 DEF ExportInv, ExportTypeOK, RecordKnows, RecordIs, CloseWriter, redisVars
  <2> QED BY <2>1, <2>2, <2>3, <2>4, <2>5 DEF ExportInv
<1>9. ASSUME ExportInv, NEW j \in Jobs, NEW ok \in BOOLEAN, StartUpload(j, ok)
      PROVE  ExportInv'
  <2>1. ExportTypeOK'
    BY <1>9 DEF ExportInv, ExportTypeOK, StartUpload, UploadUnchanged, redisVars, csvVars
  <2>2. ASSUME NEW k \in Jobs PROVE WriterKnows(k)'
    BY <1>9 DEF ExportInv, ExportTypeOK, WriterKnows, StartUpload, UploadUnchanged, csvVars
  <2>3. ASSUME NEW k \in Jobs PROVE UploaderKnows(k)'
    BY <1>9 DEF ExportInv, ExportTypeOK, UploaderKnows, StartUpload, UploadUnchanged, csvVars
  <2>4. ASSUME NEW k \in Jobs PROVE RunKnows(k)'
    BY <1>9 DEF ExportInv, ExportTypeOK, RunKnows, StartUpload, UploadUnchanged, csvVars
  <2>5. ASSUME NEW k \in Jobs PROVE RecordKnows(k)'
    BY <1>9 DEF ExportInv, ExportTypeOK, RecordKnows, RecordIs, StartUpload, UploadUnchanged,
       redisVars
  <2> QED BY <2>1, <2>2, <2>3, <2>4, <2>5 DEF ExportInv
<1>10. ASSUME ExportInv, NEW j \in Jobs, UploadBreaks(j)
      PROVE  ExportInv'
  <2>1. ExportTypeOK'
    BY <1>10 DEF ExportInv, ExportTypeOK, UploadBreaks, UploadUnchanged, redisVars, csvVars
  <2>2. ASSUME NEW k \in Jobs PROVE WriterKnows(k)'
    BY <1>10 DEF ExportInv, ExportTypeOK, WriterKnows, UploadBreaks, UploadUnchanged, csvVars
  <2>3. ASSUME NEW k \in Jobs PROVE UploaderKnows(k)'
    BY <1>10 DEF ExportInv, ExportTypeOK, UploaderKnows, UploadBreaks, UploadUnchanged, csvVars
  <2>4. ASSUME NEW k \in Jobs PROVE RunKnows(k)'
    BY <1>10 DEF ExportInv, ExportTypeOK, RunKnows, UploadBreaks, UploadUnchanged, csvVars
  <2>5. ASSUME NEW k \in Jobs PROVE RecordKnows(k)'
    BY <1>10 DEF ExportInv, ExportTypeOK, RecordKnows, RecordIs, UploadBreaks, UploadUnchanged,
       redisVars
  <2> QED BY <2>1, <2>2, <2>3, <2>4, <2>5 DEF ExportInv
<1>11. ASSUME ExportInv, NEW j \in Jobs, ReadError(j)
      PROVE  ExportInv'
  <2>1. ExportTypeOK'
    BY <1>11 DEF ExportInv, ExportTypeOK, ReadError, UploadUnchanged, redisVars, csvVars
  <2>2. ASSUME NEW k \in Jobs PROVE WriterKnows(k)'
    BY <1>11 DEF ExportInv, ExportTypeOK, WriterKnows, ReadError, UploadUnchanged, csvVars
  <2>3. ASSUME NEW k \in Jobs PROVE UploaderKnows(k)'
    BY <1>11 DEF ExportInv, ExportTypeOK, UploaderKnows, ReadError, UploadUnchanged, csvVars
  <2>4. ASSUME NEW k \in Jobs PROVE RunKnows(k)'
    BY <1>11 DEF ExportInv, ExportTypeOK, RunKnows, ReadError, UploadUnchanged, csvVars
  <2>5. ASSUME NEW k \in Jobs PROVE RecordKnows(k)'
    BY <1>11 DEF ExportInv, ExportTypeOK, RecordKnows, RecordIs, ReadError, UploadUnchanged, redisVars
  <2> QED BY <2>1, <2>2, <2>3, <2>4, <2>5 DEF ExportInv
<1>12. ASSUME ExportInv, NEW j \in Jobs, ReadEnd(j)
      PROVE  ExportInv'
  <2>1. ExportTypeOK'
    BY <1>12 DEF ExportInv, ExportTypeOK, ReadEnd, UploadUnchanged, redisVars, csvVars
  <2>2. ASSUME NEW k \in Jobs PROVE WriterKnows(k)'
    BY <1>12 DEF ExportInv, ExportTypeOK, WriterKnows, ReadEnd, UploadUnchanged, csvVars
  <2>3. ASSUME NEW k \in Jobs PROVE UploaderKnows(k)'
    BY <1>12 DEF ExportInv, ExportTypeOK, UploaderKnows, WriterKnows, RunKnows, ReadEnd,
       UploadUnchanged, csvVars
  <2>4. ASSUME NEW k \in Jobs PROVE RunKnows(k)'
    BY <1>12 DEF ExportInv, ExportTypeOK, RunKnows, ReadEnd, UploadUnchanged, csvVars
  <2>5. ASSUME NEW k \in Jobs PROVE RecordKnows(k)'
    BY <1>12 DEF ExportInv, ExportTypeOK, RecordKnows, RecordIs, ReadEnd, UploadUnchanged, redisVars
  <2> QED BY <2>1, <2>2, <2>3, <2>4, <2>5 DEF ExportInv
<1>13. ASSUME ExportInv, NEW j \in Jobs, NEW ok \in BOOLEAN, CompleteUpload(j, ok)
      PROVE  ExportInv'
  <2>1. ExportTypeOK'
    BY <1>13 DEF ExportInv, ExportTypeOK, CompleteUpload, UploadUnchanged, redisVars, csvVars
  <2>2. ASSUME NEW k \in Jobs PROVE WriterKnows(k)'
    BY <1>13 DEF ExportInv, ExportTypeOK, WriterKnows, CompleteUpload, UploadUnchanged, csvVars
  <2>3. ASSUME NEW k \in Jobs PROVE UploaderKnows(k)'
    BY <1>13 DEF ExportInv, ExportTypeOK, UploaderKnows, WriterKnows, CompleteUpload,
       UploadUnchanged, csvVars
  <2>4. ASSUME NEW k \in Jobs PROVE RunKnows(k)'
    BY <1>13 DEF ExportInv, ExportTypeOK, RunKnows, CompleteUpload, UploadUnchanged, csvVars
  <2>5. ASSUME NEW k \in Jobs PROVE RecordKnows(k)'
    BY <1>13 DEF ExportInv, ExportTypeOK, RecordKnows, RecordIs, RunKnows, CompleteUpload,
       UploadUnchanged, redisVars
  <2> QED BY <2>1, <2>2, <2>3, <2>4, <2>5 DEF ExportInv
<1>14. ASSUME ExportInv, NEW j \in Jobs, Collect(j)
      PROVE  ExportInv'
  <2>1. ExportTypeOK'
    BY <1>14 DEF ExportInv, ExportTypeOK, Collect, redisVars, csvVars
  <2>2. ASSUME NEW k \in Jobs PROVE WriterKnows(k)'
    BY <1>14 DEF ExportInv, ExportTypeOK, WriterKnows, Collect, csvVars
  <2>3. ASSUME NEW k \in Jobs PROVE UploaderKnows(k)'
    BY <1>14 DEF ExportInv, ExportTypeOK, UploaderKnows, Collect, csvVars
  <2>4. ASSUME NEW k \in Jobs PROVE RunKnows(k)'
    BY <1>14 DEF ExportInv, ExportTypeOK, RunKnows, Collect, csvVars
  <2>5. ASSUME NEW k \in Jobs PROVE RecordKnows(k)'
    BY <1>14 DEF ExportInv, ExportTypeOK, RecordKnows, RecordIs, Collect, redisVars
  <2> QED BY <2>1, <2>2, <2>3, <2>4, <2>5 DEF ExportInv
<1>15. ASSUME ExportInv, NEW j \in Jobs, NEW ok \in BOOLEAN, SaveOutcome(j, ok)
      PROVE  ExportInv'
  <2>1. ExportTypeOK'
    BY <1>15 DEF ExportInv, ExportTypeOK, Statuses, SaveOutcome, saveJob, Outcome, redisVars, csvVars
  <2>2. ASSUME NEW k \in Jobs PROVE WriterKnows(k)'
    BY <1>15 DEF ExportInv, ExportTypeOK, WriterKnows, SaveOutcome, csvVars
  <2>3. ASSUME NEW k \in Jobs PROVE UploaderKnows(k)'
    BY <1>15 DEF ExportInv, ExportTypeOK, UploaderKnows, SaveOutcome, csvVars
  <2>4. ASSUME NEW k \in Jobs PROVE RunKnows(k)'
    BY <1>15 DEF ExportInv, ExportTypeOK, RunKnows, SaveOutcome, csvVars
  <2>5. ASSUME NEW k \in Jobs PROVE RecordKnows(k)'
    BY <1>15 DEF ExportInv, ExportTypeOK, RecordKnows, RecordIs, WriterKnows, UploaderKnows,
       RunKnows, SaveOutcome, saveJob, Outcome, redisVars
  <2> QED BY <2>1, <2>2, <2>3, <2>4, <2>5 DEF ExportInv
<1>16. ASSUME ExportInv, NEW j \in Jobs, Crash(j)
      PROVE  ExportInv'
  <2>1. ExportTypeOK'
    BY <1>16 DEF ExportInv, ExportTypeOK, Crash, redisVars
  <2>2. ASSUME NEW k \in Jobs PROVE WriterKnows(k)'
    BY <1>16 DEF ExportInv, ExportTypeOK, WriterKnows, Crash
  <2>3. ASSUME NEW k \in Jobs PROVE UploaderKnows(k)'
    BY <1>16 DEF ExportInv, ExportTypeOK, UploaderKnows, Crash
  <2>4. ASSUME NEW k \in Jobs PROVE RunKnows(k)'
    BY <1>16 DEF ExportInv, ExportTypeOK, RunKnows, Crash
  <2>5. ASSUME NEW k \in Jobs PROVE RecordKnows(k)'
    BY <1>16 DEF ExportInv, ExportTypeOK, RecordKnows, RecordIs, RunKnows, Crash, redisVars
  <2> QED BY <2>1, <2>2, <2>3, <2>4, <2>5 DEF ExportInv
<1>17. ASSUME ExportInv, NEW j \in Jobs, Poll(j)
      PROVE  ExportInv'
  <2>1. ExportTypeOK'
    BY <1>17 DEF ExportInv, ExportTypeOK, Poll, redisVars, csvVars
  <2>2. ASSUME NEW k \in Jobs PROVE WriterKnows(k)'
    BY <1>17 DEF ExportInv, ExportTypeOK, WriterKnows, Poll, csvVars
  <2>3. ASSUME NEW k \in Jobs PROVE UploaderKnows(k)'
    BY <1>17 DEF ExportInv, ExportTypeOK, UploaderKnows, Poll, csvVars
  <2>4. ASSUME NEW k \in Jobs PROVE RunKnows(k)'
    BY <1>17 DEF ExportInv, ExportTypeOK, RunKnows, Poll, csvVars
  <2>5. ASSUME NEW k \in Jobs PROVE RecordKnows(k)'
    BY <1>17 DEF ExportInv, ExportTypeOK, RecordKnows, RecordIs, Poll, redisVars
  <2> QED BY <2>1, <2>2, <2>3, <2>4, <2>5 DEF ExportInv
<1>18. ASSUME ExportInv, NEW j \in Jobs, Expire(j)
      PROVE  ExportInv'
  <2>1. ExportTypeOK'
    BY <1>18 DEF ExportInv, ExportTypeOK, Statuses, Expire, redisVars, csvVars
  <2>2. ASSUME NEW k \in Jobs PROVE WriterKnows(k)'
    BY <1>18 DEF ExportInv, ExportTypeOK, WriterKnows, Expire, csvVars
  <2>3. ASSUME NEW k \in Jobs PROVE UploaderKnows(k)'
    BY <1>18 DEF ExportInv, ExportTypeOK, UploaderKnows, Expire, csvVars
  <2>4. ASSUME NEW k \in Jobs PROVE RunKnows(k)'
    BY <1>18 DEF ExportInv, ExportTypeOK, RunKnows, Expire, csvVars
  <2>5. ASSUME NEW k \in Jobs PROVE RecordKnows(k)'
    BY <1>18 DEF ExportInv, ExportTypeOK, RecordKnows, RecordIs, Expire
  <2> QED BY <2>1, <2>2, <2>3, <2>4, <2>5 DEF ExportInv
<1>19. ASSUME ExportInv, NEW j \in Jobs, TimeUp(j)
      PROVE  ExportInv'
  <2>1. ExportTypeOK'
    BY <1>19 DEF ExportInv, ExportTypeOK, TimeUp, csvVars
  <2>2. ASSUME NEW k \in Jobs PROVE WriterKnows(k)'
    BY <1>19 DEF ExportInv, ExportTypeOK, WriterKnows, TimeUp, csvVars
  <2>3. ASSUME NEW k \in Jobs PROVE UploaderKnows(k)'
    BY <1>19 DEF ExportInv, ExportTypeOK, UploaderKnows, TimeUp, csvVars
  <2>4. ASSUME NEW k \in Jobs PROVE RunKnows(k)'
    BY <1>19 DEF ExportInv, ExportTypeOK, RunKnows, TimeUp, csvVars
  <2>5. ASSUME NEW k \in Jobs PROVE RecordKnows(k)'
    BY <1>19 DEF ExportInv, ExportTypeOK, RecordKnows, RecordIs, TimeUp
  <2> QED BY <2>1, <2>2, <2>3, <2>4, <2>5 DEF ExportInv
<1>20. ASSUME ExportInv, UNCHANGED exportVars
      PROVE  ExportInv'
  BY <1>20 DEF ExportInv, ExportTypeOK, WriterKnows, UploaderKnows, RunKnows, RecordKnows, RecordIs,
     exportVars, redisVars, csvVars
<1> QED
  BY <1>1, <1>2, <1>3, <1>4, <1>5, <1>6, <1>7, <1>8, <1>9, <1>10, <1>11, <1>12, <1>13, <1>14,
     <1>15, <1>16, <1>17, <1>18, <1>19, <1>20 DEF ExportNext, ApiStep

\* ExportInit establishes ExportInv.
LEMMA ExportStart == ExportInit => ExportInv
  BY ExportAssumption DEF ExportInit, ExportInv, ExportTypeOK, Statuses, WriterKnows, UploaderKnows,
     RunKnows, RecordKnows

\* ExportInv is an invariant.
LEMMA ExportAlways == ExportSpec => []ExportInv
  BY ExportStart, ExportStep, PTL DEF ExportSpec

\* Every variable keeps its type.
THEOREM ExportTypeCorrect == ExportSpec => []ExportTypeOK
<1>1. ExportInv => ExportTypeOK
  BY DEF ExportInv
<1> QED BY <1>1, ExportAlways, PTL

\* A job that the API calls ready has its complete CSV in MinIO and the right
\* row count, however its three goroutines, MinIO, Redis and crashes interleave.
THEOREM ReadyJobsAreComplete == ExportSpec => []ReadyIsComplete
<1>1. ExportInv => ReadyIsComplete
  BY DEF ExportInv, RecordKnows, ReadyIsComplete, Downloadable
<1> QED BY <1>1, ExportAlways, PTL

\* No record is ever in Redis without a time to live, however late runJob saves it.
THEOREM RecordsHaveTTL == ExportSpec => [](\A j \in Jobs : status[j] # "none" => ttl[j] # "never")
<1>1. ExportInv => \A j \in Jobs : status[j] # "none" => ttl[j] # "never"
  BY DEF ExportInv, RecordKnows
<1> QED BY <1>1, ExportAlways, PTL

\* The record of a job moves pending -> running -> ready or error, except that a
\* save after ExpiresAt may bring it back.
THEOREM RecordsMoveForward == ExportSpec => StatusMovesForward
<1> DEFINE Forward(j) ==
      status'[j] \notin {status[j], "none"} =>
          \/ status[j] = "none" /\ (over[j] \/ status'[j] = "pending")
          \/ <<status[j], status'[j]>> \in {<<"pending", "running">>, <<"running", "ready">>,
                                            <<"running", "error">>}
<1>1. ASSUME ExportInv, [ExportNext]_exportVars, NEW j \in Jobs
      PROVE  Forward(j)
  <2>1. \/ status'[j] = status[j]
        \/ Expire(j)
        \/ \E ok \in BOOLEAN : SavePending(j, ok) \/ MarkRunning(j, ok) \/ SaveOutcome(j, ok)
    <3>1. CASE UNCHANGED status
      BY <3>1
    <3>2. ASSUME NEW k \in Jobs, NEW ok \in BOOLEAN,
                 SavePending(k, ok) \/ MarkRunning(k, ok) \/ SaveOutcome(k, ok) \/ Expire(k)
          PROVE  k = j \/ status'[j] = status[j]
      BY <1>1, <3>2 DEF ExportInv, ExportTypeOK, SavePending, MarkRunning, SaveOutcome, Expire,
         saveJob
    <3>3. ASSUME NEW k \in Jobs, ApiStep(k)
          PROVE  UNCHANGED status \/ \E ok \in BOOLEAN : MarkRunning(k, ok) \/ SaveOutcome(k, ok)
      BY <3>3 DEF ApiStep, redisVars, Spawn, WriteRow, LastRow, PipeTransfer, CloseWriter,
         UploadUnchanged,
           StartUpload, ReadError, ReadEnd, CompleteUpload, Collect
    <3>4. ASSUME NEW k \in Jobs, UploadBreaks(k) \/ ReadFails(k) \/ Crash(k) \/ Poll(k) \/ TimeUp(k)
          PROVE  UNCHANGED status
      BY <3>4 DEF redisVars, TimeUp, UploadBreaks, UploadUnchanged, ReadFails, Crash, Poll
    <3>5. UNCHANGED exportVars => UNCHANGED status
      BY DEF exportVars, redisVars
    <3> QED BY <1>1, <3>1, <3>2, <3>3, <3>4, <3>5 DEF ExportNext
  <2>2. CASE Expire(j)
    BY <1>1, <2>2 DEF ExportInv, ExportTypeOK, Expire
  <2>3. ASSUME NEW ok \in BOOLEAN, SavePending(j, ok)
        PROVE  Forward(j)
    BY <1>1, <2>3 DEF ExportInv, ExportTypeOK, RecordKnows, SavePending, saveJob
  <2>4. ASSUME NEW ok \in BOOLEAN, MarkRunning(j, ok)
        PROVE  Forward(j)
    BY <1>1, <2>4 DEF ExportInv, ExportTypeOK, RecordKnows, RecordIs, MarkRunning, saveJob
  <2>5. ASSUME NEW ok \in BOOLEAN, SaveOutcome(j, ok)
        PROVE  Forward(j)
    BY <1>1, <2>5 DEF ExportInv, ExportTypeOK, RecordKnows, RecordIs, SaveOutcome, saveJob, Outcome
  <2> QED BY <2>1, <2>2, <2>3, <2>4, <2>5
<1>2. ExportInv /\ [ExportNext]_exportVars => [\A j \in Jobs : Forward(j)]_exportVars
  BY <1>1
<1> QED BY <1>2, ExportAlways, PTL DEF ExportSpec, StatusMovesForward

\* A client that was told the outcome of a job never reads an earlier status of
\* it, nor the other outcome.
THEOREM ClientsSeeForward == ExportSpec => ClientSeesForward
<1> DEFINE Forward(j) == seen[j] \in {"ready", "error"} => seen'[j] \in {seen[j], "none"}
<1>1. ASSUME ExportInv, [ExportNext]_exportVars, NEW j \in Jobs
      PROVE  Forward(j)
  <2>1. CASE \E k \in Jobs : Poll(k)
    BY <1>1, <2>1 DEF ExportInv, ExportTypeOK, RecordKnows, Poll
  <2>2. CASE ~\E k \in Jobs : Poll(k)
    <3>1. UNCHANGED seen
      BY <1>1, <2>2 DEF ExportNext, ApiStep, exportVars, SavePending, MarkRunning, SaveOutcome, Expire,
         TimeUp, Spawn, WriteRow, LastRow,
           PipeTransfer, ReadFails, CloseWriter, UploadUnchanged, StartUpload, UploadBreaks, ReadError, ReadEnd,
           CompleteUpload, Collect, Crash
    <3> QED BY <3>1
  <2> QED BY <2>1, <2>2
<1>2. ExportInv /\ [ExportNext]_exportVars => [\A j \in Jobs : Forward(j)]_exportVars
  BY <1>1
<1> QED BY <1>2, ExportAlways, PTL DEF ExportSpec, ClientSeesForward

-------------------------------------------------------------------------------
(* The certificate of a tenant *)

\* The present content of the secret is among what a request in progress saw.
SeesPresent(r) == pc[r] # "idle" => secret \in held[r]

\* Only rotate gets to Issue without a look at the secret, and Create comes
\* after a NotFound.
PlaceKnows(r) ==
    /\ pc[r] = "get" => op[r] # "rotate"
    /\ pc[r] \in {"generate", "update", "create"} => op[r] = "rotate" \/ NoCert \in held[r]
    /\ pc[r] = "create" => NoCert \in held[r]
    /\ pc[r] \in {"update", "create"} => tc[r] # NoCert

AnswerKnows(r) ==
    /\ answer[r] \in {"bundle", "info"} => tc[r] \in held[r]
    /\ answer[r] = "notFound" => NoCert \in held[r]
    /\ answer[r] = "conflict" => NoCert \in held[r] /\ held[r] # {NoCert}
    /\ pc[r] # "idle" => answer[r] = "none"

CertInv ==
    CertTypeOK /\ \A r \in Requests : SeesPresent(r) /\ PlaceKnows(r) /\ AnswerKnows(r)

-------------------------------------------------------------------------------

\* Every step preserves CertInv.
LEMMA CertStep == CertInv /\ [CertNext]_certVars => CertInv'
<1> USE CertAssumption DEF CertInv, CertTypeOK, Ops, NoCert
<1>1. ASSUME CertInv, NEW r \in Requests, NEW o \in Handlers, Start(r, o)
      PROVE  CertInv'
  <2>1. CertTypeOK'
    BY <1>1 DEF PlaceKnows, AnswerKnows, Start
  <2>2. ASSUME NEW q \in Requests PROVE SeesPresent(q)'
    BY <1>1 DEF SeesPresent, Start
  <2>3. ASSUME NEW q \in Requests PROVE PlaceKnows(q)'
    BY <1>1 DEF PlaceKnows, SeesPresent, Start
  <2>4. ASSUME NEW q \in Requests PROVE AnswerKnows(q)'
    BY <1>1 DEF AnswerKnows, PlaceKnows, SeesPresent, Start
  <2> QED BY <2>1, <2>2, <2>3, <2>4
<1>2. ASSUME CertInv, NEW r \in Requests, NEW ok \in BOOLEAN, Get(r, ok)
      PROVE  CertInv'
  <2>1. CertTypeOK'
    BY <1>2 DEF PlaceKnows, AnswerKnows, Get, Answer
  <2>2. ASSUME NEW q \in Requests PROVE SeesPresent(q)'
    BY <1>2 DEF SeesPresent, Get, Answer
  <2>3. ASSUME NEW q \in Requests PROVE PlaceKnows(q)'
    BY <1>2 DEF PlaceKnows, SeesPresent, Get, Answer
  <2>4. ASSUME NEW q \in Requests PROVE AnswerKnows(q)'
    BY <1>2 DEF AnswerKnows, PlaceKnows, SeesPresent, Get, Answer
  <2> QED BY <2>1, <2>2, <2>3, <2>4
<1>3. ASSUME CertInv, NEW r \in Requests, NEW ok \in BOOLEAN, Update(r, ok)
      PROVE  CertInv'
  <2>1. CertTypeOK'
    BY <1>3 DEF PlaceKnows, AnswerKnows, Update, Answer, Store
  <2>2. ASSUME NEW q \in Requests PROVE SeesPresent(q)'
    BY <1>3 DEF SeesPresent, Update, Answer, Store
  <2>3. ASSUME NEW q \in Requests PROVE PlaceKnows(q)'
    BY <1>3 DEF PlaceKnows, SeesPresent, Update, Answer, Store
  <2>4. ASSUME NEW q \in Requests PROVE AnswerKnows(q)'
    BY <1>3 DEF AnswerKnows, PlaceKnows, SeesPresent, Update, Answer, Store
  <2> QED BY <2>1, <2>2, <2>3, <2>4
<1>4. ASSUME CertInv, NEW r \in Requests, NEW ok \in BOOLEAN, Create(r, ok)
      PROVE  CertInv'
  <2>1. CertTypeOK'
    BY <1>4 DEF PlaceKnows, AnswerKnows, Create, Answer, Store
  <2>2. ASSUME NEW q \in Requests PROVE SeesPresent(q)'
    BY <1>4 DEF SeesPresent, Create, Answer, Store
  <2>3. ASSUME NEW q \in Requests PROVE PlaceKnows(q)'
    BY <1>4 DEF PlaceKnows, SeesPresent, Create, Answer, Store
  <2>4. ASSUME NEW q \in Requests PROVE AnswerKnows(q)'
    BY <1>4 DEF AnswerKnows, PlaceKnows, SeesPresent, Create, Answer, Store
  <2> QED BY <2>1, <2>2, <2>3, <2>4
<1>5. ASSUME CertInv, NEW r \in Requests, Generate(r)
      PROVE  CertInv'
  <2>1. CertTypeOK'
    BY <1>5 DEF PlaceKnows, AnswerKnows, Generate
  <2>2. ASSUME NEW q \in Requests PROVE SeesPresent(q)'
    BY <1>5 DEF SeesPresent, Generate
  <2>3. ASSUME NEW q \in Requests PROVE PlaceKnows(q)'
    BY <1>5 DEF PlaceKnows, SeesPresent, Generate
  <2>4. ASSUME NEW q \in Requests PROVE AnswerKnows(q)'
    BY <1>5 DEF AnswerKnows, PlaceKnows, SeesPresent, Generate
  <2> QED BY <2>1, <2>2, <2>3, <2>4
<1>6. ASSUME CertInv, NEW r \in Requests, GenerateFails(r)
      PROVE  CertInv'
  <2>1. CertTypeOK'
    BY <1>6 DEF PlaceKnows, AnswerKnows, GenerateFails, Answer
  <2>2. ASSUME NEW q \in Requests PROVE SeesPresent(q)'
    BY <1>6 DEF SeesPresent, GenerateFails, Answer
  <2>3. ASSUME NEW q \in Requests PROVE PlaceKnows(q)'
    BY <1>6 DEF PlaceKnows, SeesPresent, GenerateFails, Answer
  <2>4. ASSUME NEW q \in Requests PROVE AnswerKnows(q)'
    BY <1>6 DEF AnswerKnows, PlaceKnows, SeesPresent, GenerateFails, Answer
  <2> QED BY <2>1, <2>2, <2>3, <2>4
<1>7. ASSUME CertInv, NEW r \in Requests, RequestDies(r)
      PROVE  CertInv'
  <2>1. CertTypeOK'
    BY <1>7 DEF PlaceKnows, AnswerKnows, RequestDies
  <2>2. ASSUME NEW q \in Requests PROVE SeesPresent(q)'
    BY <1>7 DEF SeesPresent, RequestDies
  <2>3. ASSUME NEW q \in Requests PROVE PlaceKnows(q)'
    BY <1>7 DEF PlaceKnows, SeesPresent, RequestDies
  <2>4. ASSUME NEW q \in Requests PROVE AnswerKnows(q)'
    BY <1>7 DEF AnswerKnows, PlaceKnows, SeesPresent, RequestDies
  <2> QED BY <2>1, <2>2, <2>3, <2>4
<1>8. ASSUME CertInv, UNCHANGED certVars
      PROVE  CertInv'
  BY <1>8 DEF SeesPresent, PlaceKnows, AnswerKnows, certVars, requestVars
<1> QED
  BY <1>1, <1>2, <1>3, <1>4, <1>5, <1>6, <1>7, <1>8 DEF CertNext

\* CertInv is an invariant.
LEMMA CertAlways == CertSpec => []CertInv
<1>1. CertInit => CertInv
  BY CertAssumption DEF CertInit, CertInv, CertTypeOK, Ops, NoCert, SeesPresent, PlaceKnows, AnswerKnows
<1> QED BY <1>1, CertStep, PTL DEF CertSpec

\* Requests, however many interleave, fail or crash, keep their types: the secret
\* is never empty again once it holds a certificate (tenant.go:47-175).
THEOREM CertTypeCorrect == CertSpec => []CertTypeOK
<1>1. CertInv => CertTypeOK BY DEF CertInv
<1> QED BY <1>1, CertAlways, PTL

\* What a client is given was in the secret while its request was in progress, and
\* a conflict is only met by a request that began before the first certificate.
THEOREM AnswersAreTrue == CertSpec => []AnswersWereTrue
<1>1. CertInv => AnswersWereTrue
  BY DEF CertInv, AnswerKnows, AnswersWereTrue
<1> QED BY <1>1, CertAlways, PTL

\* A certificate is only replaced by a rotation or by a request that began when
\* there was none.
THEOREM CertsAreReplacedKnowingly == CertSpec => ReplacedKnowingly
<1> DEFINE Knowingly ==
      secret \notin {NoCert, secret'} =>
          \E r \in Requests : tc[r] = secret' /\ (op[r] = "rotate" \/ NoCert \in held[r])
<1>1. ASSUME CertInv, NEW r \in Requests, NEW ok \in BOOLEAN, Update(r, ok) \/ Create(r, ok)
      PROVE  Knowingly
  <2>1. secret' # secret => secret' = tc[r]
    BY <1>1 DEF Update, Create, Store
  <2> QED BY <1>1, <2>1 DEF CertInv, PlaceKnows, Update, Create
<1>2. ASSUME [CertNext]_certVars, ~\E r \in Requests, ok \in BOOLEAN : Update(r, ok) \/ Create(r, ok)
      PROVE  secret' = secret
  BY <1>2 DEF CertNext, certVars, Start, Get, Generate, GenerateFails, RequestDies
<1>3. CertInv /\ [CertNext]_certVars => [Knowingly]_certVars
  BY <1>1, <1>2
<1> QED BY <1>3, CertAlways, PTL DEF CertSpec, ReplacedKnowingly

-------------------------------------------------------------------------------
(* The stream of positions *)

\* What the polling client watches.
Wanted(x) == x.fix /\ x.tracker \in Watched

\* A poll in progress starts where the client has brought, and reads rows of then.
PollInProgress ==
    at # "idle" /\ ask.poll =>
        /\ ask.from = broughtTo /\ ask.trackers = Watched /\ ask.to <= clock
        /\ \A x \in sent \cup rest : Wanted(x) /\ broughtTo <= x.time /\ x.time <= ask.to

\* The result of a poll has no gap, and what is sent of it is its start.
ResultIsWhole ==
    at = "rows" /\ ask.poll =>
        /\ \A x \in sent, y \in rest : x.time <= y.time
        /\ \A x \in measures, y \in sent \cup rest :
              Wanted(x) /\ broughtTo <= x.time /\ x.time < y.time => x \in sent \cup rest

SentIsWhole ==
    at # "idle" /\ ask.poll =>
        \A x \in measures, y \in sent :
            Wanted(x) /\ broughtTo <= x.time /\ x.time < y.time => x \in sent

\* Nothing is sent before there is a result.
NothingSentYet == at \in {"columns", "query"} => sent = {} /\ rest = {}

PollingInv ==
    /\ StreamTypeOK /\ (\A x \in measures : x.time <= clock)
    /\ PollInProgress /\ ResultIsWhole /\ SentIsWhole /\ NothingSentYet
    /\ PollingMissesNothing

\* Before the end there is no error in the response, and its status is sent with
\* the first row.
NotEnded ==
    /\ NothingSentYet
    /\ at \in {"columns", "query", "rows"} =>
          ~broken /\ tail = "nothing" /\ lost = {} /\ httpStatus = (IF sent = {} THEN 0 ELSE 200)

\* The variables of the stream keep their types.
LEMMA StreamTypeStep ==
    ASSUME StreamTypeOK, \A x \in measures : x.time <= clock, PollInProgress,
           [StreamNext]_streamVars
    PROVE  StreamTypeOK' /\ (\A x \in measures' : x.time <= clock')
<1> USE StreamAssumption
<1> USE DEF responseVars, clientVars, StreamTypeOK
<1>1. CASE TimePasses BY <1>1 DEF TimePasses, Rows
<1>2. ASSUME NEW d \in Trackers, NEW fix \in BOOLEAN, Measure(d, fix)
      PROVE  StreamTypeOK' /\ (\A x \in measures' : x.time <= clock')
  BY <1>2 DEF Measure, Rows
<1>3. ASSUME NEW from \in 0..MaxClock, NEW to \in 0..MaxClock, NEW d \in Trackers,
             AskPeriod(from, to, {d})
      PROVE  StreamTypeOK' /\ (\A x \in measures' : x.time <= clock')
  <2>1. ask' = [from |-> from, to |-> to, trackers |-> {d}, poll |-> FALSE]
    BY <1>3 DEF AskPeriod, Ask
  <2>2. ask' \in [from : 0..MaxClock, to : 0..MaxClock, trackers : SUBSET Trackers, poll : BOOLEAN]
    BY <2>1
  <2> QED BY <1>3, <2>2 DEF AskPeriod, Ask
<1>4. CASE PollPositions
  <2>1. [from |-> broughtTo, to |-> clock, trackers |-> Watched, poll |-> TRUE]
            \in [from : 0..MaxClock, to : 0..MaxClock, trackers : SUBSET Trackers, poll : BOOLEAN]
    OBVIOUS
  <2>2. ask' = [from |-> broughtTo, to |-> clock, trackers |-> Watched, poll |-> TRUE]
    BY <1>4 DEF PollPositions, Ask
  <2>3. ask' \in [from : 0..MaxClock, to : 0..MaxClock, trackers : SUBSET Trackers, poll : BOOLEAN]
    BY <2>1, <2>2
  <2> QED BY <1>4, <2>3 DEF PollPositions, Ask
<1>5. CASE LookColumns BY <1>5 DEF LookColumns, Fails, Ends
<1>6. CASE RunQuery BY <1>6 DEF RunQuery, Fails, Ends
<1>7. ASSUME NEW x \in rest, SendRow(x)
      PROVE  StreamTypeOK' /\ (\A y \in measures' : y.time <= clock')
  BY <1>7 DEF SendRow
<1>8. CASE EndOfRows BY <1>8 DEF EndOfRows, Ends
<1>9. CASE CursorFails BY <1>9 DEF CursorFails, Ends
<1>10. CASE Break BY <1>10 DEF Break, Ends, Prefix
<1>11. CASE TakePoll
  <2>1. brought' \subseteq Rows /\ broughtTo' \in 0..clock
    BY <1>11 DEF TakePoll, Learns, PollInProgress, Rows
  <2> QED BY <1>11, <2>1 DEF TakePoll
<1>12. CASE Leave BY <1>12 DEF Leave
<1>13. CASE UNCHANGED streamVars BY <1>13 DEF streamVars
<1> QED BY <1>1, <1>2, <1>3, <1>4, <1>5, <1>6, <1>7, <1>8, <1>9, <1>10, <1>11, <1>12, <1>13 DEF StreamNext

\* What a step does to a poll in progress.
LEMMA PollStep ==
    ASSUME PollingInv, [StreamNext]_streamVars
    PROVE  PollInProgress' /\ ResultIsWhole' /\ SentIsWhole' /\ NothingSentYet' /\ PollingMissesNothing'
<1> USE DEF responseVars, clientVars, PollInProgress, ResultIsWhole, SentIsWhole, NothingSentYet,
            PollingMissesNothing, Wanted, PollingInv
<1>0. /\ broughtTo \in Int /\ broughtTo <= clock /\ clock \in Int /\ ask.to \in Int /\ ask.from \in Int
      /\ \A x \in measures \cup rest \cup sent : x.time \in Int
  BY DEF StreamTypeOK, Rows
<1> DEFINE Kept == PollInProgress' /\ ResultIsWhole' /\ SentIsWhole' /\ NothingSentYet'
                   /\ PollingMissesNothing'
<1>1. CASE TimePasses BY <1>0, <1>1 DEF TimePasses
<1>2. ASSUME NEW d \in Trackers, NEW fix \in BOOLEAN, Measure(d, fix) PROVE Kept
  <2>1. /\ \A x \in measures' : x \in measures \/ x.time = clock
        /\ UNCHANGED <<clock, ask, at, responseVars, clientVars>>
    BY <1>2 DEF Measure
  <2>2. PollInProgress' /\ NothingSentYet'
    BY <2>1
  <2>3. ResultIsWhole' /\ SentIsWhole'
    BY <1>0, <2>1
  <2>4. PollingMissesNothing'
    BY <1>0, <2>1
  <2> QED BY <2>2, <2>3, <2>4
<1>3. ASSUME NEW from \in 0..MaxClock, NEW to \in 0..MaxClock, NEW d \in Trackers,
             AskPeriod(from, to, {d})
      PROVE  Kept
  BY <1>3 DEF AskPeriod, Ask
<1>4. CASE PollPositions BY <1>0, <1>4 DEF PollPositions, Ask
<1>5. CASE LookColumns BY <1>5 DEF LookColumns, Fails, Ends
<1>6. CASE RunQuery
  <2>1. CASE Fails BY <1>6, <2>1 DEF RunQuery, Fails, Ends
  <2>2. CASE at' = "rows" BY <1>0, <1>6, <2>2 DEF RunQuery, Selected, Fails, Ends
  <2> QED BY <1>6, <2>1, <2>2 DEF RunQuery
<1>7. ASSUME NEW x \in rest, SendRow(x) PROVE Kept
  BY <1>0, <1>7 DEF SendRow
<1>8. CASE EndOfRows BY <1>8 DEF EndOfRows, Ends
<1>9. CASE CursorFails BY <1>9 DEF CursorFails, Ends
<1>10. CASE Break BY <1>0, <1>10 DEF Break, Ends, Prefix
<1>11. CASE TakePoll BY <1>0, <1>11 DEF TakePoll, Learns
<1>12. CASE Leave BY <1>12 DEF Leave
<1>13. CASE UNCHANGED streamVars BY <1>13 DEF streamVars
<1> QED BY <1>1, <1>2, <1>3, <1>4, <1>5, <1>6, <1>7, <1>8, <1>9, <1>10, <1>11, <1>12, <1>13 DEF StreamNext

\* What a step does to the status, the tail and the losses of a response.
LEMMA AnswerStep ==
    ASSUME NotEnded, EmptyMeansNone, [StreamNext]_streamVars
    PROVE  NotEnded' /\ EmptyMeansNone'
<1> USE DEF responseVars, clientVars, NotEnded, NothingSentYet, EmptyMeansNone
<1> DEFINE Kept == NotEnded' /\ EmptyMeansNone'
<1>1. CASE TimePasses BY <1>1 DEF TimePasses
<1>2. ASSUME NEW d \in Trackers, NEW fix \in BOOLEAN, Measure(d, fix) PROVE Kept
  BY <1>2 DEF Measure
<1>3. ASSUME NEW asked, Ask(asked) PROVE Kept
  BY <1>3 DEF Ask
<1>4. CASE LookColumns BY <1>4 DEF LookColumns, Fails, Ends
<1>5. CASE RunQuery BY <1>5 DEF RunQuery, Fails, Ends
<1>6. ASSUME NEW x \in rest, SendRow(x) PROVE Kept
  BY <1>6 DEF SendRow
<1>7. CASE EndOfRows BY <1>7 DEF EndOfRows, Ends
<1>8. CASE CursorFails BY <1>8 DEF CursorFails, Ends
<1>9. CASE Break BY <1>9 DEF Break, Ends, Prefix
<1>10. CASE TakePoll BY <1>10 DEF TakePoll
<1>11. CASE Leave BY <1>11 DEF Leave
<1>12. CASE UNCHANGED streamVars BY <1>12 DEF streamVars
<1> QED BY <1>1, <1>2, <1>3, <1>4, <1>5, <1>6, <1>7, <1>8, <1>9, <1>10, <1>11, <1>12
        DEF StreamNext, AskPeriod, PollPositions

\* All that is known of polls.
LEMMA PollingInvariant == StreamSpec => []PollingInv
<1>1. StreamInit => PollingInv
  <2> SUFFICES ASSUME StreamInit PROVE PollingInv
    OBVIOUS
  <2>1. StreamTypeOK
    <3>1. ask \in [from : 0..MaxClock, to : 0..MaxClock, trackers : SUBSET Trackers, poll : BOOLEAN]
      BY StreamAssumption DEF StreamInit
    <3>2. clock \in 0..MaxClock /\ broughtTo \in 0..clock
      BY StreamAssumption DEF StreamInit
    <3>3. measures \subseteq Rows /\ rest \subseteq Rows /\ sent \subseteq Rows
          /\ lost \subseteq Rows /\ brought \subseteq Rows
      BY DEF StreamInit
    <3> QED BY <3>1, <3>2, <3>3 DEF StreamInit, StreamTypeOK
  <2> QED BY <2>1 DEF StreamInit, PollingInv, PollInProgress, ResultIsWhole, SentIsWhole,
                      NothingSentYet, PollingMissesNothing
<1>2. PollingInv /\ [StreamNext]_streamVars => PollingInv'
  <2> SUFFICES ASSUME PollingInv, [StreamNext]_streamVars PROVE PollingInv'
    OBVIOUS
  <2>1. StreamTypeOK' /\ (\A x \in measures' : x.time <= clock')
    BY StreamTypeStep DEF PollingInv
  <2> QED BY <2>1, PollStep DEF PollingInv
<1> QED BY <1>1, <1>2, PTL DEF StreamSpec

\* The variables of the stream keep their types; in particular, a client never
\* asks for what is still to come.
THEOREM StreamTypes == StreamSpec => []StreamTypeOK
<1>1. PollingInv => StreamTypeOK
  BY DEF PollingInv
<1> QED BY <1>1, PollingInvariant, PTL

\* Polling from the latest time_index seen misses no position of any number of
\* trackers, whatever breaks: BETWEEN includes its start, and ORDER BY makes what
\* is in a response that ended early the start of its result.
THEOREM NothingIsMissed == StreamSpec => []PollingMissesNothing
<1>1. PollingInv => PollingMissesNothing
  BY DEF PollingInv
<1> QED BY <1>1, PollingInvariant, PTL

\* A response that ends in order is an error, or has rows, or there are none:
\* StreamPositions returns "committed" with its error, and HandleGet makes it 500
\* exactly when nothing was sent.
THEOREM EmptyIsEmpty == StreamSpec => []EmptyMeansNone
<1>1. StreamInit => NotEnded /\ EmptyMeansNone
  BY DEF StreamInit, NotEnded, NothingSentYet, EmptyMeansNone
<1>2. NotEnded /\ EmptyMeansNone /\ [StreamNext]_streamVars => NotEnded' /\ EmptyMeansNone'
  BY AnswerStep
<1> QED BY <1>1, <1>2, PTL DEF StreamSpec
-------------------------------------------------------------------------------
(* Together *)

\* What MCApi runs is each of the three operations, and what they show of one of
\* them they show of its own specification.
LEMMA ApiRunsEach == ApiSpec => ExportSpec /\ CertSpec /\ StreamSpec
<1>1. ApiInit => ExportInit /\ CertInit /\ StreamInit
  BY DEF ApiInit
<1>2. [ApiNext]_apiVars => [ExportNext]_exportVars /\ [CertNext]_certVars /\ [StreamNext]_streamVars
  BY DEF ApiNext, apiVars
<1> QED BY <1>1, <1>2, PTL DEF ApiSpec, ExportSpec, CertSpec, StreamSpec

\* The variables of every operation keep their types, for any jobs, requests,
\* trackers and bounds (job.go:75-125, tenant.go:47-175, position.go:43).
THEOREM ApiTypes == ApiSpec => []ApiTypeOK
<1>1. ExportTypeOK /\ CertTypeOK /\ StreamTypeOK => ApiTypeOK
  BY DEF ApiTypeOK
<1> QED BY <1>1, ApiRunsEach, ExportTypeCorrect, CertTypeCorrect, StreamTypes, PTL
===============================================================================
