---------------------------- MODULE Archiver_proofs ----------------------------
(***************************************************************************)
(* Proofs about Archiver, for any tenants, IMEIs and periods, and a clock  *)
(* that runs for as long as one likes.                                     *)
(*                                                                         *)
(* TimesInv orders the cutoffs, the watermarks and the clock.  HonestInv   *)
(* says which rows the loop of main may take for kept: they are in a file, *)
(* or the history knows who replaced it.  FilesInv and OnceInv are about   *)
(* the time before the first failure: a run then only writes files that    *)
(* are not there yet, and what is in them is below the watermarks.         *)
(***************************************************************************)
EXTENDS Archiver, TLAPS

Running == pc \in {"schema", "upload", "delete", "save"}

\* A run looks and deletes no further than it should, nor do the next ones.
TimesInv ==
    /\ TypeOK
    /\ DeleteAfter < now
    /\ archiveCut + ArchiveAfter <= now
    /\ deleteCut + DeleteAfter <= now
    /\ deleteCut <= archiveCut
    /\ \A s \in Schemas : watermark[s] + ArchiveAfter <= now
    /\ Running => \A s \in Schemas : marks[s] <= archiveCut
    /\ pc = "upload" => \A i \in Imeis : batch[i] # {} => SchemaOf[i] = schema
    /\ pc = "delete" => batch = NoRows
    /\ pc \in {"upload", "delete"} => schema \notin left /\ batchTs <= now

\* Until something fails, there is no file with a name that main can still give
\* to one.
FilesInv ==
    clean =>
        /\ pc # "dead"
        /\ replaced = {}
        /\ \A i \in Imeis, m \in Times : m > now => files[<<i, m>>] = {}
        /\ Running => \A i \in Imeis, m \in Times :
                         SchemaOf[i] \in left /\ archiveCut + ArchiveAfter <= m => files[<<i, m>>] = {}
        /\ pc = "upload" => \A i \in Imeis : batch[i] # {} => files[<<i, batchTs>>] = {}

\* It is in a file, or it was and that file has been replaced.
Kept(r) == Archived(r) \/ r \in replaced

\* What was stored for the time before the marks was archived.
Honest(mk) ==
    \A i \in Imeis, t \in Times :
        <<i, t>> \in stored /\ t < mk[SchemaOf[i]] => Kept(<<i, t>>)

\* The rows of the schema in progress were archived or are still to be uploaded.
SchemaCovered ==
    \A i \in Imeis, t \in Times :
        <<i, t>> \in stored /\ SchemaOf[i] = schema /\ t < archiveCut =>
            Kept(<<i, t>>) \/ t \in batch[i]

\* No row is nowhere.
Covered == \A i \in Imeis, t \in Times : <<i, t>> \in stored => <<i, t>> \in crate \/ Kept(<<i, t>>)

HonestInv ==
    /\ Covered
    /\ Honest(watermark)
    /\ Running => Honest(marks)
    /\ pc \in {"upload", "delete"} /\ schemaOk => SchemaCovered

\* Until something fails, what is in a file is below the mark of its schema, and
\* what is to be uploaded is not.
OnceInv ==
    clean =>
        /\ pc \in {"upload", "delete"} => schemaOk
        /\ pc = "idle" =>
              \A i \in Imeis, m \in Times : \A t \in files[<<i, m>>] : t < watermark[SchemaOf[i]]
        /\ Running =>
              \A i \in Imeis, m \in Times : \A t \in files[<<i, m>>] :
                 \/ t < marks[SchemaOf[i]]
                 \/ pc \in {"upload", "delete"} /\ SchemaOf[i] = schema /\ m = batchTs /\ t < archiveCut
        /\ pc = "upload" => \A i \in Imeis : \A t \in batch[i] : marks[schema] <= t /\ t < archiveCut
        /\ \A i \in Imeis, m, n \in Times : m # n => files[<<i, m>>] \cap files[<<i, n>>] = {}

-------------------------------------------------------------------------------

\* Every step preserves TimesInv.
LEMMA TimesStep == TimesInv /\ [Next]_vars => TimesInv'
<1> USE ArchiverAssumption
<1>1. ASSUME TimesInv, Tick
      PROVE  TimesInv'
  BY <1>1 DEF TimesInv, TypeOK, Times, Running, runVars, Tick
<1>2. ASSUME TimesInv, NEW i \in Imeis, NEW t \in Times, Insert(i, t)
      PROVE  TimesInv'
  BY <1>2 DEF TimesInv, TypeOK, Running, runVars, Insert
<1>3. ASSUME TimesInv, StartRun
      PROVE  TimesInv'
  <2>1. left' \subseteq Schemas
    BY <1>3 DEF TimesInv, TypeOK, Row, StartRun
  <2>2. /\ archiveCut' = now - ArchiveAfter /\ deleteCut' = now - DeleteAfter
        /\ pc' \in {"idle", "schema"}
        /\ UNCHANGED <<now, stored, crate, files, replaced, watermark, schema, batch, batchTs, schemaOk>>
    BY <1>3 DEF StartRun, Cutoff, storeVars
  <2>3. /\ clean' \in BOOLEAN
        /\ marks' = watermark \/ marks' = [s \in Schemas |-> 0]
    BY <1>3 DEF StartRun, TimesInv, TypeOK
  <2>4. TypeOK'
    BY <1>3, <2>1, <2>2, <2>3 DEF TimesInv, TypeOK, Row, Times
  <2> QED
    BY <1>3, <2>2, <2>3, <2>4 DEF TimesInv, TypeOK, Times, Running
<1>4. ASSUME TimesInv, NEW s \in Schemas, FetchSchema(s)
      PROVE  TimesInv'
  <2>1. Fetched(s) \in [Imeis -> SUBSET Times]
    BY DEF Fetched
  <2>2. \A i \in Imeis : Fetched(s)[i] # {} => SchemaOf[i] = s
    BY DEF Fetched
  <2>3. pc' = "upload" \/ (pc' = "delete" /\ Fetched(s) = NoRows)
    BY <1>4 DEF FetchSchema
  <2> QED
    BY <1>4, <2>1, <2>2, <2>3 DEF TimesInv, TypeOK, Times, Running, storeVars, FetchSchema
<1>5. ASSUME TimesInv, NEW i \in Imeis, NEW ok \in BOOLEAN, UploadGroup(i, ok)
      PROVE  TimesInv'
  <2>1. replaced' \subseteq Row
    BY <1>5 DEF TimesInv, TypeOK, Row, UploadGroup, WriteFile
  <2> QED BY <1>5, <2>1 DEF TimesInv, TypeOK, Running, UploadGroup, WriteFile
<1>6. ASSUME TimesInv, DeleteOld
      PROVE  TimesInv'
  BY <1>6 DEF TimesInv, TypeOK, Running, DeleteOld, AfterSchema
<1>7. ASSUME TimesInv, SkipDelete
      PROVE  TimesInv'
  BY <1>7 DEF TimesInv, TypeOK, Running, storeVars, SkipDelete, AfterSchema
<1>8. ASSUME TimesInv, SaveWatermarks
      PROVE  TimesInv'
  BY <1>8 DEF TimesInv, TypeOK, Times, Running, SaveWatermarks
<1>9. ASSUME TimesInv, Die
      PROVE  TimesInv'
  BY <1>9 DEF TimesInv, TypeOK, Row, Times, Running, NoRows, storeVars, runVars, Die
<1>10. ASSUME TimesInv, UNCHANGED vars
      PROVE  TimesInv'
  BY <1>10 DEF TimesInv, TypeOK, Running, storeVars, runVars, vars
<1> QED
  BY <1>1, <1>2, <1>3, <1>4, <1>5, <1>6, <1>7, <1>8, <1>9, <1>10 DEF Next

-------------------------------------------------------------------------------

\* Every step preserves FilesInv.
LEMMA FilesStep == TimesInv /\ FilesInv /\ [Next]_vars => FilesInv'
<1> USE ArchiverAssumption
<1>1. ASSUME TimesInv, FilesInv, Tick
      PROVE  FilesInv'
  BY <1>1 DEF FilesInv, TimesInv, TypeOK, Row, Times, Running, runVars, Tick
<1>2. ASSUME TimesInv, FilesInv, NEW i \in Imeis, NEW t \in Times, Insert(i, t)
      PROVE  FilesInv'
  BY <1>2 DEF FilesInv, TimesInv, Running, runVars, Insert
<1>3. ASSUME TimesInv, FilesInv, StartRun
      PROVE  FilesInv'
  <2> SUFFICES ASSUME clean'
               PROVE  FilesInv'
    BY DEF FilesInv
  <2>1. /\ pc = "idle" /\ \A i \in Imeis : files[<<i, now>>] = {}
        /\ clean /\ pc' \in {"idle", "schema"}
        /\ archiveCut' = now - ArchiveAfter
        /\ UNCHANGED <<now, files, replaced>>
    BY <1>3 DEF FilesInv, storeVars, StartRun, Cutoff
  <2>2. now \in Int /\ ArchiveAfter \in Int
    BY <1>3 DEF TimesInv, TypeOK, Times
  <2>3. replaced = {} /\ \A i \in Imeis, m \in Times : m > now => files[<<i, m>>] = {}
    BY <1>3, <2>1 DEF FilesInv
  <2>4. \A i \in Imeis, m \in Times : archiveCut' + ArchiveAfter <= m => files[<<i, m>>] = {}
    <3> SUFFICES ASSUME NEW i \in Imeis, NEW m \in Times, archiveCut' + ArchiveAfter <= m
                 PROVE  files[<<i, m>>] = {}
      OBVIOUS
    <3>1. m \in Int /\ now <= m
      BY <2>1, <2>2 DEF Times
    <3> QED BY <2>1, <2>2, <2>3, <3>1
  <2> QED BY <2>1, <2>3, <2>4 DEF FilesInv, Running
<1>4. ASSUME TimesInv, FilesInv, NEW s \in Schemas, FetchSchema(s)
      PROVE  FilesInv'
  <2>1. /\ pc = "schema" /\ s \in left /\ left' = left \ {s}
        /\ batchTs' = now /\ batch' = Fetched(s)
        /\ pc' \in {"upload", "delete"}
        /\ UNCHANGED <<now, files, replaced, archiveCut, clean>>
    BY <1>4 DEF FetchSchema, storeVars
  <2> SUFFICES ASSUME clean
               PROVE  FilesInv'
    BY <2>1 DEF FilesInv
  <2>2. \A i \in Imeis : Fetched(s)[i] # {} => SchemaOf[i] = s
    BY DEF Fetched
  <2>3. \A i \in Imeis, m \in Times :
           SchemaOf[i] \in left /\ archiveCut + ArchiveAfter <= m => files[<<i, m>>] = {}
    BY <1>4, <2>1 DEF FilesInv, Running
  <2>4. now \in Times /\ archiveCut + ArchiveAfter <= now
    BY <1>4 DEF TimesInv, TypeOK
  <2>5. (\A i \in Imeis, m \in Times : m > now => files[<<i, m>>] = {})'
    BY <1>4, <2>1 DEF FilesInv
  <2>6. (\A i \in Imeis, m \in Times :
            SchemaOf[i] \in left /\ archiveCut + ArchiveAfter <= m => files[<<i, m>>] = {})'
    BY <2>1, <2>3
  <2>7. (\A i \in Imeis : batch[i] # {} => files[<<i, batchTs>>] = {})'
    BY <2>1, <2>2, <2>3, <2>4
  <2>8. replaced' = {}
    BY <1>4, <2>1 DEF FilesInv
  <2> QED BY <2>1, <2>5, <2>6, <2>7, <2>8 DEF FilesInv
<1>5. ASSUME TimesInv, FilesInv, NEW i \in Imeis, NEW ok \in BOOLEAN, UploadGroup(i, ok)
      PROVE  FilesInv'
  <2> USE DEF TimesInv, TypeOK, Row, Times
  <2>1. /\ pc = "upload" /\ batch[i] # {} /\ pc' \in {"upload", "delete"}
        /\ UNCHANGED <<now, stored, crate, watermark, archiveCut, deleteCut, marks, left, schema, batchTs>>
    BY <1>5 DEF UploadGroup
  <2>2. \A j \in Imeis : batch'[j] = IF j = i THEN {} ELSE batch[j]
    BY <1>5 DEF UploadGroup
  <2>3. \A j \in Imeis, m \in Times :
           files'[<<j, m>>] = files[<<j, m>>] \/ (j = i /\ m = batchTs /\ files'[<<j, m>>] = batch[i])
    BY <1>5 DEF UploadGroup, WriteFile
  <2> SUFFICES ASSUME clean'
               PROVE  FilesInv'
    BY DEF FilesInv
  <2>10. clean
    BY <1>5 DEF UploadGroup
  <2>4. SchemaOf[i] = schema /\ schema \notin left /\ batchTs <= now
    BY <1>5, <2>1 DEF TimesInv
  <2>5. (\A j \in Imeis, m \in Times : m > now => files[<<j, m>>] = {})'
    <3> SUFFICES ASSUME NEW j \in Imeis, NEW m \in Times, m > now
                 PROVE  files'[<<j, m>>] = {}
      BY <2>1
    <3>1. files[<<j, m>>] = {}
      BY <1>5, <2>10 DEF FilesInv
    <3>2. now \in Int /\ batchTs \in Int /\ m \in Int
      BY <1>5
    <3>3. m # batchTs
      BY <2>4, <3>2
    <3> QED BY <2>3, <3>1, <3>3
  <2>6. (\A j \in Imeis, m \in Times :
            SchemaOf[j] \in left /\ archiveCut + ArchiveAfter <= m => files[<<j, m>>] = {})'
    BY <1>5, <2>1, <2>3, <2>4, <2>10 DEF FilesInv, Running
  <2>7. (pc = "upload" => \A j \in Imeis : batch[j] # {} => files[<<j, batchTs>>] = {})'
    BY <1>5, <2>1, <2>2, <2>3, <2>10 DEF FilesInv
  <2>8. replaced' = {}
    <3>1. files[<<i, batchTs>>] = {} /\ replaced = {}
      BY <1>5, <2>1, <2>10 DEF FilesInv
    <3> QED BY <1>5, <3>1 DEF UploadGroup, WriteFile
  <2> QED BY <2>1, <2>5, <2>6, <2>7, <2>8 DEF FilesInv
<1>6. ASSUME TimesInv, FilesInv, DeleteOld
      PROVE  FilesInv'
  BY <1>6 DEF FilesInv, TimesInv, Running, DeleteOld, AfterSchema
<1>7. ASSUME TimesInv, FilesInv, SkipDelete
      PROVE  FilesInv'
  BY <1>7 DEF FilesInv, TimesInv, Running, storeVars, SkipDelete, AfterSchema
<1>8. ASSUME TimesInv, FilesInv, SaveWatermarks
      PROVE  FilesInv'
  BY <1>8 DEF FilesInv, TimesInv, Running, SaveWatermarks
<1>9. ASSUME TimesInv, FilesInv, Die
      PROVE  FilesInv'
  BY <1>9 DEF FilesInv, TimesInv, Running, storeVars, Die
<1>10. ASSUME TimesInv, FilesInv, UNCHANGED vars
      PROVE  FilesInv'
  BY <1>10 DEF FilesInv, TimesInv, Running, storeVars, runVars, vars
<1> QED
  BY <1>1, <1>2, <1>3, <1>4, <1>5, <1>6, <1>7, <1>8, <1>9, <1>10 DEF Next

-------------------------------------------------------------------------------

\* Every step preserves HonestInv.
LEMMA HonestStep == TimesInv /\ HonestInv /\ [Next]_vars => HonestInv'
<1> USE ArchiverAssumption
<1>1. ASSUME TimesInv, HonestInv, Tick
      PROVE  HonestInv'
  BY <1>1 DEF HonestInv, Covered, Honest, SchemaCovered, Kept, Archived, Running, runVars, Tick
<1>2. ASSUME TimesInv, HonestInv, NEW i \in Imeis, NEW t \in Times, Insert(i, t)
      PROVE  HonestInv'
  BY <1>2 DEF HonestInv, Covered, Honest, SchemaCovered, Kept, Archived, TimesInv, TypeOK, Running, runVars,
     Insert
<1>3. ASSUME TimesInv, HonestInv, StartRun
      PROVE  HonestInv'
  <2>1. /\ pc' \in {"idle", "schema"}
        /\ marks' = watermark \/ marks' = [s \in Schemas |-> 0]
        /\ UNCHANGED <<stored, crate, files, replaced, watermark>>
    BY <1>3 DEF StartRun, storeVars
  <2>2. \A i \in Imeis, t \in Times : Kept(<<i, t>>)' <=> Kept(<<i, t>>)
    BY <2>1 DEF Kept, Archived
  <2>3. Covered'
    BY <1>3, <2>1, <2>2 DEF HonestInv, Covered
  <2>4. Honest(watermark)'
    BY <1>3, <2>1, <2>2 DEF HonestInv, Honest
  <2>5. Honest(marks)'
    <3>1. CASE marks' = watermark
      BY <2>1, <2>4, <3>1 DEF Honest
    <3>2. CASE marks' = [s \in Schemas |-> 0]
      BY <3>2 DEF Honest, Times
    <3> QED BY <2>1, <3>1, <3>2
  <2> QED BY <2>1, <2>3, <2>4, <2>5 DEF HonestInv
<1>4. ASSUME TimesInv, HonestInv, NEW s \in Schemas, FetchSchema(s)
      PROVE  HonestInv'
  <2> USE DEF TimesInv, TypeOK, Row, Times
  <2>1. /\ pc = "schema" /\ pc' \in {"upload", "delete"} /\ schema' = s /\ batch' = Fetched(s)
        /\ UNCHANGED <<now, stored, crate, files, replaced, watermark, archiveCut, marks>>
    BY <1>4 DEF FetchSchema, storeVars
  <2>2. \A i \in Imeis, t \in Times : Kept(<<i, t>>)' <=> Kept(<<i, t>>)
    BY <2>1 DEF Kept, Archived
  <2>3. SchemaCovered'
    <3> SUFFICES ASSUME NEW i \in Imeis, NEW t \in Times, <<i, t>> \in stored, SchemaOf[i] = s, t < archiveCut
                 PROVE  Kept(<<i, t>>) \/ t \in Fetched(s)[i]
      BY <2>1, <2>2 DEF SchemaCovered
    <3>1. CASE t < marks[s]
      BY <1>4, <3>1, <2>1 DEF HonestInv, Honest, Running
    <3>2. CASE marks[s] <= t /\ <<i, t>> \in crate
      BY <3>2 DEF Fetched
    <3>3. CASE <<i, t>> \notin crate
      BY <1>4, <3>3 DEF HonestInv, Covered
    <3>4. marks[s] \in Int /\ t \in Int
      BY <1>4
    <3> QED BY <3>1, <3>2, <3>3, <3>4
  <2>4. Covered'
    BY <1>4, <2>1, <2>2 DEF HonestInv, Covered
  <2>5. Honest(watermark)' /\ Honest(marks)'
    BY <1>4, <2>1, <2>2 DEF HonestInv, Honest, Running
  <2> QED BY <2>3, <2>4, <2>5 DEF HonestInv
<1>5. ASSUME TimesInv, HonestInv, NEW i \in Imeis, NEW ok \in BOOLEAN, UploadGroup(i, ok)
      PROVE  HonestInv'
  <2> USE DEF TimesInv, TypeOK, Row, Times
  <2>1. /\ pc = "upload" /\ batch[i] # {} /\ pc' \in {"upload", "delete"}
        /\ UNCHANGED <<now, stored, crate, watermark, archiveCut, deleteCut, marks, left, schema, batchTs>>
    BY <1>5 DEF UploadGroup
  <2>2. \A j \in Imeis : batch'[j] = IF j = i THEN {} ELSE batch[j]
    BY <1>5 DEF UploadGroup
  <2>3. \A j \in Imeis, m \in Times :
           files'[<<j, m>>] = files[<<j, m>>] \/ (j = i /\ m = batchTs /\ files'[<<j, m>>] = batch[i])
    BY <1>5 DEF UploadGroup, WriteFile
  <2>4. \A j \in Imeis, t \in Times : Kept(<<j, t>>) => Kept(<<j, t>>)'
    <3> SUFFICES ASSUME NEW j \in Imeis, NEW t \in Times, Kept(<<j, t>>)
                 PROVE  Kept(<<j, t>>)'
      OBVIOUS
    <3>1. CASE <<j, t>> \in replaced
      BY <1>5, <3>1 DEF Kept, UploadGroup, WriteFile
    <3>2. CASE Archived(<<j, t>>)
      <4>1. PICK m \in Times : t \in files[<<j, m>>]
        BY <3>2 DEF Archived
      <4>2. CASE t \in files'[<<j, m>>]
        BY <4>2 DEF Kept, Archived
      <4>3. CASE t \notin files'[<<j, m>>]
        <5>1. WriteFile(i) /\ j = i /\ m = batchTs
          BY <1>5, <2>3, <4>1, <4>3 DEF UploadGroup
        <5>2. t \notin batch[i]
          BY <2>3, <4>1, <4>3, <5>1
        <5> QED BY <4>1, <5>1, <5>2 DEF Kept, WriteFile
      <4> QED BY <4>2, <4>3
    <3> QED BY <3>1, <3>2 DEF Kept
  <2>5. Covered'
    BY <1>5, <2>1, <2>4 DEF HonestInv, Covered
  <2>6. Honest(watermark)' /\ Honest(marks)'
    BY <1>5, <2>1, <2>4 DEF HonestInv, Honest, Running
  <2>7. ASSUME schemaOk'
        PROVE  SchemaCovered'
    <3>1. schemaOk /\ ok
      BY <1>5, <2>7 DEF UploadGroup
    <3>2. \A t \in batch[i] : Kept(<<i, t>>)'
      BY <1>5, <2>1, <3>1 DEF UploadGroup, WriteFile, Kept, Archived
    <3>3. SchemaCovered
      BY <1>5, <2>1, <3>1 DEF HonestInv
    <3> QED BY <2>1, <2>2, <2>4, <3>2, <3>3 DEF SchemaCovered
  <2> QED BY <2>5, <2>6, <2>7 DEF HonestInv
<1>6. ASSUME TimesInv, HonestInv, DeleteOld
      PROVE  HonestInv'
  <2> USE DEF TimesInv, TypeOK, Row, Times
  <2>1. /\ pc = "delete" /\ schemaOk /\ pc' \in {"schema", "save"}
        /\ UNCHANGED <<now, stored, files, replaced, watermark, archiveCut, deleteCut, schema, schemaOk, batch>>
    BY <1>6 DEF DeleteOld, AfterSchema
  <2>2. \A i \in Imeis, t \in Times : Kept(<<i, t>>)' <=> Kept(<<i, t>>)
    BY <2>1 DEF Kept, Archived
  <2>3. \A i \in Imeis, t \in Times :
           <<i, t>> \in stored /\ SchemaOf[i] = schema /\ t < archiveCut => Kept(<<i, t>>)
    BY <1>6, <2>1 DEF HonestInv, SchemaCovered, NoRows
  <2>4. Covered'
    <3> SUFFICES ASSUME NEW i \in Imeis, NEW t \in Times, <<i, t>> \in stored, <<i, t>> \notin crate'
                 PROVE  Kept(<<i, t>>)
      BY <2>1, <2>2 DEF Covered
    <3>1. <<i, t>> \notin crate \/ (SchemaOf[i] = schema /\ t < deleteCut)
      BY <1>6 DEF DeleteOld
    <3> QED BY <1>6, <2>3, <3>1 DEF HonestInv, Covered
  <2>5. Honest(watermark)'
    BY <1>6, <2>1, <2>2 DEF HonestInv, Honest
  <2>6. Honest(marks)'
    <3>1. \A q \in Schemas : marks'[q] = IF q = schema THEN archiveCut ELSE marks[q]
      BY <1>6 DEF DeleteOld
    <3> QED BY <1>6, <2>1, <2>2, <2>3, <3>1 DEF HonestInv, Honest, Running
  <2> QED BY <2>1, <2>4, <2>5, <2>6 DEF HonestInv
<1>7. ASSUME TimesInv, HonestInv, SkipDelete
      PROVE  HonestInv'
  BY <1>7 DEF HonestInv, Covered, Honest, Kept, Archived, Running, storeVars, SkipDelete
<1>8. ASSUME TimesInv, HonestInv, SaveWatermarks
      PROVE  HonestInv'
  BY <1>8 DEF HonestInv, Covered, Honest, Kept, Archived, Running, SaveWatermarks
<1>9. ASSUME TimesInv, HonestInv, Die
      PROVE  HonestInv'
  BY <1>9 DEF HonestInv, Covered, Honest, Kept, Archived, Running, storeVars, Die
<1>10. ASSUME TimesInv, HonestInv, UNCHANGED vars
      PROVE  HonestInv'
  BY <1>10 DEF HonestInv, Covered, Honest, SchemaCovered, Kept, Archived, Running, storeVars, runVars, vars
<1> QED
  BY <1>1, <1>2, <1>3, <1>4, <1>5, <1>6, <1>7, <1>8, <1>9, <1>10 DEF Next

-------------------------------------------------------------------------------

\* Every step preserves OnceInv.
LEMMA OnceStep == TimesInv /\ FilesInv /\ OnceInv /\ [Next]_vars => OnceInv'
<1> USE ArchiverAssumption
<1>1. ASSUME TimesInv, FilesInv, OnceInv, Tick
      PROVE  OnceInv'
  BY <1>1 DEF OnceInv, FilesInv, Running, runVars, Tick
<1>2. ASSUME TimesInv, FilesInv, OnceInv, NEW i \in Imeis, NEW t \in Times, Insert(i, t)
      PROVE  OnceInv'
  BY <1>2 DEF OnceInv, FilesInv, Running, runVars, Insert
<1>3. ASSUME TimesInv, FilesInv, OnceInv, StartRun
      PROVE  OnceInv'
  BY <1>3 DEF OnceInv, FilesInv, TimesInv, TypeOK, Row, Times, Running, NoRows, storeVars,
     runVars, StartRun, Cutoff
<1>4. ASSUME TimesInv, FilesInv, OnceInv, NEW s \in Schemas, FetchSchema(s)
      PROVE  OnceInv'
  BY <1>4 DEF OnceInv, FilesInv, Running, storeVars, FetchSchema, Fetched
<1>5. ASSUME TimesInv, FilesInv, OnceInv, NEW i \in Imeis, NEW ok \in BOOLEAN, UploadGroup(i, ok)
      PROVE  OnceInv'
  <2> USE DEF TimesInv, TypeOK, Row, Times
  <2>1. /\ pc = "upload" /\ batch[i] # {} /\ pc' \in {"upload", "delete"}
        /\ UNCHANGED <<now, stored, crate, watermark, archiveCut, deleteCut, marks, left, schema, batchTs>>
    BY <1>5 DEF UploadGroup
  <2>2. \A j \in Imeis : batch'[j] = IF j = i THEN {} ELSE batch[j]
    BY <1>5 DEF UploadGroup
  <2>3. \A j \in Imeis, m \in Times :
           files'[<<j, m>>] = files[<<j, m>>] \/ (j = i /\ m = batchTs /\ files'[<<j, m>>] = batch[i])
    BY <1>5 DEF UploadGroup, WriteFile
  <2>4. SUFFICES ASSUME clean'
                 PROVE  OnceInv'
    BY DEF OnceInv
  <2>5. clean /\ ok /\ schemaOk /\ schemaOk'
    BY <1>5, <2>1, <2>4 DEF UploadGroup, OnceInv
  <2>6. \A t \in batch[i] : marks[schema] <= t /\ t < archiveCut
    BY <1>5, <2>1, <2>5 DEF OnceInv
  <2>7. SchemaOf[i] = schema /\ files[<<i, batchTs>>] = {}
    BY <1>5, <2>1, <2>5 DEF FilesInv, TimesInv
  <2>8. \A j \in Imeis, m \in Times : \A t \in files'[<<j, m>>] :
           \/ t < marks[SchemaOf[j]]
           \/ SchemaOf[j] = schema /\ m = batchTs /\ t < archiveCut
    <3>1. \A j \in Imeis, m \in Times : \A t \in files[<<j, m>>] :
             \/ t < marks[SchemaOf[j]]
             \/ SchemaOf[j] = schema /\ m = batchTs /\ t < archiveCut
      BY <1>5, <2>1, <2>5 DEF OnceInv, Running
    <3> QED BY <2>3, <2>6, <2>7, <3>1
  <2>9. \A j \in Imeis, m, n \in Times : m # n => files'[<<j, m>>] \cap files'[<<j, n>>] = {}
    <3>1. \A j \in Imeis, m, n \in Times : m # n => files[<<j, m>>] \cap files[<<j, n>>] = {}
      BY <1>5, <2>5 DEF OnceInv
    <3>2. \A m \in Times : m # batchTs => batch[i] \cap files[<<i, m>>] = {}
      BY <1>5, <2>1, <2>5, <2>6, <2>7 DEF OnceInv, Running
    <3> SUFFICES ASSUME NEW j \in Imeis, NEW m \in Times, NEW n \in Times, m # n
                 PROVE  files'[<<j, m>>] \cap files'[<<j, n>>] = {}
      OBVIOUS
    <3>3. CASE j = i /\ m = batchTs
      BY <2>3, <3>1, <3>2, <3>3
    <3>4. CASE j = i /\ n = batchTs
      BY <2>3, <3>1, <3>2, <3>4
    <3>5. CASE ~(j = i /\ (m = batchTs \/ n = batchTs))
      BY <2>3, <3>1, <3>5
    <3> QED BY <3>3, <3>4, <3>5
  <2>10. \A j \in Imeis : \A t \in batch'[j] : marks[schema] <= t /\ t < archiveCut
    BY <1>5, <2>1, <2>2, <2>5 DEF OnceInv
  <2> QED BY <2>1, <2>5, <2>8, <2>9, <2>10 DEF OnceInv, Running
<1>6. ASSUME TimesInv, FilesInv, OnceInv, DeleteOld
      PROVE  OnceInv'
  <2>1. /\ pc = "delete" /\ pc' \in {"schema", "save"}
        /\ UNCHANGED <<files, watermark, archiveCut, schema, clean>>
    BY <1>6 DEF DeleteOld, AfterSchema
  <2>2. \A q \in Schemas : marks'[q] = IF q = schema THEN archiveCut ELSE marks[q]
    BY <1>6 DEF DeleteOld, TimesInv, TypeOK
  <2>3. SUFFICES ASSUME clean
                 PROVE  OnceInv'
    BY <2>1 DEF OnceInv
  <2>4. \A i \in Imeis, m \in Times : \A t \in files[<<i, m>>] :
           t < marks[SchemaOf[i]] \/ (SchemaOf[i] = schema /\ t < archiveCut)
    BY <1>6, <2>1, <2>3 DEF OnceInv, Running
  <2>5. marks[schema] \in Int /\ archiveCut \in Int /\ marks[schema] <= archiveCut
    BY <1>6, <2>1 DEF TimesInv, TypeOK, Running
  <2>6. \A i \in Imeis, m \in Times : files[<<i, m>>] \subseteq Int
    BY <1>6 DEF TimesInv, TypeOK, Row, Times
  <2>7. \A i \in Imeis, m \in Times : \A t \in files[<<i, m>>] : t < marks'[SchemaOf[i]]
    <3> SUFFICES ASSUME NEW i \in Imeis, NEW m \in Times, NEW t \in files[<<i, m>>]
                 PROVE  t < marks'[SchemaOf[i]]
      OBVIOUS
    <3>1. CASE SchemaOf[i] = schema
      BY <2>2, <2>4, <2>5, <2>6, <3>1
    <3>2. CASE SchemaOf[i] # schema
      BY <2>2, <2>4, <3>2
    <3> QED BY <3>1, <3>2
  <2>8. \A i \in Imeis, m, n \in Times : m # n => files[<<i, m>>] \cap files[<<i, n>>] = {}
    BY <1>6, <2>3 DEF OnceInv
  <2> QED BY <2>1, <2>7, <2>8 DEF OnceInv
<1>7. ASSUME TimesInv, FilesInv, OnceInv, SkipDelete
      PROVE  OnceInv'
  BY <1>7 DEF OnceInv, FilesInv, SkipDelete
<1>8. ASSUME TimesInv, FilesInv, OnceInv, SaveWatermarks
      PROVE  OnceInv'
  BY <1>8 DEF OnceInv, FilesInv, Running, SaveWatermarks
<1>9. ASSUME TimesInv, FilesInv, OnceInv, Die
      PROVE  OnceInv'
  BY <1>9 DEF OnceInv, FilesInv, Die
<1>10. ASSUME TimesInv, FilesInv, OnceInv, UNCHANGED vars
      PROVE  OnceInv'
  BY <1>10 DEF OnceInv, FilesInv, Running, storeVars, runVars, vars
<1> QED
  BY <1>1, <1>2, <1>3, <1>4, <1>5, <1>6, <1>7, <1>8, <1>9, <1>10 DEF Next

-------------------------------------------------------------------------------

\* Init establishes the four invariants.
LEMMA ArchiverStart == Init => TimesInv /\ FilesInv /\ HonestInv /\ OnceInv
<1> USE ArchiverAssumption
<1>1. Init => TimesInv
  BY DEF Init, TimesInv, TypeOK, Times, NoRows
<1>2. Init => FilesInv /\ HonestInv /\ OnceInv
  BY DEF Init, FilesInv, HonestInv, Covered, Honest, OnceInv, Row
<1> QED BY <1>1, <1>2

LEMMA TimesAlways == Spec => []TimesInv
<1>1. Init => TimesInv
  BY ArchiverStart
<1> QED BY <1>1, TimesStep, PTL DEF Spec

\* The four together.
LEMMA ArchiverAlways == Spec => [](TimesInv /\ FilesInv /\ HonestInv /\ OnceInv)
  BY ArchiverStart, TimesStep, FilesStep, HonestStep, OnceStep, PTL DEF Spec

\* Every variable keeps its type.
THEOREM ArchiverTypeCorrect == Spec => []TypeOK
<1>1. TimesInv => TypeOK
  BY DEF TimesInv
<1> QED BY <1>1, TimesAlways, PTL

\* Rows stay in CrateDB for DeleteAfter, whatever a run does and however long it
\* takes.
THEOREM RowsStayLongEnough == Spec => RecentRowsStay
<1> DEFINE Stay == \A r \in crate \ crate' : r[2] < now - DeleteAfter
<1>1. ASSUME TimesInv, DeleteOld
      PROVE  Stay
  <2>1. \A r \in crate \ crate' : r[2] < deleteCut /\ r[2] \in Times
    BY <1>1 DEF DeleteOld, TimesInv, TypeOK, Row, Times
  <2> QED BY <1>1, <2>1, ArchiverAssumption DEF TimesInv, TypeOK, Times
<1>2. ASSUME [Next]_vars, ~DeleteOld
      PROVE  crate \subseteq crate'
  BY <1>2 DEF Next, vars, storeVars, Tick, Insert, StartRun, FetchSchema, UploadGroup,
     SkipDelete,
       SaveWatermarks, Die
<1>3. TimesInv /\ [Next]_vars => [Stay]_vars
  BY <1>1, <1>2
<1> QED BY <1>3, TimesAlways, PTL DEF Spec, RecentRowsStay

\* Whatever fails and is retried, a row leaves CrateDB and MinIO only when a run
\* replaced its file in the minute it was written, and never before a failure.
THEOREM RowsAreLostOnlyByReplacement == Spec => []LostOnlyByReplacement
<1>1. TimesInv /\ FilesInv /\ HonestInv => LostOnlyByReplacement
  <2> SUFFICES ASSUME TimesInv, FilesInv, HonestInv
               PROVE  LostOnlyByReplacement
    OBVIOUS
  <2>1. \A r \in stored : r \in crate \/ Kept(r)
    BY DEF TimesInv, TypeOK, Row, HonestInv, Covered
  <2> QED BY <2>1 DEF FilesInv, Kept, LostOnlyByReplacement
<1> QED BY <1>1, ArchiverAlways, PTL

\* The saved watermark never claims a row that was in no file.
THEOREM WatermarkIsHonest == Spec => []WatermarkHonest
<1>1. TimesInv /\ HonestInv => WatermarkHonest
  <2> SUFFICES ASSUME TimesInv, HonestInv, NEW r \in stored, r[2] < watermark[SchemaOf[r[1]]]
               PROVE  Kept(r)
    BY DEF WatermarkHonest, Kept
  <2>1. r[1] \in Imeis /\ r[2] \in Times /\ r = <<r[1], r[2]>>
    BY DEF TimesInv, TypeOK, Row
  <2>2. Kept(<<r[1], r[2]>>)
    BY <2>1 DEF HonestInv, Honest
  <2> QED BY <2>1, <2>2
<1> QED BY <1>1, ArchiverAlways, PTL

\* Without failures every row is archived once, for any sequence of runs.
THEOREM RowsAreArchivedOnce == Spec => []ArchivedOnceWhileClean
<1>1. OnceInv => ArchivedOnceWhileClean
  BY DEF OnceInv, ArchivedOnceWhileClean
<1> QED BY <1>1, ArchiverAlways, PTL
===============================================================================
