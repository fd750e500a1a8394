------------------------------ MODULE Pages_proofs ----------------------------
(***************************************************************************)
(* Proofs about the pages and the proxy: the form that registers devices   *)
(* (RegisterPage), for any IMEIs, types, files and number of requests and  *)
(* of changes from elsewhere, the certificate card (CertCard), for any     *)
(* number of certificates, the way of a request to the API (ApiProxy), for *)
(* any number of requests, and the table of the overview (OverviewPage),   *)
(* for any devices, fields, files and number of writes.                    *)
(*                                                                         *)
(* A record follows a creation with a delay: the server has created the    *)
(* IMEI, and the answer that says so has not been handled.  RecordsBacked  *)
(* counts such an answer as a record that is still owed, and Known says    *)
(* what an answer may say.                                                 *)
(***************************************************************************)
EXTENDS MCFrontend, FiniteSetTheorems, TLAPS

-------------------------------------------------------------------------------
(* The form that registers devices *)

\* A record that the answer of a tab will bring.
Owed(t, x) ==
    IF post[t].phase = "answered" /\ x[1] \in post[t].created /\ x[2] = post[t].type THEN 1 ELSE 0

RecordsBacked ==
    \A x \in Pairs : records[x] + Owed("single", x) + Owed("bulk", x) <= creations[x]

\* An answer names some of the IMEIs that were asked for, each once, and IMEIs
\* that were registered.
Known(t) ==
    /\ post[t].created \subseteq post[t].imeis /\ post[t].already \subseteq post[t].imeis
    /\ post[t].created \cap post[t].already = {}
    /\ post[t].created \subseteq ever /\ post[t].already \subseteq ever

AllKnown == \A t \in Tabs : Known(t)

\* The parts of the type invariant, by what proves them.
Flags == deviceMissing \in BOOLEAN /\ error \in BOOLEAN /\ reviewOpen \in BOOLEAN

Post == [phase : {"idle", "sent", "answered"}, imeis : SUBSET Imeis, type : Types \cup {NoType},
         created : SUBSET Imeis, already : SUBSET Imeis]

Rest ==
    /\ listing \in {"asked", "answered", "done"} /\ device \in Types \cup {NoType}
    /\ posts \in 0..MaxPosts /\ elsewhere \in 0..MaxElsewhere
    /\ staged \in Files \cup {NoFile} /\ reading \subseteq Files
    /\ dialogError \in {"none", "failed", "partial"}

Sets == devices \subseteq ever /\ ever \subseteq Imeis /\ listed \subseteq ever /\ imeis \subseteq ever

Counts == creations \in [Pairs -> Nat] /\ records \in [Pairs -> Nat]

Numbers == summary \in Int /\ made \in Nat

RegisterInv ==
    /\ Flags /\ Rest /\ post \in [Tabs -> Post] /\ Sets /\ Counts /\ Numbers
    /\ AllKnown /\ RecordsBacked /\ SummaryIsTrue

-------------------------------------------------------------------------------
(* Counting, and what a file may have posted *)

\* partialSummary counts the IMEIs that were created.
LEMMA SummaryCounts ==
    ASSUME NEW S, NEW C, NEW A, IsFiniteSet(S), C \subseteq S, A \subseteq S, C \cap A = {}
    PROVE  /\ Cardinality(C) \in Nat
           /\ Cardinality(S) - Cardinality(S \ (C \cup A)) - Cardinality(A) = Cardinality(C)
<1>1. IsFiniteSet(C) /\ IsFiniteSet(A) /\ IsFiniteSet(C \cup A)
  <2>1. C \in SUBSET S /\ A \in SUBSET S /\ C \cup A \in SUBSET S OBVIOUS
  <2> QED BY <2>1, FS_Subset
<1>2. Cardinality(C \cup A) = Cardinality(C) + Cardinality(A)
  <2>1. Cardinality(C \cap A) = 0 BY FS_EmptySet
  <2>2. /\ Cardinality(C) \in Nat /\ Cardinality(A) \in Nat
        /\ Cardinality(C \cup A) = Cardinality(C) + Cardinality(A) - Cardinality(C \cap A)
    BY <1>1, FS_Union, FS_CardinalityType
  <2> QED BY <2>1, <2>2
<1>3. Cardinality(S \ (C \cup A)) = Cardinality(S) - Cardinality(C \cup A)
  <2>1. S \cap (C \cup A) = C \cup A OBVIOUS
  <2>2. Cardinality(S \ (C \cup A)) = Cardinality(S) - Cardinality(S \cap (C \cup A))
    BY <1>1, FS_Difference
  <2> QED BY <2>1, <2>2
<1>4. Cardinality(S) \in Nat /\ Cardinality(C) \in Nat /\ Cardinality(A) \in Nat
  BY <1>1, FS_CardinalityType
<1> QED BY <1>2, <1>3, <1>4

\* Only what validateImei accepts is posted.
LEMMA PayloadIsImeis == Payload \subseteq Imeis
<1>1. ASSUME NEW tokens, NEW known PROVE NewImeis(tokens, known) \subseteq Imeis
  <2>1. ASSUME NEW k \in DOMAIN tokens, ParseImeis(tokens)[k] = "ok" PROVE tokens[k] \in Imeis
    BY <2>1 DEF ParseImeis, Valid
  <2> QED BY <2>1 DEF NewImeis
<1> QED BY <1>1 DEF Payload

-------------------------------------------------------------------------------
(* Types *)

\* Every step keeps the three flags Boolean.
LEMMA FlagsStep == Flags /\ RegisterNext => Flags'
<1> SUFFICES ASSUME Flags, RegisterNext PROVE Flags'
  OBVIOUS
<1> USE DEF Flags, registerVars, serverVars, listVars, formVars, singleVars, bulkVars
<1>1. ASSUME NEW i \in Imeis, Elsewhere(i) PROVE Flags'
  BY <1>1 DEF Elsewhere
<1>2. ASSUME NEW tab \in Tabs, NEW failing \in SUBSET post[tab].imeis, Serve(tab, failing) PROVE Flags'
  BY <1>2 DEF Serve
<1>3. ASSUME ListServed PROVE Flags'
  BY <1>3 DEF ListServed
<1>4. ASSUME ListArrives PROVE Flags'
  BY <1>4 DEF ListArrives
<1>5. ASSUME ListFails PROVE Flags'
  BY <1>5 DEF ListFails
<1>6. ASSUME NEW type \in Types, SelectDevice(type) PROVE Flags'
  BY <1>6 DEF SelectDevice
<1>7. ASSUME NEW text \in Typed, Type(text) PROVE Flags'
  BY <1>7 DEF Type
<1>8. ASSUME SubmitSingle PROVE Flags'
  BY <1>8 DEF SubmitSingle
<1>9. ASSUME SingleArrives PROVE Flags'
  BY <1>9 DEF SingleArrives
<1>10. ASSUME SingleFails PROVE Flags'
  BY <1>10 DEF SingleFails
<1>11. ASSUME NEW f \in Files, DropFile(f) PROVE Flags'
  BY <1>11 DEF DropFile
<1>12. ASSUME NEW f \in Files, ReadEnds(f) PROVE Flags'
  BY <1>12 DEF ReadEnds
<1>13. ASSUME RemoveFile PROVE Flags'
  BY <1>13 DEF RemoveFile
<1>14. ASSUME Review PROVE Flags'
  BY <1>14 DEF Review
<1>15. ASSUME CancelReview PROVE Flags'
  BY <1>15 DEF CancelReview
<1>16. ASSUME Confirm PROVE Flags'
  BY <1>16 DEF Confirm
<1>17. ASSUME BulkArrives PROVE Flags'
  BY <1>17 DEF BulkArrives
<1>18. ASSUME BulkFails PROVE Flags'
  BY <1>18 DEF BulkFails
<1> QED BY <1>1, <1>2, <1>3, <1>4, <1>5, <1>6, <1>7, <1>8, <1>9, <1>10, <1>11, <1>12, <1>13, <1>14, <1>15, <1>16, <1>17, <1>18 DEF RegisterNext

\* Every step keeps the shape of the requests of the tabs.
LEMMA PostStep == Rest /\ post \in [Tabs -> Post] /\ RegisterNext => post' \in [Tabs -> Post]
<1> SUFFICES ASSUME Rest, post \in [Tabs -> Post], RegisterNext PROVE post' \in [Tabs -> Post]
  OBVIOUS
<1>1. post \in [Tabs -> Post] /\ device \in Types \cup {NoType} BY DEF Rest
<1>2. Idle \in Post BY DEF Idle, Post
<1>3. ASSUME NEW tab \in Tabs, NEW failing \in SUBSET post[tab].imeis, Serve(tab, failing)
      PROVE post' \in [Tabs -> Post]
  <2>1. post[tab] \in Post BY <1>1
  <2> DEFINE fresh == post[tab].imeis \ (failing \cup devices)
             q == [post[tab] EXCEPT !.phase = "answered", !.created = fresh,
                                    !.already = post[tab].imeis \ (failing \cup fresh)]
  <2>2. q \in Post BY <2>1 DEF Post
  <2>3. post' = [post EXCEPT ![tab] = q] BY <1>3, <1>1, <2>1 DEF Serve, Post
  <2> QED BY <1>1, <2>2, <2>3
<1>4. ASSUME NEW tab \in Tabs, NEW new \in SUBSET Imeis, Send(tab, new)
      PROVE post' \in [Tabs -> Post]
  <2>1. [Idle EXCEPT !.phase = "sent", !.imeis = new, !.type = device] \in Post
    BY <1>1, <1>4 DEF Idle, Post
  <2> QED BY <1>1, <1>4, <2>1 DEF Send
<1>5. ASSUME NEW tab \in Tabs, Ended(tab) PROVE post' \in [Tabs -> Post]
  BY <1>1, <1>2, <1>5 DEF Ended
<1>6. "single" \in Tabs /\ "bulk" \in Tabs BY DEF Tabs
<1>7. ASSUME SubmitSingle PROVE post' \in [Tabs -> Post]
  BY <1>1, <1>4, <1>6, <1>7 DEF SubmitSingle, Valid
<1>8. ASSUME Confirm PROVE post' \in [Tabs -> Post]
  BY <1>4, <1>6, <1>8, PayloadIsImeis DEF Confirm
<1>9. ASSUME SingleArrives \/ SingleFails \/ BulkArrives \/ BulkFails PROVE post' \in [Tabs -> Post]
  BY <1>5, <1>6, <1>9 DEF SingleArrives, SingleFails, BulkArrives, BulkFails
<1>10. ASSUME UNCHANGED post PROVE post' \in [Tabs -> Post] BY <1>1, <1>10
<1> QED BY <1>3, <1>7, <1>8, <1>9, <1>10
       DEF RegisterNext, Elsewhere, ListServed, ListArrives, ListFails, SelectDevice, Type,
           DropFile, ReadEnds, RemoveFile, Review, CancelReview

\* Every step keeps the remaining small types and the bounds.
LEMMA RestStep == Rest /\ RegisterNext => Rest'
<1> SUFFICES ASSUME Rest, RegisterNext PROVE Rest'
  OBVIOUS
<1> USE RegisterAssumption DEF Rest, serverVars, listVars, formVars, singleVars, bulkVars
<1>1. ASSUME NEW i \in Imeis, Elsewhere(i) PROVE Rest'
  BY <1>1 DEF Elsewhere
<1>2. ASSUME NEW tab \in Tabs, NEW failing \in SUBSET post[tab].imeis, Serve(tab, failing) PROVE Rest'
  BY <1>2 DEF Serve
<1>3. ASSUME ListServed \/ ListArrives \/ ListFails PROVE Rest'
  BY <1>3 DEF ListServed, ListArrives, ListFails
<1>4. ASSUME NEW type \in Types, SelectDevice(type) PROVE Rest'
  BY <1>4 DEF SelectDevice
<1>5. ASSUME NEW text \in Typed, Type(text) PROVE Rest'
  BY <1>5 DEF Type
<1>6. ASSUME SubmitSingle \/ Confirm PROVE Rest'
  <2>1. ASSUME NEW tab, NEW new, Send(tab, new) PROVE posts' \in 0..MaxPosts
    BY <2>1 DEF Send
  <2>2. posts' \in 0..MaxPosts BY <1>6, <2>1 DEF SubmitSingle, Confirm
  <2>3. /\ UNCHANGED <<listing, device, elsewhere, staged, reading>>
        /\ dialogError' \in {"none", dialogError}
    BY <1>6 DEF SubmitSingle, Confirm, NoError, ShowError
  <2> QED BY <2>2, <2>3
<1>7. ASSUME SingleArrives \/ SingleFails \/ BulkFails PROVE Rest'
  BY <1>7 DEF SingleArrives, SingleFails, BulkFails, ShowError
<1>8. ASSUME NEW f \in Files, DropFile(f) \/ ReadEnds(f) PROVE Rest'
  BY <1>8 DEF DropFile, ReadEnds
<1>9. ASSUME RemoveFile \/ Review \/ CancelReview PROVE Rest'
  BY <1>9 DEF RemoveFile, Review, CancelReview, NoError, KeepError, ShowError
<1>10. ASSUME BulkArrives PROVE Rest'
  BY <1>10 DEF BulkArrives, KeepError, ShowError
<1> QED BY <1>1, <1>2, <1>3, <1>4, <1>5, <1>6, <1>7, <1>8, <1>9, <1>10 DEF RegisterNext

-------------------------------------------------------------------------------
(* What is known to be registered *)

\* ever only grows, by what an answer calls created or the others register.
LEMMA KnownStep ==
    Sets /\ AllKnown /\ post \in [Tabs -> Post] /\ RegisterNext => Sets' /\ AllKnown'
<1> SUFFICES ASSUME Sets, AllKnown, post \in [Tabs -> Post], RegisterNext PROVE Sets' /\ AllKnown'
  OBVIOUS
<1> USE DEF Sets, serverVars, listVars, formVars, singleVars, bulkVars
<1>1. ASSUME NEW i \in Imeis, Elsewhere(i) PROVE Sets' /\ AllKnown'
  BY <1>1 DEF Elsewhere, AllKnown, Known
<1>2. ASSUME NEW tab \in Tabs, NEW failing \in SUBSET post[tab].imeis, Serve(tab, failing)
      PROVE Sets' /\ AllKnown'
  <2> DEFINE fresh == post[tab].imeis \ (failing \cup devices)
             known == post[tab].imeis \ (failing \cup fresh)
  <2>1. post[tab] \in Post OBVIOUS
  <2>2. fresh \subseteq Imeis BY <2>1 DEF Post
  <2>3. ever' = ever \cup fresh /\ devices' = devices \cup fresh /\ UNCHANGED <<listed, imeis>>
    BY <1>2 DEF Serve
  <2>4. Sets' BY <2>2, <2>3
  <2>5. /\ post'[tab].imeis = post[tab].imeis
        /\ post'[tab].created = fresh /\ post'[tab].already = known
        /\ \A t \in Tabs \ {tab} : post'[t] = post[t]
    BY <1>2, <2>1 DEF Serve, Post
  <2>6. known \subseteq devices OBVIOUS
  <2>7. Known(tab)' BY <2>3, <2>5, <2>6 DEF Known
  <2>8. ASSUME NEW t \in Tabs \ {tab} PROVE Known(t)'
    BY <2>3, <2>5 DEF Known, AllKnown
  <2> QED BY <2>4, <2>7, <2>8 DEF AllKnown
<1>3. ASSUME ListServed \/ ListArrives \/ ListFails PROVE Sets' /\ AllKnown'
  BY <1>3 DEF ListServed, ListArrives, ListFails, AllKnown, Known
<1>4. ASSUME NEW tab \in Tabs, post' = [post EXCEPT ![tab] = Idle], UNCHANGED ever PROVE AllKnown'
  BY <1>4 DEF AllKnown, Known, Idle
<1>5. ASSUME NEW tab \in Tabs, NEW new, Send(tab, new), UNCHANGED ever PROVE AllKnown'
  <2>1. post'[tab].created = {} /\ post'[tab].already = {}
        /\ \A t \in Tabs \ {tab} : post'[t] = post[t]
    BY <1>5 DEF Send, Idle
  <2> QED BY <1>5, <2>1 DEF AllKnown, Known
<1>6. "single" \in Tabs /\ "bulk" \in Tabs BY DEF Tabs
<1>7. ASSUME SubmitSingle \/ Confirm PROVE Sets' /\ AllKnown'
  <2>1. Sets' BY <1>7 DEF SubmitSingle, Confirm
  <2>2. UNCHANGED <<post, ever>> => AllKnown' BY DEF AllKnown, Known
  <2> QED BY <1>5, <1>6, <1>7, <2>1, <2>2 DEF SubmitSingle, Confirm
<1>8. ASSUME SingleArrives \/ BulkArrives \/ SingleFails \/ BulkFails PROVE Sets' /\ AllKnown'
  <2>1. AllKnown' BY <1>4, <1>6, <1>8 DEF SingleArrives, BulkArrives, SingleFails, BulkFails, Ended
  <2>2. Sets'
    BY <1>6, <1>8 DEF SingleArrives, BulkArrives, SingleFails, BulkFails, MarkRegistered, AllKnown, Known
  <2> QED BY <2>1, <2>2
<1>9. ASSUME UNCHANGED <<serverVars, listVars, imeis, post>> PROVE Sets' /\ AllKnown'
  BY <1>9 DEF AllKnown, Known
<1> QED BY <1>1, <1>2, <1>3, <1>7, <1>8, <1>9
       DEF RegisterNext, SelectDevice, Type, DropFile, ReadEnds, RemoveFile, Review, CancelReview

-------------------------------------------------------------------------------
(* The records and the creations behind them *)

\* What a tab is owed when it is not waiting for an answer, or its answer has
\* been handled.
LEMMA OwedRange == \A t \in Tabs, x \in Pairs : Owed(t, x) \in {0, 1}
BY DEF Owed

\* A record is added only for an answer that was owed; a creation is what
\* makes an answer owe one.
LEMMA RecordsStep ==
    Counts /\ RecordsBacked /\ post \in [Tabs -> Post] /\ RegisterNext => Counts' /\ RecordsBacked'
<1> SUFFICES ASSUME Counts, RecordsBacked, post \in [Tabs -> Post], RegisterNext
             PROVE Counts' /\ RecordsBacked'
  OBVIOUS
<1> USE DEF Counts, serverVars, listVars, formVars, singleVars, bulkVars
<1>1. "single" \in Tabs /\ "bulk" \in Tabs /\ \A t \in Tabs : t = "single" \/ t = "bulk"
  BY DEF Tabs
<1>2. ASSUME NEW tab \in Tabs, NEW failing \in SUBSET post[tab].imeis, Serve(tab, failing)
      PROVE Counts' /\ RecordsBacked'
  <2> DEFINE fresh == post[tab].imeis \ (failing \cup devices)
             created(x) == x[1] \in fresh /\ x[2] = post[tab].type
  <2>1. post[tab] \in Post OBVIOUS
  <2>2. /\ post'[tab].phase = "answered" /\ post'[tab].created = fresh
        /\ post'[tab].type = post[tab].type /\ \A t \in Tabs \ {tab} : post'[t] = post[t]
    BY <1>2, <2>1 DEF Serve, Post
  <2>3. creations' = [x \in Pairs |-> IF created(x) THEN creations[x] + 1 ELSE creations[x]]
        /\ records' = records
    BY <1>2 DEF Serve
  <2>4. Counts' BY <2>3
  <2>5. ASSUME NEW x \in Pairs
        PROVE /\ Owed(tab, x) = 0 /\ Owed(tab, x)' = IF created(x) THEN 1 ELSE 0
              /\ \A t \in Tabs \ {tab} : Owed(t, x)' = Owed(t, x)
    BY <1>2, <2>2 DEF Owed, Serve
  <2>6. ASSUME NEW x \in Pairs
        PROVE records'[x] + Owed("single", x)' + Owed("bulk", x)' <= creations'[x]
    <3>1. creations'[x] = IF created(x) THEN creations[x] + 1 ELSE creations[x] BY <2>3
    <3>2. records[x] + Owed("single", x) + Owed("bulk", x) <= creations[x] BY DEF RecordsBacked
    <3>3. CASE tab = "single" BY <1>1, <2>3, <2>5, <3>1, <3>2, <3>3, OwedRange
    <3>4. CASE tab = "bulk" BY <1>1, <2>3, <2>5, <3>1, <3>2, <3>4, OwedRange
    <3> QED BY <1>1, <3>3, <3>4
  <2> QED BY <2>4, <2>6 DEF RecordsBacked
\* Handling an answer turns what is owed into records.
<1>3. ASSUME NEW tab \in Tabs, post[tab].phase = "answered", Ended(tab), creations' = creations,
             AddRecords(post[tab].created, post[tab].type)
      PROVE Counts' /\ RecordsBacked'
  <2>1. Counts' BY <1>3 DEF AddRecords
  <2>2. post'[tab].phase = "idle" /\ \A t \in Tabs \ {tab} : post'[t] = post[t]
    BY <1>3 DEF Ended, Idle
  <2>3. ASSUME NEW x \in Pairs
        PROVE /\ records'[x] = records[x] + Owed(tab, x)
              /\ Owed(tab, x)' = 0 /\ \A t \in Tabs \ {tab} : Owed(t, x)' = Owed(t, x)
    BY <1>3, <2>2 DEF AddRecords, Owed
  <2>4. ASSUME NEW x \in Pairs
        PROVE records'[x] + Owed("single", x)' + Owed("bulk", x)' <= creations'[x]
    <3>1. records[x] + Owed("single", x) + Owed("bulk", x) <= creations[x] BY DEF RecordsBacked
    <3>2. CASE tab = "single" BY <1>1, <1>3, <2>3, <3>1, <3>2, OwedRange
    <3>3. CASE tab = "bulk" BY <1>1, <1>3, <2>3, <3>1, <3>3, OwedRange
    <3> QED BY <1>1, <3>2, <3>3
  <2> QED BY <2>1, <2>4 DEF RecordsBacked
\* Nothing is owed to a tab that starts or gives up waiting.
<1>4. ASSUME NEW tab \in Tabs, post'[tab].phase # "answered",
             \A t \in Tabs \ {tab} : post'[t] = post[t], UNCHANGED <<creations, records>>
      PROVE Counts' /\ RecordsBacked'
  <2>1. Counts' BY <1>4
  <2>2. ASSUME NEW x \in Pairs
        PROVE Owed(tab, x)' = 0 /\ \A t \in Tabs \ {tab} : Owed(t, x)' = Owed(t, x)
    BY <1>4 DEF Owed
  <2>3. ASSUME NEW x \in Pairs
        PROVE records'[x] + Owed("single", x)' + Owed("bulk", x)' <= creations'[x]
    <3>1. records[x] + Owed("single", x) + Owed("bulk", x) <= creations[x] BY DEF RecordsBacked
    <3>2. CASE tab = "single" BY <1>1, <1>4, <2>2, <3>1, <3>2, OwedRange
    <3>3. CASE tab = "bulk" BY <1>1, <1>4, <2>2, <3>1, <3>3, OwedRange
    <3> QED BY <1>1, <3>2, <3>3
  <2> QED BY <2>1, <2>3 DEF RecordsBacked
<1>5. ASSUME NEW tab \in Tabs, Ended(tab) PROVE
             post'[tab].phase # "answered" /\ \A t \in Tabs \ {tab} : post'[t] = post[t]
  BY <1>5 DEF Ended, Idle
<1>6. ASSUME NEW tab \in Tabs, NEW new, Send(tab, new) PROVE
             post'[tab].phase # "answered" /\ \A t \in Tabs \ {tab} : post'[t] = post[t]
  BY <1>6 DEF Send, Idle
<1>7. ASSUME UNCHANGED <<creations, records, post>> PROVE Counts' /\ RecordsBacked'
  BY <1>7 DEF RecordsBacked, Owed
<1>8. ASSUME SubmitSingle \/ Confirm PROVE Counts' /\ RecordsBacked'
  BY <1>1, <1>4, <1>6, <1>7, <1>8 DEF SubmitSingle, Confirm
<1>9. ASSUME SingleFails \/ BulkFails PROVE Counts' /\ RecordsBacked'
  BY <1>1, <1>4, <1>5, <1>9 DEF SingleFails, BulkFails
<1>10. ASSUME SingleArrives PROVE Counts' /\ RecordsBacked'
  <2>1. CASE post["single"].created = {}
    BY <1>1, <1>4, <1>5, <1>10, <2>1 DEF SingleArrives
  <2>2. CASE post["single"].created # {}
    BY <1>1, <1>3, <1>10, <2>2 DEF SingleArrives
  <2> QED BY <2>1, <2>2
<1>11. ASSUME BulkArrives PROVE Counts' /\ RecordsBacked'
  BY <1>1, <1>3, <1>11 DEF BulkArrives
<1> QED BY <1>2, <1>7, <1>8, <1>9, <1>10, <1>11
       DEF RegisterNext, Elsewhere, ListServed, ListArrives, ListFails, SelectDevice, Type,
           DropFile, ReadEnds, RemoveFile, Review, CancelReview

-------------------------------------------------------------------------------
(* The summary of a partial answer *)

\* The number in the dialog changes only with the answer it counts.
LEMMA SummaryStep ==
    Numbers /\ SummaryIsTrue /\ AllKnown /\ post \in [Tabs -> Post] /\ RegisterNext
        => Numbers' /\ SummaryIsTrue'
<1> SUFFICES ASSUME Numbers, SummaryIsTrue, AllKnown, post \in [Tabs -> Post], RegisterNext
             PROVE Numbers' /\ SummaryIsTrue'
  OBVIOUS
<1> USE DEF Numbers, SummaryIsTrue
<1>1. ASSUME NEW kind, ShowError(kind, 0, 0), kind # "partial" PROVE Numbers' /\ SummaryIsTrue'
  BY <1>1 DEF ShowError
<1>2. ASSUME KeepError PROVE Numbers' /\ SummaryIsTrue'
  BY <1>2 DEF KeepError
<1>3. ASSUME BulkArrives PROVE Numbers' /\ SummaryIsTrue'
  <2> DEFINE p == post["bulk"]
  <2>1. "bulk" \in Tabs BY DEF Tabs
  <2>2. p \in Post /\ Known("bulk") BY <2>1 DEF AllKnown
  <2>3. IsFiniteSet(p.imeis)
    <3>1. p.imeis \in SUBSET Imeis BY <2>2 DEF Post
    <3> QED BY <3>1, FS_Subset, RegisterAssumption
  <2>4. Cardinality(p.created) \in Nat /\ RegisteredOf(p) = Cardinality(p.created)
    <3>1. /\ p.created \subseteq p.imeis /\ p.already \subseteq p.imeis
          /\ p.created \cap p.already = {}
      BY <2>2 DEF Known
    <3>2. /\ Cardinality(p.created) \in Nat
          /\ Cardinality(p.imeis) - Cardinality(p.imeis \ (p.created \cup p.already))
               - Cardinality(p.already) = Cardinality(p.created)
      <4> DEFINE S == p.imeis
                 C == p.created
                 A == p.already
      <4>1. IsFiniteSet(S) /\ C \subseteq S /\ A \subseteq S /\ C \cap A = {} BY <2>3, <3>1
      <4> HIDE DEF p, S, C, A
      <4>2. /\ Cardinality(C) \in Nat
            /\ Cardinality(S) - Cardinality(S \ (C \cup A)) - Cardinality(A) = Cardinality(C)
        BY <4>1, SummaryCounts
      <4> QED BY <4>2 DEF S, C, A
    <3> QED BY <3>2 DEF RegisteredOf
  <2>5. CASE KeepError BY <1>2, <2>5
  <2>6. CASE ShowError("partial", RegisteredOf(p), Cardinality(p.created))
    BY <2>4, <2>6 DEF ShowError
  <2> QED BY <1>3, <2>5, <2>6 DEF BulkArrives
<1>4. ASSUME Review \/ CancelReview \/ Confirm \/ BulkFails PROVE Numbers' /\ SummaryIsTrue'
  BY <1>1, <1>2, <1>4 DEF Review, CancelReview, Confirm, BulkFails, NoError
<1> QED BY <1>2, <1>3, <1>4
       DEF RegisterNext, Elsewhere, Serve, ListServed, ListArrives, ListFails, SelectDevice, Type,
           SubmitSingle, SingleArrives, SingleFails, DropFile, ReadEnds, RemoveFile, KeepError,
           bulkVars

-------------------------------------------------------------------------------

\* The page starts with nothing registered, shown or asked for but the list.
LEMMA RegisterInitInv == RegisterInit => RegisterInv
<1> SUFFICES ASSUME RegisterInit PROVE RegisterInv
  OBVIOUS
<1>1. Idle \in Post /\ Idle.phase = "idle" /\ Idle.created = {} /\ Idle.already = {}
  BY DEF Idle, Post
<1>2. post = [t \in Tabs |-> Idle] BY DEF RegisterInit
<1>3. post \in [Tabs -> Post] BY <1>1, <1>2
<1>4. AllKnown BY <1>1, <1>2 DEF AllKnown, Known
<1>5. creations = [x \in Pairs |-> 0] /\ records = [x \in Pairs |-> 0] BY DEF RegisterInit
<1>6. Counts BY <1>5 DEF Counts
<1>7. RecordsBacked
  <2>1. ASSUME NEW x \in Pairs PROVE records[x] + Owed("single", x) + Owed("bulk", x) <= creations[x]
    <3>1. Owed("single", x) = 0 /\ Owed("bulk", x) = 0 BY <1>1, <1>2 DEF Owed, Tabs
    <3>2. records[x] = 0 /\ creations[x] = 0 BY <1>5
    <3> QED BY <3>1, <3>2
  <2> QED BY <2>1 DEF RecordsBacked
<1>8. Flags BY DEF Flags, RegisterInit
<1>9. Rest
  <2>1. listing = "asked" /\ device = NoType /\ staged = NoFile /\ reading = {} /\ dialogError = "none"
    BY DEF RegisterInit
  <2>2. posts \in 0..MaxPosts /\ elsewhere \in 0..MaxElsewhere
    <3>1. posts = 0 /\ elsewhere = 0 BY DEF RegisterInit
    <3> QED BY <3>1, RegisterAssumption
  <2> QED BY <2>1, <2>2 DEF Rest
<1>10. Sets BY DEF Sets, RegisterInit
<1>11. Numbers /\ SummaryIsTrue
  <2>1. summary = 0 /\ made = 0 /\ dialogError = "none" BY DEF RegisterInit
  <2> QED BY <2>1 DEF Numbers, SummaryIsTrue
<1> QED BY <1>3, <1>4, <1>6, <1>7, <1>8, <1>9, <1>10, <1>11 DEF RegisterInv

\* The invariant is inductive: its parts, one lemma each.
LEMMA RegisterStep == RegisterInv /\ [RegisterNext]_registerVars => RegisterInv'
<1>1. ASSUME RegisterInv, RegisterNext PROVE RegisterInv'
  BY <1>1, FlagsStep, PostStep, RestStep, KnownStep, RecordsStep, SummaryStep DEF RegisterInv
<1>2. ASSUME RegisterInv, UNCHANGED registerVars PROVE RegisterInv'
  <2> USE <1>2 DEF RegisterInv, registerVars, serverVars, listVars, formVars, singleVars, bulkVars
  <2>1. Flags' BY DEF Flags
  <2>2. Rest' /\ (post \in [Tabs -> Post])' /\ Sets' /\ Counts' /\ Numbers'
    BY DEF Rest, Sets, Counts, Numbers
  <2>3. AllKnown' /\ SummaryIsTrue' BY DEF AllKnown, Known, SummaryIsTrue
  <2>4. RecordsBacked' BY DEF RecordsBacked, Owed
  <2> QED BY <2>1, <2>2, <2>3, <2>4
<1> QED BY <1>1, <1>2

\* The inductive invariant of the page: the types, what an answer may name, and
\* that a record, shown or still owed, is never more than the creations behind it.
THEOREM RegisterInvariant == RegisterSpec => []RegisterInv
<1> QED BY RegisterInitInv, RegisterStep, PTL DEF RegisterSpec

\* The page keeps its types, for any number of IMEIs and files.
THEOREM RegisterTypes == RegisterSpec => []RegisterTypeOK
<1>1. RegisterInv => RegisterTypeOK
  <2> SUFFICES ASSUME RegisterInv PROVE RegisterTypeOK
    OBVIOUS
  <2>1. deviceMissing \in BOOLEAN /\ error \in BOOLEAN /\ reviewOpen \in BOOLEAN
    BY DEF RegisterInv, Flags
  <2>2. post \in [Tabs -> Post] BY DEF RegisterInv
  <2> QED BY <2>1, <2>2 DEF RegisterInv, RegisterTypeOK, Rest, Sets, Counts, Numbers, Post
<1> QED BY <1>1, RegisterInvariant, PTL

\* Every line in "Registered devices" stands for a creation of its own, whatever
\* the two tabs, the late list and the others do (register-form.tsx:48-112).
THEOREM EveryRecordWasCreated == RegisterSpec => []EachRecordWasCreated
<1>1. RegisterInv => EachRecordWasCreated
  <2> SUFFICES ASSUME RegisterInv, NEW x \in Pairs PROVE records[x] <= creations[x]
    BY DEF EachRecordWasCreated
  <2>1. records[x] + Owed("single", x) + Owed("bulk", x) <= creations[x]
    BY DEF RegisterInv, RecordsBacked
  <2>2. Owed("single", x) \in {0, 1} /\ Owed("bulk", x) \in {0, 1} BY DEF Owed
  <2>3. records[x] \in Nat /\ creations[x] \in Nat BY DEF RegisterInv, Counts
  <2> QED BY <2>1, <2>2, <2>3
<1> QED BY <1>1, RegisterInvariant, PTL

\* What the page calls already registered has been (use-tenant-imeis.ts:27-53,
\* register-form.tsx:98-102).
THEOREM BelievedIsRegistered == RegisterSpec => []BelievedWasRegistered
<1>1. RegisterInv => BelievedWasRegistered
  BY DEF RegisterInv, Sets, BelievedWasRegistered
<1> QED BY <1>1, RegisterInvariant, PTL

\* "n of m registered" is the number of IMEIs the request created, for lists of
\* any length (bulk-imei-tab.tsx:71-85).
THEOREM SummaryIsRight == RegisterSpec => []SummaryIsTrue
<1>1. RegisterInv => SummaryIsTrue
  BY DEF RegisterInv
<1> QED BY <1>1, RegisterInvariant, PTL

-------------------------------------------------------------------------------
(* The certificate card *)

\* A load under way has no answer yet, or one from after the last file was saved.
LoadIsNew(r) == r[2] \in Int /\ (r[2] = -1 \/ r[2] >= saved)

\* What the card holds came from the server, which never goes back.
CardNumbers ==
    /\ cert \in Nat /\ shown \in Int /\ saved \in Nat /\ saved <= cert
    /\ action.got \in Nat /\ (action.phase = "answered" => action.got <= cert)

ActionShape == action \in [kind : {"none", "download", "rotate"},
                           phase : {"idle", "sent", "answered"}, got : Nat]

CardInv ==
    CardNumbers /\ ActionShape /\ (\A r \in loads : LoadIsNew(r)) /\ SavedIsShown

\* The card starts with a load whose answer is new enough: nothing was saved.
LEMMA CardInitInv == CardInit => CardInv
BY DEF CardInit, CardInv, CardNumbers, ActionShape, LoadIsNew, SavedIsShown, NoAction

\* The server never goes back, and saving a file aborts the loads before.
LEMMA CardStep == CardInv /\ [CardNext]_cardVars => CardInv'
<1> SUFFICES ASSUME CardInv, [CardNext]_cardVars PROVE CardInv'
  OBVIOUS
<1> USE DEF CardInv, loadState
<1>1. CASE RotatedElsewhere
  BY <1>1 DEF RotatedElsewhere, CardNumbers, ActionShape, LoadIsNew, SavedIsShown
<1>2. CASE ActionServed
  <2> DEFINE new == IF action.kind = "rotate" \/ cert = 0 THEN cert + 1 ELSE cert
  <2>1. /\ cert' = new /\ action' = [action EXCEPT !.phase = "answered", !.got = new]
        /\ UNCHANGED <<loads, shown, certError, saved>>
    BY <1>2 DEF ActionServed
  <2>2. new \in Nat /\ new >= cert BY DEF CardNumbers
  <2> HIDE DEF new
  <2>3. ActionShape' /\ action'.got = new BY <2>1, <2>2 DEF ActionShape
  <2>4. CardNumbers' BY <2>1, <2>2, <2>3 DEF CardNumbers
  <2> QED BY <2>1, <2>3, <2>4 DEF LoadIsNew, SavedIsShown
<1>3. CASE LoadAnswered
  <2> PICK r \in loads :
         /\ r[2] = -1
         /\ loads' = (loads \ {r}) \cup {<<r[1], cert>>}
         /\ UNCHANGED <<cert, admin, asks, shown, certLoaded, certError, rotateOpen, action, saved>>
    BY <1>3 DEF LoadAnswered
  <2>1. CardNumbers' /\ ActionShape' BY DEF CardNumbers, ActionShape
  <2>2. ASSUME NEW q \in loads' PROVE LoadIsNew(q)'
    BY DEF LoadIsNew, CardNumbers
  <2>3. loads' # {} OBVIOUS
  <2> QED BY <2>1, <2>2, <2>3 DEF SavedIsShown
<1>4. CASE PrivilegesArrive
  BY <1>4 DEF PrivilegesArrive, CardNumbers, ActionShape, LoadIsNew, SavedIsShown
<1>5. CASE CertArrives
  <2> PICK r \in loads :
         /\ r[2] # -1
         /\ loads' = loads \ {r}
         /\ shown' = r[2] /\ certLoaded' = TRUE /\ certError' = FALSE
         /\ UNCHANGED <<cert, admin, asks, rotateOpen, action, saved>>
    BY <1>5 DEF CertArrives
  <2>1. r[2] \in Int /\ r[2] >= saved BY DEF LoadIsNew
  <2>2. CardNumbers' /\ ActionShape' BY <2>1 DEF CardNumbers, ActionShape
  <2>3. \A q \in loads' : LoadIsNew(q)' BY DEF LoadIsNew
  <2>4. (shown >= saved)' BY <2>1
  <2> QED BY <2>2, <2>3, <2>4 DEF SavedIsShown
<1>6. CASE CertFails
  <2> PICK r \in loads :
         /\ loads' = loads \ {r}
         /\ shown' = 0 /\ certLoaded' = TRUE /\ certError' = TRUE
         /\ UNCHANGED <<cert, admin, asks, rotateOpen, action, saved>>
    BY <1>6 DEF CertFails
  <2>1. CardNumbers' /\ ActionShape' BY DEF CardNumbers, ActionShape
  <2>2. \A q \in loads' : LoadIsNew(q)' BY DEF LoadIsNew
  <2> QED BY <2>1, <2>2 DEF SavedIsShown
<1>7. CASE Download \/ Rotate \/ ActionFails
  <2>1. UNCHANGED <<cert, loads, shown, certError, saved>>
    BY <1>7 DEF Download, Rotate, ActionFails
  <2>2. \E k \in {"none", "download", "rotate"}, p \in {"idle", "sent"} :
            action' = [kind |-> k, phase |-> p, got |-> 0]
    BY <1>7 DEF Download, Rotate, ActionFails, NoAction
  <2>3. ActionShape' /\ action'.got = 0 BY <2>2 DEF ActionShape
  <2>4. CardNumbers' BY <2>1, <2>3 DEF CardNumbers
  <2> QED BY <2>1, <2>3, <2>4 DEF LoadIsNew, SavedIsShown
<1>8. CASE OpenRotate \/ CloseRotate
  BY <1>8 DEF OpenRotate, CloseRotate, CardNumbers, ActionShape, LoadIsNew, SavedIsShown
<1>9. CASE ActionArrives
  <2>1. loads' = {<<asks + 1, -1>>} /\ saved' = action.got /\ action' = NoAction
    BY <1>9 DEF ActionArrives, Refresh
  <2>2. UNCHANGED <<cert, shown>> /\ action.phase = "answered" BY <1>9 DEF ActionArrives, Refresh
  <2>3. CardNumbers' /\ ActionShape' BY <2>1, <2>2 DEF CardNumbers, ActionShape, NoAction
  <2>4. \A q \in loads' : LoadIsNew(q)' BY <2>1 DEF LoadIsNew
  <2>5. loads' # {} BY <2>1
  <2> QED BY <2>3, <2>4, <2>5 DEF SavedIsShown
<1>10. CASE UNCHANGED cardVars
  BY <1>10 DEF cardVars, CardNumbers, ActionShape, LoadIsNew, SavedIsShown
<1> QED
  BY <1>1, <1>2, <1>3, <1>4, <1>5, <1>6, <1>7, <1>8, <1>9, <1>10 DEF CardNext

\* The variables of the card keep their types; among other things, nobody but an
\* administrator has the dialog that rotates the certificate.
LEMMA CardTypeStep == CardTypeOK /\ [CardNext]_cardVars => CardTypeOK'
<1> SUFFICES ASSUME CardTypeOK, [CardNext]_cardVars PROVE CardTypeOK'
  OBVIOUS
<1> USE CardAssumption DEF CardTypeOK, loadState, MaxAsks
<1> DEFINE ActionsMade == [kind : {"none", "download", "rotate"}, phase : {"idle", "sent", "answered"},
                           got : 0..MaxSerial]
<1>0. NoAction \in ActionsMade BY DEF NoAction
<1>1. CASE RotatedElsewhere BY <1>1 DEF RotatedElsewhere
<1>2. CASE ActionServed
  <2> DEFINE new == IF action.kind = "rotate" \/ cert = 0 THEN cert + 1 ELSE cert
  <2>1. new \in 0..MaxSerial BY <1>2 DEF ActionServed
  <2>2. action' = [action EXCEPT !.phase = "answered", !.got = new] /\ cert' = new
    BY <1>2 DEF ActionServed
  <2> HIDE DEF new
  <2> QED BY <1>2, <2>1, <2>2 DEF ActionServed
<1>3. CASE LoadAnswered BY <1>3 DEF LoadAnswered
<1>4. CASE PrivilegesArrive BY <1>4 DEF PrivilegesArrive
<1>5. CASE CertArrives \/ CertFails
  <2>1. PICK r \in loads :
            loads' = loads \ {r} /\ (shown' = 0 \/ (r[2] # -1 /\ shown' = r[2]))
    BY <1>5 DEF CertArrives, CertFails
  <2>2. shown' \in 0..MaxSerial /\ loads' \subseteq loads BY <2>1
  <2>3. UNCHANGED <<cert, admin, asks, rotateOpen, action, saved>>
        /\ certLoaded' = TRUE /\ certError' \in BOOLEAN
    BY <1>5 DEF CertArrives, CertFails
  <2> QED BY <2>2, <2>3
<1>6. CASE Download \/ Rotate \/ ActionFails
  <2>1. UNCHANGED <<cert, admin, loads, asks, shown, certLoaded, certError, rotateOpen, saved>>
    BY <1>6 DEF Download, Rotate, ActionFails
  <2>2. \E k \in {"none", "download", "rotate"}, p \in {"idle", "sent"} :
            action' = [kind |-> k, phase |-> p, got |-> 0]
    BY <1>6 DEF Download, Rotate, ActionFails, NoAction
  <2>3. action' \in ActionsMade BY <2>2
  <2> QED BY <2>1, <2>3
<1>7. CASE OpenRotate \/ CloseRotate BY <1>7 DEF OpenRotate, CloseRotate
<1>8. CASE ActionArrives BY <1>0, <1>8 DEF ActionArrives, Refresh
<1>9. CASE UNCHANGED cardVars BY <1>9 DEF cardVars
<1> QED BY <1>1, <1>2, <1>3, <1>4, <1>5, <1>6, <1>7, <1>8, <1>9 DEF CardNext

\* What the card holds keeps its type: certificates and loads within their
\* bounds, and the dialog of a rotation open for an administrator only.
THEOREM CardTypes == CardSpec => []CardTypeOK
<1>1. CardInit => CardTypeOK
  <2> SUFFICES ASSUME CardInit PROVE CardTypeOK
    OBVIOUS
  <2>1. 0 \in 0..MaxAsks /\ 0 \in 0..MaxSerial /\ -1 \in -1..MaxSerial
    BY CardAssumption DEF MaxAsks
  <2>2. loads \subseteq (0..MaxAsks) \X (-1..MaxSerial) BY <2>1 DEF CardInit
  <2>3. action \in [kind : {"none", "download", "rotate"}, phase : {"idle", "sent", "answered"},
                    got : 0..MaxSerial]
    BY <2>1 DEF CardInit, NoAction
  <2> QED BY <2>1, <2>2, <2>3 DEF CardInit, CardTypeOK
<1> QED BY <1>1, CardTypeStep, PTL DEF CardSpec

\* The card does not show an older certificate than the one saved last, however
\* answers, rotations elsewhere and failures interleave
\* (tenant-certificate-card.tsx:48-75, use-tenant-certificate.ts:21-38).
THEOREM SavedCertIsShown == CardSpec => []SavedIsShown
<1>1. CardInv => SavedIsShown BY DEF CardInv
<1> QED BY <1>1, CardInitInv, CardStep, PTL DEF CardSpec

-------------------------------------------------------------------------------
(* The way of a request *)

\* What the place of a request tells about it.
AtKnows(r) ==
    /\ request[r].at \in {"page", "gate", "token", "api"} => r \notin acted
    /\ request[r].at = "back" => r \in acted
    /\ request[r].at \in {"token", "api", "back"} => request[r].cookie = "valid"
    /\ request[r].at # "done" => answer[r] = "none"

\* What the answer tells.
AnswerIsTrue(r) ==
    /\ answer[r] = "ok" => r \in acted
    /\ answer[r] \in {"400", "401"} => r \notin acted
    /\ r \in acted => request[r].cookie = "valid"

ProxyInv == ProxyTypeOK /\ \A r \in Requests : AtKnows(r) /\ AnswerIsTrue(r)

\* Nothing has been sent.
LEMMA ProxyInitInv == ProxyInit => ProxyInv
BY DEF ProxyInit, ProxyInv, ProxyTypeOK, AtKnows, AnswerIsTrue, Refusals

\* Every hop keeps what the place of a request tells about it.
LEMMA ProxyStep == ProxyInv /\ [ProxyNext]_proxyVars => ProxyInv'
<1> SUFFICES ASSUME ProxyInv, [ProxyNext]_proxyVars PROVE ProxyInv'
  OBVIOUS
<1> USE DEF ProxyInv, ProxyTypeOK, Refusals
<1>1. CASE SignIn \/ SignInAnswered \/ CallbackReturns \/ SignOut
  BY <1>1 DEF SignIn, SignInAnswered, CallbackReturns, SignOut, AtKnows, AnswerIsTrue
<1>2. ASSUME NEW r \in Requests, NEW w \in BOOLEAN, SendRequest(r, w) PROVE ProxyInv'
  BY <1>2, SMTT(30) DEF SendRequest, AtKnows, AnswerIsTrue
<1>3. ASSUME NEW r \in Requests, Gate(r) PROVE ProxyInv'
  BY <1>3 DEF Gate, Moves, Answers, AtKnows, AnswerIsTrue
<1>4. ASSUME NEW r \in Requests, BadBody(r) PROVE ProxyInv'
  BY <1>4 DEF BadBody, Moves, Answers, AtKnows, AnswerIsTrue
<1>5. ASSUME NEW r \in Requests, Token(r) PROVE ProxyInv'
  BY <1>5 DEF Token, Moves, Answers, AtKnows, AnswerIsTrue
<1>6. ASSUME NEW r \in Requests, ApiActs(r) PROVE ProxyInv'
  BY <1>6 DEF ApiActs, Moves, AtKnows, AnswerIsTrue
<1>7. ASSUME NEW r \in Requests, ApiRefuses(r) PROVE ProxyInv'
  BY <1>7 DEF ApiRefuses, Moves, Answers, AtKnows, AnswerIsTrue
<1>8. ASSUME NEW r \in Requests, UpstreamFails(r) PROVE ProxyInv'
  BY <1>8 DEF UpstreamFails, Moves, Answers, AtKnows, AnswerIsTrue
<1>9. ASSUME NEW r \in Requests, UpstreamOk(r) PROVE ProxyInv'
  BY <1>9 DEF UpstreamOk, Moves, Answers, AtKnows, AnswerIsTrue
<1>10. ASSUME NEW r \in Requests, Abort(r) PROVE ProxyInv'
  BY <1>10 DEF Abort, Moves, Answers, AtKnows, AnswerIsTrue
<1>11. CASE UNCHANGED proxyVars
  BY <1>11 DEF proxyVars, AtKnows, AnswerIsTrue
<1> QED
  BY <1>1, <1>2, <1>3, <1>4, <1>5, <1>6, <1>7, <1>8, <1>9, <1>10, <1>11 DEF ProxyNext

\* The variables of the way of a request keep their types.
THEOREM ProxyTypes == ProxySpec => []ProxyTypeOK
<1>1. ProxyInv => ProxyTypeOK BY DEF ProxyInv
<1> QED BY <1>1, ProxyInitInv, ProxyStep, PTL DEF ProxySpec

\* The pages may believe an answer: ok is said only of what the API has done, 400
\* and 401 only of what it has not, and it acts only for a session that was valid
\* when the request was made (gps-proxy.ts:56-87, proxy.ts:16-23).
THEOREM ProxyAnswersAreTrue == ProxySpec => []AnswersAreTrue
<1>1. ProxyInv => AnswersAreTrue BY DEF ProxyInv, AnswerIsTrue, AnswersAreTrue
<1> QED BY <1>1, ProxyInitInv, ProxyStep, PTL DEF ProxySpec
-------------------------------------------------------------------------------
(* The table of the overview *)

Agree(i) ==
    /\ rows[i] = Absent <=> store[i] = Absent
    /\ rows[i] # Absent => \A f \in Fields : rows[i][f] \in {"", store[i][f]}

Stores ==
    /\ store \in Tables /\ rows \in Tables /\ got \in Tables /\ csv \in Tables \cup {NoFile}
    /\ draft \in Metas
    /\ deletion \in Imeis \cup {NoImei} /\ attach \in Imeis \cup {NoImei}

\* Files that are being read have been dropped.
Reading == csvReading \subseteq [file : CsvFiles, known : SUBSET Imeis]

WriteShape ==
    write \in [kind : {"none", "delete", "save", "import"}, phase : {"idle", "sent", "answered"},
               data : Tables, done : SUBSET Imeis, missing : SUBSET Imeis]

\* One dialog at most, and only over a table that is shown.
OneDialog ==
    /\ loading \/ loadError => deletion = NoImei /\ attach = NoImei /\ ~importOpen
    /\ deletion # NoImei => attach = NoImei /\ ~importOpen
    /\ attach # NoImei => ~importOpen

\* A write belongs to the dialog that is open.
OfDialog ==
    /\ write.phase = "idle" => write = NoWrite
    /\ write.phase # "idle" => write.kind # "none"
    /\ write.kind = "delete" => deletion # NoImei /\ Listed(write.data) = {deletion}
    /\ write.kind = "save" => attach # NoImei /\ Listed(write.data) = {attach}
    /\ write.kind = "import" => importOpen
    /\ write.done \subseteq Listed(write.data) /\ write.missing \subseteq Listed(write.data)

\* An answer was true of the server and still is of what nobody else has changed.
AnswerHolds ==
    write.phase = "answered" =>
        \A i \in (write.done \cup write.missing) \ stale :
            /\ write.kind = "delete" => store[i] = Absent
            /\ write.kind = "save" /\ i \in write.done =>
                  /\ store[i] # Absent
                  /\ \A f \in Fields : write.data[i][f] \in {"", store[i][f]}

\* So was the list.
ListHolds ==
    /\ get # "none" => loading
    /\ get = "answered" => \A i \in Imeis \ since : got[i] = store[i]

OverviewInv ==
    Stores /\ WriteShape /\ OneDialog /\ OfDialog /\ AnswerHolds /\ ListHolds /\ TableIsCurrent

\* No request lists no device.
LEMMA NothingWritten == NoWrite.data \in Tables /\ Listed(NoWrite.data) = {}
BY DEF NoWrite, Tables, Listed

\* Metadata with every field blank is that of a device that is there.
LEMMA BlankIsMeta == Blank \in Metas /\ Blank # Absent
BY FieldsAssumption DEF Blank, Metas

\* A request about one device is about that device.
LEMMA OnlyListsOne ==
    ASSUME NEW i \in Imeis, NEW meta \in Metas
    PROVE  Only(i, meta) \in Tables /\ Listed(Only(i, meta)) = {i} /\ Only(i, meta)[i] = meta
BY FieldsAssumption, NothingWritten DEF Only, Tables, Listed, NoWrite

\* PATCH leaves metadata, with every value it was given.
LEMMA MergeIsMeta ==
    ASSUME NEW old \in Metas, NEW new \in Metas
    PROVE  Merge(old, new) \in Metas /\ \A f \in Fields : new[f] \in {"", Merge(old, new)[f]}
BY DEF Merge, Metas

\* What an import will send is metadata of known devices.
LEMMA UpdatableIsTable ==
    ASSUME NEW file \in CsvFiles, NEW known PROVE Updatable(file, known) \in Tables
<1> SUFFICES ASSUME NEW i \in Imeis PROVE Updatable(file, known)[i] \in Metas \cup {Absent}
  BY DEF Updatable, Tables
<1> DEFINE first == {k \in DOMAIN file : file[k].imei = i /\ \A j \in 1..(k - 1) : file[j].imei # i}
           k0 == CHOOSE k \in first : TRUE
<1>1. Updatable(file, known)[i] = IF i \in known /\ first # {} THEN file[k0].meta ELSE Absent
  BY DEF Updatable
<1>2. first # {} => k0 \in DOMAIN file OBVIOUS
<1> HIDE DEF first, k0
<1> QED BY <1>1, <1>2, FieldsAssumption

\* The page starts with no dialog, no write and the list asked for.
LEMMA OverviewInitInv == OverviewInit => OverviewInv
<1> SUFFICES ASSUME OverviewInit PROVE OverviewInv
  OBVIOUS
<1>1. Stores /\ WriteShape
  BY FieldsAssumption, NothingWritten, BlankIsMeta DEF OverviewInit, Stores, WriteShape, NoWrite
<1>2. OneDialog /\ OfDialog /\ AnswerHolds
  BY NothingWritten DEF OverviewInit, OneDialog, OfDialog, AnswerHolds, NoWrite
<1>3. ListHolds /\ TableIsCurrent BY DEF OverviewInit, ListHolds, TableIsCurrent
<1> QED BY <1>1, <1>2, <1>3 DEF OverviewInv

\* What is read of a file was dropped as a file.
LEMMA ReadingStep == Reading /\ [OverviewNext]_overviewVars => Reading'
<1> SUFFICES ASSUME Reading, [OverviewNext]_overviewVars PROVE Reading'
  OBVIOUS
<1>1. CASE csvReading' \subseteq csvReading
  BY <1>1 DEF Reading
<1>2. ASSUME NEW file \in CsvFiles, DropCsv(file) PROVE Reading'
  BY <1>2 DEF DropCsv, Reading, Listed
<1>3. ASSUME NEW r \in csvReading, CsvRead(r) PROVE csvReading' \subseteq csvReading
  BY <1>3 DEF CsvRead
<1>4. CASE CloseImport \/ RemoveCsv \/ SubmitImport \/ ImportArrives \/ DeleteArrives
  <2>1. csvReading' \in {csvReading, {}}
    BY <1>4 DEF CloseImport, RemoveCsv, SubmitImport, ImportArrives, DeleteArrives, importVars
  <2> QED BY <1>1, <2>1
<1>5. CASE LoadServed \/ LoadArrives \/ LoadFails \/ TryAgain \/ CancelDelete \/ ConfirmDelete
        \/ CloseEdit \/ Save \/ SaveArrives \/ OpenImport \/ WriteFails \/ UNCHANGED overviewVars
  BY <1>1, <1>5 DEF LoadServed, LoadArrives, LoadFails, TryAgain, CancelDelete, ConfirmDelete,
     CloseEdit, Save, SaveArrives, OpenImport, WriteFails, overviewVars, importVars
<1>6. ASSUME NEW i \in Imeis, NEW meta \in OutsideMetas, Outside(i, meta) PROVE Reading'
  BY <1>1, <1>6 DEF Outside, importVars
<1>7. ASSUME NEW failing \in SUBSET Listed(write.data), WriteServed(failing) PROVE Reading'
  BY <1>1, <1>7 DEF WriteServed, importVars
<1>8. ASSUME NEW i \in Imeis, AskDelete(i) \/ OpenEdit(i) PROVE Reading'
  BY <1>1, <1>8 DEF AskDelete, OpenEdit, importVars
<1>9. ASSUME NEW f \in Fields, NEW v \in Values \cup {""}, EditField(f, v) PROVE Reading'
  BY <1>1, <1>9 DEF EditField, importVars
<1> QED BY <1>1, <1>2, <1>3, <1>4, <1>5, <1>6, <1>7, <1>8, <1>9 DEF OverviewNext

\* The invariant is inductive, one case for each handler.
LEMMA OverviewStep == Reading /\ OverviewInv /\ [OverviewNext]_overviewVars => OverviewInv'
<1> SUFFICES ASSUME Reading, OverviewInv, [OverviewNext]_overviewVars PROVE OverviewInv'
  OBVIOUS
<1> USE DEF OverviewInv, storeVars, loadVars, editVars, importVars, writeVars
<1>1. ASSUME NEW i \in Imeis, NEW meta \in OutsideMetas, Outside(i, meta) PROVE OverviewInv'
  <2> USE <1>1 DEF Outside
  <2>1. store' \in Tables /\ \A j \in Imeis : j # i => store'[j] = store[j]
    BY FieldsAssumption DEF Stores, Tables
  <2>2. stale' = stale \cup {i} /\ since' = since \cup {i} OBVIOUS
  <2>3. Stores' /\ WriteShape' BY <2>1 DEF Stores, WriteShape
  <2>4. OneDialog' /\ OfDialog' BY DEF OneDialog, OfDialog
  <2>5. AnswerHolds' BY <2>1, <2>2 DEF AnswerHolds, WriteShape
  <2>6. ListHolds' BY <2>1, <2>2 DEF ListHolds
  <2>7. TableIsCurrent' BY <2>1, <2>2 DEF TableIsCurrent
  <2> QED BY <2>3, <2>4, <2>5, <2>6, <2>7
<1>2. ASSUME NEW failing \in SUBSET Listed(write.data), WriteServed(failing) PROVE OverviewInv'
  <2> DEFINE there == {i \in Listed(write.data) \ failing : store[i] # Absent}
             missing == Listed(write.data) \ (failing \cup there)
             new == [i \in Imeis |-> IF i \notin there THEN store[i]
                                     ELSE IF write.kind = "delete" THEN Absent
                                     ELSE Merge(store[i], write.data[i])]
  <2>1. /\ write.phase = "sent"
        /\ write' = [write EXCEPT !.phase = "answered", !.done = there, !.missing = missing]
        /\ store' = new /\ since' = since \cup there
        /\ UNCHANGED <<stale, loadVars, rows, deletion, editVars, importVars>>
    BY <1>2 DEF WriteServed
  <2>2. there \subseteq Listed(write.data) /\ missing \subseteq Listed(write.data)
        /\ Listed(write.data) \subseteq Imeis
    BY DEF Listed
  <2>3. write' \in [kind : {"none", "delete", "save", "import"}, phase : {"idle", "sent", "answered"},
                    data : Tables, done : SUBSET Imeis, missing : SUBSET Imeis]
        /\ write'.kind = write.kind /\ write'.data = write.data /\ write'.phase = "answered"
        /\ write'.done = there /\ write'.missing = missing
    BY <2>1, <2>2 DEF WriteShape
  <2>4. \A i \in there : store[i] \in Metas /\ write.data[i] \in Metas
    BY <2>2 DEF Stores, WriteShape, Tables, Listed
  <2>5. \A i \in there : write.kind # "delete" =>
            /\ new[i] \in Metas /\ new[i] # Absent
            /\ \A f \in Fields : write.data[i][f] \in {"", new[i][f]}
    <3>1. ASSUME NEW i \in there, write.kind # "delete"
          PROVE  /\ new[i] \in Metas /\ new[i] # Absent
                 /\ \A f \in Fields : write.data[i][f] \in {"", new[i][f]}
      <4>1. i \in Imeis /\ new[i] = Merge(store[i], write.data[i]) BY <2>2, <3>1
      <4>2. /\ Merge(store[i], write.data[i]) \in Metas
            /\ \A f \in Fields : write.data[i][f] \in {"", Merge(store[i], write.data[i])[f]}
        BY <2>4, MergeIsMeta
      <4> HIDE DEF new
      <4> QED BY <4>1, <4>2, FieldsAssumption
    <3> HIDE DEF there, new
    <3> QED BY <3>1
  <2>6. /\ \A i \in there : write.kind = "delete" => new[i] = Absent
        /\ \A i \in Imeis \ there : new[i] = store[i]
    BY <2>2
  <2>7. \A i \in missing : new[i] = Absent
    BY <2>2
  <2>8. new \in Tables
    <3>1. ASSUME NEW i \in Imeis PROVE new[i] \in Metas \cup {Absent}
      <4>1. CASE i \notin there BY <4>1, <2>6 DEF Stores, Tables
      <4>2. CASE i \in there BY <4>2, <2>5, <2>6
      <4> QED BY <4>1, <4>2
    <3> QED BY <3>1 DEF Tables
  <2> HIDE DEF there, missing, new
  <2>9. Stores' /\ WriteShape' BY <2>1, <2>3, <2>8 DEF Stores, WriteShape
  <2>10. ~loading /\ ~loadError
    BY <2>1, SMTT(30) DEF OneDialog, OfDialog, WriteShape
  <2>11. OneDialog' /\ OfDialog' BY <2>1, <2>2, <2>3 DEF OneDialog, OfDialog
  <2>12. AnswerHolds'
    <3>1. \A i \in there \cup missing : write.kind = "delete" => new[i] = Absent
      BY <2>6, <2>7
    <3>2. \A i \in there : write.kind = "save" =>
             new[i] # Absent /\ \A f \in Fields : write.data[i][f] \in {"", new[i][f]}
      BY <2>5
    <3>3. store' = new BY <2>1
    <3> QED BY <2>3, <3>1, <3>2, <3>3 DEF AnswerHolds
  <2>13. ListHolds' BY <2>1, <2>10 DEF ListHolds
  <2>14. TableIsCurrent'
    <3>1. Listed(write.data)' = Listed(write.data) BY <2>3 DEF Listed
    <3>2. ASSUME NEW i \in Imeis \ (stale \cup Listed(write.data)) PROVE Agree(i)'
      <4>1. store'[i] = store[i] /\ rows'[i] = rows[i] BY <2>1, <2>2, <2>6
      <4> QED BY <2>10, <4>1 DEF TableIsCurrent, Agree
    <3> QED BY <2>1, <3>1, <3>2 DEF TableIsCurrent, Agree
  <2> QED BY <2>9, <2>11, <2>12, <2>13, <2>14
<1>3. CASE LoadServed
  <2> USE <1>3 DEF LoadServed
  <2>1. Stores' /\ WriteShape' BY DEF Stores, WriteShape
  <2>2. OneDialog' /\ OfDialog' /\ AnswerHolds' BY DEF OneDialog, OfDialog, AnswerHolds
  <2>3. ListHolds' /\ TableIsCurrent' BY DEF ListHolds, TableIsCurrent
  <2> QED BY <2>1, <2>2, <2>3
<1>4. CASE LoadArrives
  <2>1. /\ get = "answered" /\ rows' = got /\ loading' = FALSE /\ loadError' = FALSE
        /\ get' = "none" /\ got' = NoWrite.data /\ stale' = since
        /\ UNCHANGED <<store, since, deletion, attach, draft, importOpen, csv, write>>
    BY <1>4 DEF LoadArrives
  <2>2. loading /\ write.phase = "idle" /\ write = NoWrite
    BY <2>1 DEF ListHolds, OneDialog, OfDialog, WriteShape
  <2>3. Stores' /\ WriteShape' BY <2>1, NothingWritten DEF Stores, WriteShape
  <2>4. OneDialog' /\ OfDialog' BY <2>1 DEF OneDialog, OfDialog
  <2>5. AnswerHolds' /\ ListHolds' BY <2>1, <2>2 DEF AnswerHolds, ListHolds
  <2>6. ASSUME NEW i \in Imeis \ since PROVE rows'[i] = store[i]
    BY <2>1 DEF ListHolds
  <2>7. TableIsCurrent' BY <2>1, <2>6 DEF TableIsCurrent
  <2> QED BY <2>3, <2>4, <2>5, <2>7
<1>5. CASE LoadFails
  <2> USE <1>5 DEF LoadFails
  <2>0. loading BY DEF ListHolds
  <2>1. Stores' /\ WriteShape' BY NothingWritten DEF Stores, WriteShape
  <2>2. OneDialog' /\ OfDialog' /\ AnswerHolds' BY <2>0 DEF OneDialog, OfDialog, AnswerHolds
  <2>3. ListHolds' /\ TableIsCurrent' BY DEF ListHolds, TableIsCurrent
  <2> QED BY <2>1, <2>2, <2>3
<1>6. CASE TryAgain
  <2> USE <1>6 DEF TryAgain, Load
  <2>1. Stores' /\ WriteShape' BY DEF Stores, WriteShape
  <2>2. OneDialog' /\ OfDialog' /\ AnswerHolds' BY DEF OneDialog, OfDialog, AnswerHolds
  <2>3. ListHolds' /\ TableIsCurrent' BY DEF ListHolds, TableIsCurrent
  <2> QED BY <2>1, <2>2, <2>3
<1>7. ASSUME NEW i \in Imeis, AskDelete(i) \/ OpenEdit(i) PROVE OverviewInv'
  <2>1. /\ ~loading /\ ~loadError /\ deletion = NoImei /\ attach = NoImei /\ ~importOpen
        /\ rows[i] # Absent
    BY <1>7 DEF AskDelete, OpenEdit, Ready, TableShown, DialogShown, Listed
  <2>2. write.phase = "idle" /\ write = NoWrite BY <2>1 DEF OfDialog, WriteShape
  <2>3. /\ deletion' \in Imeis \cup {NoImei} /\ attach' \in Imeis \cup {NoImei}
        /\ deletion' = NoImei \/ attach' = NoImei
        /\ draft' \in {draft, rows[i]}
        /\ UNCHANGED <<store, stale, since, loading, loadError, get, got, rows, importOpen, csv, write>>
    BY <1>7, <2>1 DEF AskDelete, OpenEdit, Stores
  <2>4. rows[i] \in Metas BY <2>1 DEF Stores, Tables
  <2>5. Stores' /\ WriteShape' BY <2>3, <2>4 DEF Stores, WriteShape
  <2>6. OneDialog' BY <2>1, <2>3 DEF OneDialog
  <2>7. OfDialog' /\ AnswerHolds'
    BY <2>2, <2>3, NothingWritten DEF OfDialog, AnswerHolds, NoWrite
  <2>8. ListHolds' /\ TableIsCurrent' BY <2>3 DEF ListHolds, TableIsCurrent
  <2> QED BY <2>5, <2>6, <2>7, <2>8
<1>8. CASE CancelDelete \/ CloseEdit \/ CloseImport
  <2>1. /\ write.phase = "idle" /\ write = NoWrite
        /\ UNCHANGED <<store, stale, since, loading, loadError, get, got, rows, write>>
        /\ deletion' \in {deletion, NoImei} /\ attach' \in {attach, NoImei}
        /\ draft' \in {draft, Blank} /\ csv' \in {csv, NoFile} /\ (importOpen' => importOpen)
    BY <1>8 DEF CancelDelete, CloseEdit, CloseImport, OfDialog
  <2>2. Stores' /\ WriteShape' BY <2>1, BlankIsMeta DEF Stores, WriteShape
  <2>3. OneDialog' BY <2>1 DEF OneDialog
  <2>4. OfDialog' /\ AnswerHolds' BY <2>1, NothingWritten DEF OfDialog, AnswerHolds, NoWrite
  <2>5. ListHolds' /\ TableIsCurrent' BY <2>1 DEF ListHolds, TableIsCurrent
  <2> QED BY <2>2, <2>3, <2>4, <2>5
<1>9. ASSUME NEW kind \in {"delete", "save", "import"}, NEW data \in Tables, SendWrite(kind, data),
             kind = "delete" => deletion # NoImei /\ Listed(data) = {deletion},
             kind = "save" => attach # NoImei /\ Listed(data) = {attach},
             kind = "import" => importOpen,
             UNCHANGED <<storeVars, loadVars, rows, deletion, editVars, importVars>>
      PROVE  OverviewInv'
  <2>1. /\ write.phase = "idle" /\ write = NoWrite
        /\ write' = [NoWrite EXCEPT !.kind = kind, !.phase = "sent", !.data = data]
    BY <1>9 DEF SendWrite, OfDialog
  <2>2. write' = [kind |-> kind, phase |-> "sent", data |-> data, done |-> {}, missing |-> {}]
    BY <2>1 DEF NoWrite
  <2>3. Stores' /\ WriteShape' BY <1>9, <2>2 DEF Stores, WriteShape
  <2>4. OneDialog' /\ ListHolds' BY <1>9 DEF OneDialog, ListHolds
  <2>5. OfDialog' /\ AnswerHolds' BY <1>9, <2>2 DEF OfDialog, AnswerHolds
  <2>6. TableIsCurrent'
    <3>1. Listed(write.data) = {} BY <2>1, NothingWritten
    <3> QED BY <1>9, <3>1 DEF TableIsCurrent
  <2> QED BY <2>3, <2>4, <2>5, <2>6
<1>10. CASE ConfirmDelete
  <2>1. deletion \in Imeis BY <1>10 DEF ConfirmDelete, Stores
  <2>2. Only(deletion, Blank) \in Tables /\ Listed(Only(deletion, Blank)) = {deletion}
    BY <2>1, BlankIsMeta, OnlyListsOne
  <2> QED BY <1>9, <1>10, <2>2 DEF ConfirmDelete
<1>11. CASE Save
  <2>1. attach \in Imeis BY <1>11 DEF Save, Stores
  <2>2. Only(attach, draft) \in Tables /\ Listed(Only(attach, draft)) = {attach}
    BY <2>1, OnlyListsOne DEF Stores
  <2> QED BY <1>9, <1>11, <2>2 DEF Save
<1>12. CASE SubmitImport
  BY <1>9, <1>12 DEF SubmitImport, Stores
<1>13. ASSUME NEW f \in Fields, NEW v \in Values \cup {""}, EditField(f, v) PROVE OverviewInv'
  <2> USE <1>13 DEF EditField
  <2>1. draft' \in Metas BY DEF Stores, Metas
  <2>2. Stores' /\ WriteShape' BY <2>1 DEF Stores, WriteShape
  <2>3. OneDialog' /\ OfDialog' /\ AnswerHolds' BY DEF OneDialog, OfDialog, AnswerHolds
  <2>4. ListHolds' /\ TableIsCurrent' BY DEF ListHolds, TableIsCurrent
  <2> QED BY <2>2, <2>3, <2>4
<1>14. ASSUME csv' \in Tables \cup {NoFile},
              UNCHANGED <<storeVars, loadVars, rows, deletion, editVars, importOpen, writeVars>>
       PROVE  OverviewInv'
  <2> USE <1>14
  <2>1. Stores' /\ WriteShape' BY DEF Stores, WriteShape
  <2>2. OneDialog' /\ OfDialog' /\ AnswerHolds' BY DEF OneDialog, OfDialog, AnswerHolds
  <2>3. ListHolds' /\ TableIsCurrent' BY DEF ListHolds, TableIsCurrent
  <2> QED BY <2>1, <2>2, <2>3
<1>15. CASE RemoveCsv
  BY <1>14, <1>15 DEF RemoveCsv
<1>16. ASSUME NEW file \in CsvFiles, DropCsv(file) PROVE OverviewInv'
  BY <1>14, <1>16 DEF DropCsv, Stores
<1>17. ASSUME NEW r \in csvReading, CsvRead(r) PROVE OverviewInv'
  <2>1. Updatable(r.file, r.known) \in Tables BY UpdatableIsTable DEF Reading
  <2> QED BY <1>14, <1>17, <2>1 DEF CsvRead, Stores
<1>18. CASE OpenImport
  <2>1. /\ ~loading /\ ~loadError /\ deletion = NoImei /\ attach = NoImei /\ importOpen' = TRUE
        /\ UNCHANGED <<storeVars, loadVars, rows, deletion, editVars, csv, writeVars>>
    BY <1>18 DEF OpenImport, Ready, TableShown, DialogShown
  <2>2. Stores' /\ WriteShape' BY <2>1 DEF Stores, WriteShape
  <2>3. OneDialog' /\ OfDialog' /\ AnswerHolds' BY <2>1 DEF OneDialog, OfDialog, AnswerHolds
  <2>4. ListHolds' /\ TableIsCurrent' BY <2>1 DEF ListHolds, TableIsCurrent
  <2> QED BY <2>2, <2>3, <2>4
<1>19. NoWrite \in [kind : {"none", "delete", "save", "import"}, phase : {"idle", "sent", "answered"},
                    data : Tables, done : SUBSET Imeis, missing : SUBSET Imeis]
       /\ NoWrite.phase = "idle" /\ NoWrite.kind = "none" /\ Listed(NoWrite.data) = {}
       /\ NoWrite.done = {} /\ NoWrite.missing = {}
  BY NothingWritten DEF NoWrite
<1>20. CASE DeleteArrives
  <2>1. /\ write.kind = "delete" /\ write.phase = "answered" /\ write' = NoWrite
        /\ UNCHANGED <<store, since, loadVars, editVars, importOpen>>
    BY <1>20 DEF DeleteArrives
  <2>2. /\ deletion \in Imeis /\ deletion # NoImei /\ Listed(write.data) = {deletion}
        /\ ~loading /\ ~loadError /\ attach = NoImei /\ ~importOpen
    BY <2>1 DEF OfDialog, Stores, OneDialog
  <2>3. \A i \in Imeis \ (stale \cup {deletion}) : Agree(i)
    BY <2>2 DEF TableIsCurrent, Agree
  <2>4. OfDialog' /\ AnswerHolds' /\ WriteShape'
    BY <1>19, <2>1 DEF OfDialog, AnswerHolds, WriteShape
  <2>5. ListHolds' BY <2>1 DEF ListHolds
  <2>6. CASE deletion \in write.done \cup write.missing
    <3>1. /\ rows' = [rows EXCEPT ![deletion] = Absent] /\ deletion' = NoImei
          /\ csv' \in {csv, NoFile} /\ stale' = stale
      BY <1>20, <2>6 DEF DeleteArrives
    <3>2. Stores' BY <2>1, <3>1 DEF Stores, Tables
    <3>3. OneDialog' BY <2>1, <2>2, <3>1 DEF OneDialog
    <3>4. deletion \in stale \/ store[deletion] = Absent BY <2>1, <2>6 DEF AnswerHolds
    <3>5. rows'[deletion] = Absent /\ \A i \in Imeis : i # deletion => rows'[i] = rows[i]
      BY <2>2, <3>1 DEF Stores, Tables
    <3>6. TableIsCurrent'
      <4>1. ASSUME NEW i \in Imeis \ stale PROVE Agree(i)'
        <5>1. CASE i = deletion BY <2>1, <3>4, <3>5, <5>1 DEF Agree
        <5>2. CASE i # deletion BY <2>1, <2>3, <3>5, <5>2 DEF Agree
        <5> QED BY <5>1, <5>2
      <4> QED BY <3>1, <4>1 DEF TableIsCurrent, Agree
    <3> QED BY <2>4, <2>5, <3>2, <3>3, <3>6
  <2>7. CASE deletion \notin write.done \cup write.missing
    <3>1. stale' = stale \cup {deletion} /\ UNCHANGED <<rows, deletion, csv>>
      BY <1>20, <2>7 DEF DeleteArrives, Doubt
    <3>2. Stores' /\ OneDialog' BY <2>1, <3>1 DEF Stores, OneDialog
    <3>3. TableIsCurrent' BY <2>1, <2>3, <3>1 DEF TableIsCurrent, Agree
    <3> QED BY <2>4, <2>5, <3>2, <3>3
  <2> QED BY <2>6, <2>7
<1>21. CASE SaveArrives
  <2>1. /\ write.kind = "save" /\ write.phase = "answered" /\ write' = NoWrite
        /\ UNCHANGED <<store, since, loadVars, deletion, importVars>>
    BY <1>21 DEF SaveArrives
  <2>2. /\ attach \in Imeis /\ attach # NoImei /\ Listed(write.data) = {attach}
        /\ ~loading /\ ~loadError /\ deletion = NoImei /\ ~importOpen
    BY <2>1 DEF OfDialog, Stores, OneDialog
  <2>3. \A i \in Imeis \ (stale \cup {attach}) : Agree(i)
    BY <2>2 DEF TableIsCurrent, Agree
  <2>4. OfDialog' /\ AnswerHolds' /\ WriteShape'
    BY <1>19, <2>1 DEF OfDialog, AnswerHolds, WriteShape
  <2>5. ListHolds' BY <2>1 DEF ListHolds
  <2>6. CASE attach \in write.done \cup write.missing
    <3>1. /\ rows' = [rows EXCEPT ![attach] = write.data[attach]]
          /\ stale' = stale \cup write.missing /\ attach' = NoImei /\ draft' = Blank
      BY <1>21, <2>6 DEF SaveArrives, Doubt
    <3>2. write.data[attach] \in Metas /\ write.data[attach] # Absent
      <4>1. attach \in Listed(write.data) /\ write.data \in Tables BY <2>2 DEF WriteShape
      <4> QED BY <4>1 DEF Listed, Tables
    <3>3. Stores' BY <2>1, <2>2, <3>1, <3>2, BlankIsMeta DEF Stores, Tables
    <3>4. OneDialog' BY <2>1, <2>2, <3>1 DEF OneDialog
    <3>5. rows'[attach] = write.data[attach] /\ \A i \in Imeis : i # attach => rows'[i] = rows[i]
      BY <2>2, <3>1 DEF Stores, Tables
    <3>6. attach \notin stale' =>
             /\ store[attach] # Absent
             /\ \A f \in Fields : write.data[attach][f] \in {"", store[attach][f]}
      BY <2>1, <2>6, <3>1 DEF AnswerHolds
    <3>7. TableIsCurrent'
      <4>1. ASSUME NEW i \in Imeis \ stale' PROVE Agree(i)'
        <5>1. CASE i = attach BY <2>1, <3>2, <3>5, <3>6, <5>1 DEF Agree
        <5>2. CASE i # attach BY <2>1, <2>3, <3>1, <3>5, <5>2 DEF Agree
        <5> QED BY <5>1, <5>2
      <4> QED BY <4>1 DEF TableIsCurrent, Agree
    <3> QED BY <2>4, <2>5, <3>3, <3>4, <3>7
  <2>7. CASE attach \notin write.done \cup write.missing
    <3>1. stale' = stale \cup {attach} /\ UNCHANGED <<rows, editVars>>
      BY <1>21, <2>7 DEF SaveArrives, Doubt
    <3>2. Stores' /\ OneDialog' BY <2>1, <3>1 DEF Stores, OneDialog
    <3>3. TableIsCurrent' BY <2>1, <2>3, <3>1 DEF TableIsCurrent, Agree
    <3> QED BY <2>4, <2>5, <3>2, <3>3
  <2> QED BY <2>6, <2>7
<1>22. CASE ImportArrives
  <2>1. /\ write.kind = "import" /\ write.phase = "answered" /\ write' = NoWrite
        /\ UNCHANGED <<store, since, rows, deletion, editVars>>
    BY <1>22 DEF ImportArrives
  <2>2. importOpen /\ ~loading /\ ~loadError /\ deletion = NoImei /\ attach = NoImei
    BY <2>1 DEF OfDialog, OneDialog
  <2>3. OfDialog' /\ AnswerHolds' /\ WriteShape'
    BY <1>19, <2>1 DEF OfDialog, AnswerHolds, WriteShape
  <2>4. CASE write.done = Listed(write.data)
    <3>1. loading' = TRUE /\ get' = "asked" /\ got' = got /\ importOpen' = FALSE /\ csv' = NoFile
      BY <1>22, <2>4 DEF ImportArrives, Load
    <3>2. Stores' BY <2>1, <3>1 DEF Stores
    <3>3. OneDialog' /\ ListHolds' /\ TableIsCurrent'
      BY <2>1, <2>2, <3>1 DEF OneDialog, ListHolds, TableIsCurrent
    <3> QED BY <2>3, <3>2, <3>3
  <2>5. CASE write.done # Listed(write.data)
    <3>1. stale' = stale \cup Listed(write.data) /\ UNCHANGED <<loadVars, importVars>>
      BY <1>22, <2>5 DEF ImportArrives, Doubt
    <3>2. Stores' /\ OneDialog' /\ ListHolds' BY <2>1, <3>1 DEF Stores, OneDialog, ListHolds
    <3>3. TableIsCurrent' BY <2>1, <3>1 DEF TableIsCurrent
    <3> QED BY <2>3, <3>2, <3>3
  <2> QED BY <2>4, <2>5
<1>23. CASE WriteFails
  <2>1. /\ write' = NoWrite /\ stale' = stale \cup Listed(write.data)
        /\ UNCHANGED <<store, since, loadVars, rows, deletion, editVars, importVars>>
    BY <1>23 DEF WriteFails, Doubt
  <2>2. OfDialog' /\ AnswerHolds' /\ WriteShape'
    BY <1>19, <2>1 DEF OfDialog, AnswerHolds, WriteShape
  <2>3. Stores' /\ OneDialog' /\ ListHolds' BY <2>1 DEF Stores, OneDialog, ListHolds
  <2>4. TableIsCurrent' BY <2>1 DEF TableIsCurrent
  <2> QED BY <2>2, <2>3, <2>4
<1>24. CASE UNCHANGED overviewVars
  <2> USE <1>24 DEF overviewVars
  <2>1. Stores' /\ WriteShape' BY DEF Stores, WriteShape
  <2>2. OneDialog' /\ OfDialog' /\ AnswerHolds' BY DEF OneDialog, OfDialog, AnswerHolds
  <2>3. ListHolds' /\ TableIsCurrent' BY DEF ListHolds, TableIsCurrent
  <2> QED BY <2>1, <2>2, <2>3
<1> QED
  BY <1>1, <1>2, <1>3, <1>4, <1>5, <1>6, <1>7, <1>8, <1>10, <1>11, <1>12, <1>13, <1>15, <1>16,
     <1>17, <1>18, <1>20, <1>21, <1>22, <1>23, <1>24 DEF OverviewNext

\* The table agrees with the server wherever nothing came from outside and no
\* answer was missed, though it is changed by hand after every write, for any
\* number of devices, fields and files (overview-table.tsx:40-57,160-175).
THEOREM TableStaysCurrent == OverviewSpec => []TableIsCurrent
<1>1. OverviewInit => Reading BY DEF OverviewInit, Reading
<1>2. OverviewInv => TableIsCurrent BY DEF OverviewInv
<1> QED BY <1>1, <1>2, ReadingStep, OverviewInitInv, OverviewStep, PTL DEF OverviewSpec

\* What else the page counts and marks.
Marks ==
    /\ stale \subseteq Imeis /\ since \subseteq Imeis
    /\ outside \in 0..MaxOutside /\ writes \in 0..MaxWrites
    /\ loading \in BOOLEAN /\ loadError \in BOOLEAN /\ importOpen \in BOOLEAN
    /\ get \in {"none", "asked", "answered"} /\ loading = (get # "none")
    /\ failed \subseteq {"delete", "save", "import"}

\* Every step keeps them; a write that fails is of a dialog, which shows the error.
LEMMA MarksStep == Marks /\ OverviewInv /\ [OverviewNext]_overviewVars => Marks'
<1> SUFFICES ASSUME Marks, OverviewInv, [OverviewNext]_overviewVars PROVE Marks'
  OBVIOUS
<1> USE BoundsAssumption DEF Marks, storeVars, loadVars, editVars, importVars, writeVars
<1>1. ASSUME NEW i \in Imeis, NEW meta \in OutsideMetas, Outside(i, meta) PROVE Marks'
  BY <1>1 DEF Outside
<1>2. ASSUME NEW failing \in SUBSET Listed(write.data), WriteServed(failing) PROVE Marks'
  <2>1. since' \subseteq Imeis /\ UNCHANGED <<outside, stale, loadVars, importOpen, failed, writes>>
    BY <1>2 DEF WriteServed, Listed
  <2> QED BY <2>1
<1>3. CASE LoadServed \/ LoadArrives \/ LoadFails \/ TryAgain
  BY <1>3 DEF LoadServed, LoadArrives, LoadFails, TryAgain, Load
<1>4. ASSUME NEW i \in Imeis, AskDelete(i) \/ OpenEdit(i) PROVE Marks'
  BY <1>4 DEF AskDelete, OpenEdit
<1>5. CASE ConfirmDelete \/ Save \/ SubmitImport
  <2>1. /\ writes < MaxWrites /\ writes' = writes + 1 /\ failed' \subseteq failed
        /\ UNCHANGED <<storeVars, loadVars, importOpen>>
    BY <1>5 DEF ConfirmDelete, Save, SubmitImport, SendWrite
  <2> QED BY <2>1
<1>6. CASE CancelDelete \/ CloseEdit \/ OpenImport \/ CloseImport \/ RemoveCsv
  BY <1>6 DEF CancelDelete, CloseEdit, OpenImport, CloseImport, RemoveCsv
<1>7. CASE DeleteArrives \/ SaveArrives \/ ImportArrives
  BY <1>7 DEF DeleteArrives, SaveArrives, ImportArrives, Doubt, Load, OverviewInv, Stores, WriteShape,
     OfDialog, Listed
<1>8. ASSUME NEW f \in Fields, NEW v \in Values \cup {""}, EditField(f, v) PROVE Marks'
  BY <1>8 DEF EditField
<1>9. ASSUME NEW file \in CsvFiles, DropCsv(file) PROVE Marks'
  BY <1>9 DEF DropCsv
<1>10. ASSUME NEW r \in csvReading, CsvRead(r) PROVE Marks'
  BY <1>10 DEF CsvRead
<1>11. CASE WriteFails
  <2>1. write.kind \in {"delete", "save", "import"} /\ Listed(write.data) \subseteq Imeis
    BY <1>11 DEF WriteFails, OverviewInv, WriteShape, OfDialog, Listed
  <2> QED BY <1>11, <2>1 DEF WriteFails, Doubt
<1>12. CASE UNCHANGED overviewVars BY <1>12 DEF overviewVars
<1> QED BY <1>1, <1>2, <1>3, <1>4, <1>5, <1>6, <1>7, <1>8, <1>9, <1>10, <1>11, <1>12 DEF OverviewNext

\* The variables of the page keep their types: the spinner turns exactly while the
\* list is asked for (use-overview-devices.ts:60-94).
THEOREM OverviewTypes == OverviewSpec => []OverviewTypeOK
<1>1. OverviewInit => Reading /\ Marks
  <2>1. 0 \in 0..MaxOutside /\ 0 \in 0..MaxWrites BY BoundsAssumption
  <2> QED BY <2>1 DEF OverviewInit, Reading, Marks
<1>2. Reading /\ Marks /\ OverviewInv => OverviewTypeOK
  BY DEF Reading, Marks, OverviewInv, Stores, WriteShape, OverviewTypeOK
<1> QED BY <1>1, <1>2, ReadingStep, OverviewInitInv, OverviewStep, MarksStep, PTL DEF OverviewSpec

-------------------------------------------------------------------------------
(* Together *)

\* What MCFrontend runs is each of the pages and the way of their requests, and
\* what they show of one of them they show of its own specification.
LEMMA FrontendRunsEach == FrontendSpec => RegisterSpec /\ OverviewSpec /\ CardSpec /\ ProxySpec
<1>1. FrontendInit => RegisterInit /\ OverviewInit /\ CardInit /\ ProxyInit
  BY DEF FrontendInit
<1>2. [FrontendNext]_frontendVars =>
          /\ [RegisterNext]_registerVars /\ [OverviewNext]_overviewVars
          /\ [CardNext]_cardVars /\ [ProxyNext]_proxyVars
  BY DEF FrontendNext, frontendVars
<1> QED BY <1>1, <1>2, PTL DEF FrontendSpec, RegisterSpec, OverviewSpec, CardSpec, ProxySpec

\* The variables of every page keep their types, for any devices, fields, files,
\* tabs, requests and certificates.
THEOREM FrontendTypes == FrontendSpec => []FrontendTypeOK
<1>1. RegisterTypeOK /\ OverviewTypeOK /\ CardTypeOK /\ ProxyTypeOK => FrontendTypeOK
  BY DEF FrontendTypeOK
<1> QED BY <1>1, FrontendRunsEach, RegisterTypes, OverviewTypes, CardTypes, ProxyTypes, PTL
===============================================================================
