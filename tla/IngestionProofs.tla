--------------------------- MODULE IngestionProofs ---------------------------
(***************************************************************************)
(* Theorems about Ingestion for any number of documents, deletes, tenants, *)
(* chunks, restarts and any set of failures.                               *)
(***************************************************************************)
EXTENDS Ingestion, TLAPS

-----------------------------------------------------------------------------
(* The inductive invariant.                                                 *)

\* Uploads whose row has been committed, or may have been.
Settled == {"committed", "refreshed", "notified", "done", "error", "lost"}

\* A row is what its upload's session held when it committed.
RowsInv ==
  \A r \in documents :
    /\ r = RowOf(r.id)
    /\ up[r.id] \in Settled
    /\ r.id \notin deleted
    /\ r.status # "processing"

\* A point carries its upload's tenant and comes from the upload's one upsert.
PointsInv ==
  \A p \in points :
    /\ p.org = form[p.doc].org /\ p.ws = form[p.doc].ws
    /\ up[p.doc] \in Settled \cup {"stored"}
    /\ p.doc \notin purged
    /\ session[p.doc].status = "ready" => p.index \in 1..session[p.doc].chunks

\* A session is READY only with all of its chunks stored.
ReadyInv ==
  \A d \in Docs :
    session[d].status = "ready" /\ d \notin purged => Chunks(d, session[d].chunks) \subseteq points

\* What an upload's position says of its session and its row.
UploadInv ==
  \A d \in Docs :
    /\ up[d] \in {"idle", "spooled", "flushed", "rejected", "unread"} => session[d].status = "processing"
    /\ up[d] = "stored" => session[d].status # "processing"
    /\ up[d] \in {"committed", "refreshed", "notified", "done"} =>
         RowOf(d) \in documents \/ d \in deleted

\* Deletes only touch documents whose row was committed, vectors first.
DeleteInv ==
  /\ \A d \in purged : up[d] \in Settled
  /\ deleted \subseteq purged
  /\ \A x \in Deletes :
       /\ del[x] \in DelPending => \/ target[x].doc \in deleted
                                   \/ RowOf(target[x].doc) \in documents
       /\ del[x] = "purged" => target[x].doc \in purged

IInv == TypeOK /\ RowsInv /\ PointsInv /\ ReadyInv /\ UploadInv /\ DeleteInv /\ GhostOrigin

-----------------------------------------------------------------------------
(* Type correctness.                                                        *)

\* The row a session holds is a row of the table.
LEMMA RowOfType ==
  ASSUME TypeOK, NEW d \in Docs
  PROVE  RowOf(d) \in Row
  BY DEF TypeOK, RowOf, Row, Tenant

\* The first n chunks of a document are points.
LEMMA ChunksType ==
  ASSUME TypeOK, NEW d \in Docs, NEW n \in 0..MaxChunks
  PROVE  Chunks(d, n) \subseteq Point
  <1>1. ASSUME NEW i \in 1..n
        PROVE  [doc |-> d, org |-> form[d].org, ws |-> form[d].ws, index |-> i] \in Point
    BY BoundsAssumption DEF TypeOK, Point, Tenant
  <1>2. QED
    BY <1>1 DEF Chunks

\* The stretches of code that touch only the request's own position and file.
Bookkeeping(d) ==
  StartUpload(d) \/ RefuseUpload(d) \/ ReadFails(d) \/ ParseFails(d) \/ FlushDocument(d)
    \/ RefreshDocument(d) \/ UploadSqlFails(d)

\* The initial state is well typed.
LEMMA InitTypeOK == Init => TypeOK
  BY BoundsAssumption DEF Init, TypeOK, Status, UpPending, UpOver, DelPending, DelOver, QryOver

\* A stretch of bookkeeping keeps the types.
LEMMA BookkeepingTypeOK ==
  ASSUME TypeOK, NEW d \in Docs, Bookkeeping(d)
  PROVE  TypeOK'
  <1> USE DEF UpPending, UpOver
  <1>1. up' \in [Docs -> {"idle"} \cup UpPending \cup UpOver]
    BY DEF TypeOK, Bookkeeping, StartUpload, RefuseUpload, ReadFails, ParseFails, FlushDocument,
           RefreshDocument, UploadSqlFails
  <1>2. session' \in [Docs -> [status : Status, chunks : 0..MaxChunks]]
    BY BoundsAssumption
       DEF TypeOK, Bookkeeping, StartUpload, RefuseUpload, ReadFails, ParseFails, FlushDocument,
           RefreshDocument, UploadSqlFails, Status
  <1>3. tmp' \subseteq Docs
    BY DEF TypeOK, Bookkeeping, StartUpload, RefuseUpload, ReadFails, ParseFails, FlushDocument,
           RefreshDocument, UploadSqlFails
  <1>4. UNCHANGED <<fixed, sql, qdrant, notices, answers, del>>
    BY DEF Bookkeeping, StartUpload, RefuseUpload, ReadFails, ParseFails, FlushDocument,
           RefreshDocument, UploadSqlFails
  <1>5. QED
    BY <1>1, <1>2, <1>3, <1>4 DEF TypeOK, fixed, sql, qdrant, notices, answers

\* So does the try block of ingest_file, whichever way it ends.
LEMMA StoreChunksTypeOK ==
  ASSUME TypeOK, NEW d \in Docs, StoreChunks(d)
  PROVE  TypeOK'
  <1> USE DEF TypeOK, StoreChunks, fixed, sql, notices, answers, Status, UpPending, Ensured
  <1>1. CASE IndexReady(d)
    BY <1>1, ChunksType DEF IndexReady
  <1>2. CASE IndexFailed(d)
    <2>1. points' \subseteq Point
      BY <1>2, ChunksType, BoundsAssumption DEF IndexFailed
    <2>2. collection' \in Dims \cup {NoCollection}
      BY <1>2 DEF IndexFailed
    <2>3. session' \in [Docs -> [status : Status, chunks : 0..MaxChunks]]
      BY <1>2 DEF IndexFailed
    <2>4. QED
      BY <1>2, <2>1, <2>2, <2>3
  <1>3. QED
    BY <1>1, <1>2

\* So do the commit of the row and the notice.
LEMMA PublishTypeOK ==
  ASSUME TypeOK, NEW d \in Docs, CommitDocument(d) \/ SendNotice(d) \/ CommitNotice(d)
  PROVE  TypeOK'
  <1> USE DEF TypeOK, fixed, sql, qdrant, notices, answers, UpPending, UpOver
  <1>1. CASE CommitDocument(d)
    BY <1>1, RowOfType DEF CommitDocument
  <1>2. CASE SendNotice(d)
    BY <1>2 DEF SendNotice
  <1>3. CASE CommitNotice(d)
    <2>1. NoticeOf(d) \in Notice
      BY DEF NoticeOf, Notice, Tenant
    <2>2. QED
      BY <1>3, <2>1 DEF CommitNotice
  <1>4. QED
    BY <1>1, <1>2, <1>3

\* So do the steps of a delete.
LEMMA DeleteTypeOK ==
  ASSUME TypeOK, NEW x \in Deletes, LookupDocument(x) \/ DeleteStep(x)
  PROVE  TypeOK'
  <1> USE DEF TypeOK, fixed, sql, qdrant, notices, answers, DelPending, DelOver, Deletion, Without
  <1>1. CASE LookupDocument(x)
    BY <1>1 DEF LookupDocument
  <1>2. CASE PurgeVectors(x)
    BY <1>2 DEF PurgeVectors
  <1>3. CASE PurgeFails(x)
    BY <1>3 DEF PurgeFails
  <1>4. CASE RemoveRow(x)
    BY <1>4 DEF RemoveRow
  <1>5. CASE DeleteSqlFails(x)
    BY <1>5 DEF DeleteSqlFails
  <1>6. QED
    BY <1>1, <1>2, <1>3, <1>4, <1>5 DEF DeleteStep

\* So does a search.
LEMMA SearchTypeOK ==
  ASSUME TypeOK, NEW q \in Searches, Search(q) \/ SearchRefused(q)
  PROVE  TypeOK'
  <1> USE DEF TypeOK, fixed, sql, qdrant, notices, answers, QryOver
  <1>1. CASE Search(q)
    <2>1. PICK S \in SUBSET Matching(query[q]) : hits' = [hits EXCEPT ![q] = {p.doc : p \in S}]
      BY <1>1 DEF Search
    <2>2. {p.doc : p \in S} \subseteq Docs
      BY <2>1 DEF Matching, Point
    <2>3. QED
      BY <1>1, <2>1, <2>2 DEF Search
  <1>2. CASE SearchRefused(q)
    BY <1>2 DEF SearchRefused
  <1>3. QED
    BY <1>1, <1>2

\* So does a restart.
LEMMA CrashTypeOK ==
  ASSUME TypeOK, Crash
  PROVE  TypeOK'
  BY BoundsAssumption
     DEF TypeOK, Crash, sql, qdrant, notices, answers, UpOver, DelOver

\* So does every step.
LEMMA NextTypeOK == TypeOK /\ [Next]_vars => TypeOK'
  <1> SUFFICES ASSUME TypeOK, [Next]_vars
               PROVE  TypeOK'
    OBVIOUS
  <1>1. CASE UNCHANGED vars
    BY <1>1 DEF TypeOK, vars
  <1>2. ASSUME NEW d \in Docs, StartUpload(d) \/ RefuseUpload(d) \/ UploadStep(d)
        PROVE  TypeOK'
    BY <1>2, BookkeepingTypeOK, StoreChunksTypeOK, PublishTypeOK DEF UploadStep, Bookkeeping
  <1>3. ASSUME NEW x \in Deletes, LookupDocument(x) \/ DeleteStep(x)
        PROVE  TypeOK'
    BY <1>3, DeleteTypeOK
  <1>4. ASSUME NEW q \in Searches, Search(q) \/ SearchRefused(q)
        PROVE  TypeOK'
    BY <1>4, SearchTypeOK
  <1>5. QED
    BY <1>1, <1>2, <1>3, <1>4, CrashTypeOK DEF Next, Quiet

\* Every variable keeps its type, whatever fails and however often the process
\* dies.
THEOREM TypeCorrect == Spec => []TypeOK
  BY InitTypeOK, NextTypeOK, PTL DEF Spec

-----------------------------------------------------------------------------
(* The inductive step, one lemma per way the two stores change.             *)

\* The rows, points and histories the invariant speaks of.
stores == <<form, target, session, documents, points, purged, deleted>>

\* The inductive invariant holds initially: both stores are empty.
LEMMA InitIInv == Init => IInv
  <1> SUFFICES ASSUME Init
               PROVE  IInv
    OBVIOUS
  <1>1. TypeOK
    BY InitTypeOK
  <1>2. QED
    BY <1>1 DEF Init, DelPending, IInv, RowsInv, PointsInv, ReadyInv, UploadInv, DeleteInv, GhostOrigin

\* An upload moves on without touching the stores.
LEMMA MoveUpload ==
  ASSUME IInv, TypeOK', NEW d \in Docs, NEW s,
         UNCHANGED <<stores, del>>, up' = [up EXCEPT ![d] = s],
         \/ s \in Settled
         \/ up[d] \in {"idle", "spooled"} /\ s \in {"spooled", "rejected", "unread"},
         s \in {"committed", "refreshed", "notified", "done"} =>
           RowOf(d) \in documents \/ d \in deleted
  PROVE  IInv'
  <1> USE DEF IInv, stores, Settled
  <1>1. RowsInv'
    BY DEF RowsInv, RowOf, TypeOK, Row
  <1>2. PointsInv'
    BY DEF PointsInv, TypeOK, Point
  <1>3. ReadyInv'
    BY DEF ReadyInv, Chunks
  <1>4. UploadInv'
    BY DEF UploadInv, RowOf, TypeOK
  <1>5. DeleteInv'
    BY DEF DeleteInv, RowOf, TypeOK, Deletion
  <1>6. GhostOrigin'
    BY DEF GhostOrigin
  <1>7. QED
    BY <1>1, <1>2, <1>3, <1>4, <1>5, <1>6

\* The flush of the PROCESSING row keeps it.
LEMMA FlushIInv ==
  ASSUME IInv, TypeOK', NEW d \in Docs, FlushDocument(d)
  PROVE  IInv'
  <1> USE DEF IInv, FlushDocument, fixed, sql, qdrant, Settled
  <1>1. /\ \A r \in documents : r.id # d
        /\ \A p \in points : p.doc # d
        /\ d \notin purged /\ d \notin deleted
    BY DEF RowsInv, PointsInv, DeleteInv, TypeOK
  <1>2. session[d].status = "processing"
    BY DEF UploadInv
  <1>3. /\ \A e \in Docs \ {d} : session'[e] = session[e] /\ up'[e] = up[e]
        /\ session'[d].status = "processing" /\ up'[d] = "flushed"
    BY DEF TypeOK
  <1>4. RowsInv'
    BY <1>1, <1>3 DEF RowsInv, RowOf, TypeOK, Row
  <1>5. PointsInv'
    BY <1>1, <1>3 DEF PointsInv, TypeOK, Point
  <1>6. ReadyInv'
    BY <1>3 DEF ReadyInv, Chunks
  <1>7. UploadInv'
    BY <1>3 DEF UploadInv, RowOf
  <1>8. DeleteInv'
    <2>1. \A x \in Deletes : del[x] \in DelPending => target[x].doc # d
      BY <1>1 DEF DeleteInv, RowOf
    <2>2. QED
      BY <1>1, <1>3, <2>1 DEF DeleteInv, RowOf, TypeOK, Deletion
  <1>9. GhostOrigin'
    BY DEF GhostOrigin
  <1>10. QED
    BY <1>4, <1>5, <1>6, <1>7, <1>8, <1>9

\* The try block keeps it: no point of the document existed before.
LEMMA StoreIInv ==
  ASSUME IInv, TypeOK', NEW d \in Docs, StoreChunks(d)
  PROVE  IInv'
  <1> USE DEF IInv, StoreChunks, fixed, sql, Settled
  <1>1. /\ \A r \in documents : r.id # d
        /\ \A p \in points : p.doc # d
        /\ d \notin purged /\ d \notin deleted
    BY DEF RowsInv, PointsInv, DeleteInv, TypeOK
  <1>2. /\ \A e \in Docs \ {d} : session'[e] = session[e] /\ up'[e] = up[e]
        /\ up'[d] = "stored"
    BY DEF TypeOK, IndexReady, IndexFailed
  <1>3. \/ /\ session'[d].status = "failed"
           /\ \/ points' = points
              \/ \E n \in 1..MaxChunks : points' = points \cup Chunks(d, n)
        \/ /\ session'[d].status = "ready"
           /\ session'[d].chunks \in 0..MaxChunks
           /\ points' = points \cup Chunks(d, session'[d].chunks)
    BY DEF TypeOK, IndexReady, IndexFailed
  <1>4. RowsInv'
    BY <1>1, <1>2 DEF RowsInv, RowOf, TypeOK, Row
  <1>5. PointsInv'
    <2> SUFFICES ASSUME NEW p \in points'
                 PROVE  /\ p.org = form[p.doc].org /\ p.ws = form[p.doc].ws
                        /\ up'[p.doc] \in Settled \cup {"stored"}
                        /\ p.doc \notin purged
                        /\ session'[p.doc].status = "ready" => p.index \in 1..session'[p.doc].chunks
      BY DEF PointsInv
    <2>1. CASE p \in points
      BY <1>1, <1>2, <2>1 DEF PointsInv, TypeOK, Point
    <2>2. CASE p \notin points
      <3>1. p.doc = d /\ p.org = form[d].org /\ p.ws = form[d].ws
        BY <1>3, <2>2 DEF Chunks
      <3>2. session'[d].status = "ready" => p.index \in 1..session'[d].chunks
        BY <1>3, <2>2 DEF Chunks
      <3>3. QED
        BY <1>1, <1>2, <3>1, <3>2
    <2>3. QED
      BY <2>1, <2>2
  <1>6. ReadyInv'
    BY <1>2, <1>3 DEF ReadyInv, Chunks
  <1>7. UploadInv'
    BY <1>2, <1>3 DEF UploadInv, RowOf
  <1>8. DeleteInv'
    <2>1. \A x \in Deletes : del[x] \in DelPending => target[x].doc # d
      BY <1>1 DEF DeleteInv, RowOf
    <2>2. \A e \in purged : up'[e] \in Settled
      BY <1>1, <1>2 DEF DeleteInv, TypeOK
    <2>3. ASSUME NEW x \in Deletes, del[x] \in DelPending, target[x].doc \notin deleted
          PROVE  RowOf(target[x].doc)' \in documents
      BY <1>2, <2>1, <2>3 DEF DeleteInv, RowOf, TypeOK, Deletion
    <2>4. QED
      BY <2>2, <2>3 DEF DeleteInv
  <1>9. GhostOrigin'
    BY DEF GhostOrigin
  <1>10. QED
    BY <1>4, <1>5, <1>6, <1>7, <1>8, <1>9

\* The commit keeps it: the row is final and its points are in place.
LEMMA CommitIInv ==
  ASSUME IInv, TypeOK', NEW d \in Docs, CommitDocument(d)
  PROVE  IInv'
  <1> USE DEF IInv, CommitDocument, fixed, qdrant, Settled
  <1>1. d \notin purged /\ d \notin deleted /\ session[d].status # "processing"
    BY DEF DeleteInv, TypeOK, UploadInv
  <1>2. (\A e \in Docs \ {d} : up'[e] = up[e]) /\ up'[d] = "committed"
    BY DEF TypeOK
  <1>3. RowOf(d).id = d /\ RowOf(d).status = session[d].status
    BY DEF RowOf
  <1>4. RowsInv'
    BY <1>1, <1>2, <1>3 DEF RowsInv, RowOf, TypeOK, Row
  <1>5. PointsInv'
    BY <1>2 DEF PointsInv, TypeOK, Point
  <1>6. ReadyInv'
    BY DEF ReadyInv, Chunks
  <1>7. UploadInv'
    BY <1>2 DEF UploadInv, RowOf
  <1>8. DeleteInv'
    BY <1>2 DEF DeleteInv, RowOf, TypeOK
  <1>9. GhostOrigin'
    BY <1>1, <1>3 DEF GhostOrigin
  <1>10. QED
    BY <1>4, <1>5, <1>6, <1>7, <1>8, <1>9

\* A delete moves on without touching the stores, or gives up.
LEMMA MoveDelete ==
  ASSUME IInv, TypeOK', NEW x \in Deletes, NEW s,
         UNCHANGED <<stores, up>>, del' = [del EXCEPT ![x] = s],
         \/ /\ s = "found" /\ del[x] = "idle"
            /\ \E r \in documents : r.id = target[x].doc
         \/ s = "notfound" /\ del[x] = "idle"
         \/ s = "error"
  PROVE  IInv'
  <1> USE DEF IInv, stores
  <1>1. RowsInv' /\ PointsInv' /\ ReadyInv' /\ UploadInv'
    BY DEF RowsInv, PointsInv, ReadyInv, UploadInv, RowOf, Chunks
  <1>2. DeleteInv'
    <2>1. ASSUME NEW y \in Deletes, del'[y] \in DelPending
          PROVE  target[y].doc \in deleted \/ RowOf(target[y].doc) \in documents
      BY <2>1 DEF DeleteInv, RowsInv, TypeOK, DelPending
    <2>2. ASSUME NEW y \in Deletes, del'[y] = "purged"
          PROVE  target[y].doc \in purged
      BY <2>2 DEF DeleteInv, TypeOK
    <2>3. QED
      BY <2>1, <2>2 DEF DeleteInv, RowOf
  <1>3. GhostOrigin'
    BY DEF GhostOrigin, TypeOK
  <1>4. QED
    BY <1>1, <1>2, <1>3

\* The vectors of x's document go: x then owns its row, or has failed.
LEMMA PurgeIInv ==
  ASSUME IInv, TypeOK', NEW x \in Deletes, NEW s \in {"purged", "error"},
         del[x] = "found", del' = [del EXCEPT ![x] = s],
         UNCHANGED <<form, target, session, documents, up, deleted>>,
         points' = Without(target[x].doc), purged' = purged \cup {target[x].doc}
  PROVE  IInv'
  <1> USE DEF IInv, DelPending
  <1>1. target[x].doc \in Docs
    BY DEF TypeOK, Deletion
  <1>2. RowsInv' /\ UploadInv'
    BY DEF RowsInv, UploadInv, RowOf
  <1>3. PointsInv'
    BY DEF PointsInv, Without
  <1>4. ReadyInv'
    <2>1. ASSUME NEW d \in Docs, session[d].status = "ready", d \notin purged'
          PROVE  Chunks(d, session[d].chunks) \subseteq points'
      BY <2>1 DEF ReadyInv, Without, Chunks
    <2>2. QED
      BY <2>1 DEF ReadyInv, Chunks
  <1>5. DeleteInv'
    <2>1. up[target[x].doc] \in Settled
      BY <1>1 DEF DeleteInv, RowsInv, RowOf
    <2>2. ASSUME NEW y \in Deletes
          PROVE  /\ del'[y] \in DelPending => \/ target[y].doc \in deleted
                                          \/ RowOf(target[y].doc) \in documents
                 /\ del'[y] = "purged" => target[y].doc \in purged'
      BY DEF DeleteInv, TypeOK
    <2>3. QED
      BY <2>1, <2>2 DEF DeleteInv, RowOf
  <1>6. GhostOrigin'
    <2> SUFFICES ASSUME NEW r \in documents, r.id \in purged'
                 PROVE  \E y \in Deletes :
                          target[y].doc = r.id /\ del'[y] \in {"purged", "error", "lost"}
      BY DEF GhostOrigin
    <2>1. CASE r.id = target[x].doc
      BY <2>1 DEF TypeOK
    <2>2. CASE r.id # target[x].doc
      BY <2>2 DEF GhostOrigin, TypeOK
    <2>3. QED
      BY <2>1, <2>2
  <1>7. QED
    BY <1>2, <1>3, <1>4, <1>5, <1>6

\* The removal of the row keeps it: the vectors were removed before.
LEMMA RemoveIInv ==
  ASSUME IInv, TypeOK', NEW x \in Deletes, RemoveRow(x)
  PROVE  IInv'
  <1> USE DEF IInv, RemoveRow, fixed, qdrant, DelPending
  <1>1. target[x].doc \in purged
    BY DEF DeleteInv
  <1>2. RowsInv'
    BY DEF RowsInv, RowOf
  <1>3. PointsInv' /\ ReadyInv'
    BY DEF PointsInv, ReadyInv, Chunks
  <1>4. ASSUME NEW d \in Docs, RowOf(d) \in documents
        PROVE  RowOf(d) \in documents' \/ d \in deleted'
    BY <1>4 DEF RowOf
  <1>5. UploadInv'
    BY <1>4 DEF UploadInv, RowOf
  <1>6. DeleteInv'
    <2>1. ASSUME NEW y \in Deletes
          PROVE  /\ del'[y] \in DelPending => \/ target[y].doc \in deleted'
                                          \/ RowOf(target[y].doc) \in documents'
                 /\ del'[y] = "purged" => target[y].doc \in purged
      <3>1. target[y].doc \in Docs
        BY DEF TypeOK, Deletion
      <3>2. QED
        BY <1>4, <3>1 DEF DeleteInv, TypeOK
    <2>2. QED
      BY <1>1, <2>1 DEF DeleteInv, RowOf
  <1>7. GhostOrigin'
    <2> SUFFICES ASSUME NEW r \in documents, r.id # target[x].doc, r.id \in purged
                 PROVE  \E y \in Deletes :
                          target[y].doc = r.id /\ del'[y] \in {"purged", "error", "lost"}
      BY DEF GhostOrigin
    <2>1. PICK y \in Deletes : target[y].doc = r.id /\ del[y] \in {"purged", "error", "lost"}
      BY DEF GhostOrigin
    <2>2. del'[y] = del[y]
      BY <2>1 DEF TypeOK
    <2>3. QED
      BY <2>1, <2>2
  <1>8. QED
    BY <1>2, <1>3, <1>5, <1>6, <1>7

\* A restart keeps it: what was committed or stored stays.
LEMMA CrashIInv ==
  ASSUME IInv, TypeOK', Crash
  PROVE  IInv'
  <1> USE DEF IInv, Crash, sql, qdrant
  <1>1. \A d \in Docs : \/ up'[d] = up[d]
                        \/ up[d] \in UpPending /\ up'[d] = "lost"
    BY DEF TypeOK
  <1>2. \A x \in Deletes : \/ del'[x] = del[x] /\ del[x] \notin DelPending
                           \/ del[x] \in DelPending /\ del'[x] = "lost"
    BY DEF TypeOK
  <1>3. RowsInv'
    BY <1>1 DEF RowsInv, RowOf, Settled, TypeOK, Row
  <1>4. PointsInv'
    BY <1>1 DEF PointsInv, Settled, TypeOK, Point
  <1>5. ReadyInv'
    BY DEF ReadyInv, Chunks
  <1>6. UploadInv'
    BY <1>1 DEF UploadInv, RowOf
  <1>7. DeleteInv'
    BY <1>1, <1>2 DEF DeleteInv, Settled, TypeOK, RowOf, DelPending
  <1>8. GhostOrigin'
    BY <1>2 DEF GhostOrigin, DelPending
  <1>9. QED
    BY <1>3, <1>4, <1>5, <1>6, <1>7, <1>8

\* A step that changes nothing keeps it.
LEMMA StutterIInv ==
  ASSUME IInv, TypeOK', UNCHANGED <<stores, up, del>>
  PROVE  IInv'
  BY DEF IInv, stores, RowsInv, PointsInv, ReadyInv, UploadInv, DeleteInv, GhostOrigin, RowOf,
         Chunks

\* Every step of an upload keeps it.
LEMMA UploadStepIInv ==
  ASSUME IInv, TypeOK', NEW d \in Docs, StartUpload(d) \/ RefuseUpload(d) \/ UploadStep(d)
  PROVE  IInv'
  <1> USE DEF fixed, sql, qdrant, stores, Settled
  <1>1. CASE StartUpload(d)
    BY <1>1, MoveUpload DEF StartUpload
  <1>2. CASE RefuseUpload(d)
    BY <1>2, MoveUpload DEF RefuseUpload
  <1>3. CASE ReadFails(d)
    BY <1>3, MoveUpload DEF ReadFails
  <1>4. CASE ParseFails(d)
    BY <1>4, MoveUpload DEF ParseFails
  <1>5. CASE FlushDocument(d)
    BY <1>5, FlushIInv
  <1>6. CASE StoreChunks(d)
    BY <1>6, StoreIInv
  <1>7. CASE CommitDocument(d)
    BY <1>7, CommitIInv
  <1>8. CASE RefreshDocument(d)
    BY <1>8, MoveUpload DEF RefreshDocument
  <1>9. CASE SendNotice(d)
    BY <1>9, MoveUpload DEF SendNotice, IInv, UploadInv
  <1>10. CASE CommitNotice(d)
    BY <1>10, MoveUpload DEF CommitNotice, IInv, UploadInv
  <1>11. CASE UploadSqlFails(d)
    BY <1>11, MoveUpload DEF UploadSqlFails
  <1>12. QED
    BY <1>1, <1>2, <1>3, <1>4, <1>5, <1>6, <1>7, <1>8, <1>9, <1>10, <1>11 DEF UploadStep

\* Every step of a delete keeps it.
LEMMA DeleteStepIInv ==
  ASSUME IInv, TypeOK', NEW x \in Deletes, LookupDocument(x) \/ DeleteStep(x)
  PROVE  IInv'
  <1> USE DEF fixed, sql, qdrant, stores
  <1>1. CASE LookupDocument(x)
    BY <1>1, MoveDelete DEF LookupDocument
  <1>2. CASE PurgeVectors(x)
    BY <1>2, PurgeIInv DEF PurgeVectors
  <1>3. CASE PurgeFails(x)
    BY <1>3, MoveDelete, PurgeIInv DEF PurgeFails
  <1>4. CASE RemoveRow(x)
    BY <1>4, RemoveIInv
  <1>5. CASE DeleteSqlFails(x)
    BY <1>5, MoveDelete DEF DeleteSqlFails
  <1>6. QED
    BY <1>1, <1>2, <1>3, <1>4, <1>5 DEF DeleteStep

\* Every step keeps it.
LEMMA NextIInv == IInv /\ [Next]_vars => IInv'
  <1> SUFFICES ASSUME IInv, [Next]_vars
               PROVE  IInv'
    OBVIOUS
  <1>1. TypeOK'
    BY NextTypeOK DEF IInv
  <1>2. CASE UNCHANGED vars
    BY <1>1, <1>2, StutterIInv DEF vars, stores
  <1>3. ASSUME NEW q \in Searches, Search(q) \/ SearchRefused(q)
        PROVE  IInv'
    BY <1>1, <1>3, StutterIInv DEF Search, SearchRefused, fixed, sql, qdrant, stores
  <1>4. QED
    BY <1>1, <1>2, <1>3, UploadStepIInv, DeleteStepIInv, CrashIInv DEF Next, Quiet

\* Every reachable state satisfies the inductive invariant: what a row, a point,
\* a session and the position of a request say of one another.
THEOREM InductiveInvariant == Spec => []IInv
  BY InitIInv, NextIInv, PTL DEF Spec

-----------------------------------------------------------------------------
(* The safety properties.                                                   *)

\* What the library lists as READY is searchable, completely, until a delete
\* empties it: ingest_file commits the row only after its upsert returned.
THEOREM ReadyDocumentsAreSearchable == Spec => []ReadyIsSearchable
  <1>1. IInv => ReadyIsSearchable
    <2> SUFFICES ASSUME IInv, NEW t \in Tenant, NEW r \in Listed(t),
                        r.status = "ready", r.id \notin purged
                 PROVE  {p \in Matching(t) : p.doc = r.id} = Chunks(r.id, r.chunks)
      BY DEF ReadyIsSearchable
    <2>1. r.id \in Docs /\ r = RowOf(r.id) /\ r.org = t.org /\ r.ws = t.ws
      BY DEF Listed, IInv, RowsInv, TypeOK, Row
    <2>2. /\ session[r.id].status = "ready" /\ session[r.id].chunks = r.chunks
          /\ form[r.id].org = t.org /\ form[r.id].ws = t.ws
      BY <2>1 DEF RowOf
    <2>3. Chunks(r.id, r.chunks) \subseteq {p \in Matching(t) : p.doc = r.id}
      BY <2>1, <2>2 DEF IInv, ReadyInv, Chunks, Matching
    <2>4. ASSUME NEW p \in Matching(t), p.doc = r.id
          PROVE  p \in Chunks(r.id, r.chunks)
      <3>1. /\ p \in Point
            /\ p.org = form[r.id].org /\ p.ws = form[r.id].ws /\ p.index \in 1..r.chunks
        BY <2>2, <2>4 DEF IInv, PointsInv, Matching, TypeOK
      <3>2. p = [doc |-> r.id, org |-> form[r.id].org, ws |-> form[r.id].ws, index |-> p.index]
        BY <2>4, <3>1 DEF Point
      <3>3. QED
        BY <3>1, <3>2 DEF Chunks
    <2>5. QED
      BY <2>3, <2>4
  <1>2. QED
    BY <1>1, InductiveInvariant, PTL

\* After a delete that was answered 204 neither the row nor a point of the
\* document exists, for ever, whatever else was running.
THEOREM DeletedDocumentsLeaveNothing == Spec => []DeletedLeavesNothing
  <1>1. IInv => DeletedLeavesNothing
    BY DEF IInv, DeletedLeavesNothing, PointsInv, RowsInv, DeleteInv
  <1>2. QED
    BY <1>1, InductiveInvariant, PTL

\* Only an upload between its upsert and its commit, or one that died or failed
\* there, has searchable chunks without a row.
THEOREM OrphansAreAbortedUploads == Spec => []OrphanOrigin
  <1>1. IInv => OrphanOrigin
    <2> SUFFICES ASSUME IInv, NEW p \in points, \A r \in documents : r.id # p.doc
                 PROVE  up[p.doc] \in {"stored", "error", "lost"}
      BY DEF OrphanOrigin
    <2>1. p.doc \in Docs /\ p.doc \notin deleted /\ up[p.doc] \in Settled \cup {"stored"}
      BY DEF IInv, PointsInv, DeleteInv, TypeOK, Point
    <2>2. RowOf(p.doc) \notin documents
      BY DEF RowOf
    <2>3. QED
      BY <2>1, <2>2 DEF IInv, UploadInv, Settled
  <1>2. QED
    BY <1>1, InductiveInvariant, PTL

\* A row without vectors is being deleted or survived a delete that failed.
THEOREM GhostsAreFailedDeletes == Spec => []GhostOrigin
  <1>1. IInv => GhostOrigin
    BY DEF IInv
  <1>2. QED
    BY <1>1, InductiveInvariant, PTL

\* No temporary file outlives ingest_file: one that is left was never given to it,
\* because the body could not be read, or was lost with the process.
THEOREM FilesAreRemoved == Spec => []TempFilesRemoved
  <1> USE DEF UpPending
  <1>1. Init => TempFilesRemoved
    BY DEF Init, TempFilesRemoved
  <1>2. TypeOK /\ TempFilesRemoved /\ [Next]_vars => TempFilesRemoved'
    <2> SUFFICES ASSUME TypeOK, TempFilesRemoved, [Next]_vars
                 PROVE  TempFilesRemoved'
      OBVIOUS
    <2> USE DEF TempFilesRemoved
    <2>0. up \in [Docs -> {"idle"} \cup UpPending \cup UpOver] /\ tmp \subseteq Docs
      BY DEF TypeOK
    <2>1. ASSUME NEW d \in Docs, StartUpload(d) \/ RefuseUpload(d) \/ ReadFails(d) \/ FlushDocument(d)
          PROVE  TempFilesRemoved'
      BY <2>0, <2>1 DEF StartUpload, RefuseUpload, ReadFails, FlushDocument
    <2>2. ASSUME NEW d \in Docs, ParseFails(d) \/ RefreshDocument(d) \/ UploadSqlFails(d)
          PROVE  TempFilesRemoved'
      BY <2>0, <2>2 DEF ParseFails, RefreshDocument, UploadSqlFails
    <2>3. ASSUME NEW d \in Docs, StoreChunks(d) \/ CommitDocument(d) \/ SendNotice(d) \/ CommitNotice(d)
          PROVE  TempFilesRemoved'
      BY <2>0, <2>3 DEF StoreChunks, CommitDocument, SendNotice, CommitNotice
    <2>4. ASSUME Crash
          PROVE  TempFilesRemoved'
      BY <2>0, <2>4 DEF Crash, TypeOK
    <2>5. CASE UNCHANGED <<up, tmp>>
      BY <2>5
    <2>6. QED
      BY <2>1, <2>2, <2>3, <2>4, <2>5 DEF Next, UploadStep, DeleteStep, LookupDocument, PurgeVectors,
         PurgeFails, RemoveRow, DeleteSqlFails, Search, SearchRefused, Quiet, vars
  <1>3. QED
    BY <1>1, <1>2, TypeCorrect, PTL DEF Spec

\* A delete that was not refused is of the organization of its document.
OwnDelete(x) == target[x] = [org |-> form[target[x].doc].org, doc |-> target[x].doc]

DeletersInv ==
  /\ \A x \in Deletes : del[x] \in DelPending => OwnDelete(x)
  /\ TenantIsolation

\* A search returns, and a delete empties, what is in the caller's tenant: the
\* points carry the tenant of their upload and the rows its organization.
THEOREM TenantsAreIsolated == Spec => []TenantIsolation
  <1> USE DEF DelPending, DelOver
  <1>1. Init => DeletersInv
    BY DEF Init, DeletersInv, TenantIsolation, OwnDelete
  <1>2. IInv /\ DeletersInv /\ [Next]_vars => DeletersInv'
    <2> SUFFICES ASSUME IInv, DeletersInv, [Next]_vars
                 PROVE  DeletersInv'
      OBVIOUS
    <2>0. /\ form \in [Docs -> Tenant] /\ target \in [Deletes -> Deletion]
          /\ query \in [Searches -> Tenant] /\ hits \in [Searches -> SUBSET Docs]
          /\ del \in [Deletes -> {"idle"} \cup DelPending \cup DelOver]
          /\ UNCHANGED <<form, target, query>>
      <3>1. UNCHANGED <<form, target, query>>
        BY DEF Next, UploadStep, DeleteStep, StartUpload, RefuseUpload, ReadFails, ParseFails,
           FlushDocument, StoreChunks, CommitDocument, RefreshDocument, SendNotice, CommitNotice,
           UploadSqlFails, LookupDocument, PurgeVectors, PurgeFails, RemoveRow, DeleteSqlFails,
           Search, SearchRefused, Crash, Quiet, vars, fixed
      <3>2. QED
        BY <3>1 DEF IInv, TypeOK
    <2>1. /\ \A x \in Deletes : del[x] \in DelPending => OwnDelete(x)
          /\ \A q \in Searches : \A d \in hits[q] : form[d] = query[q]
          /\ \A d \in purged : \E x \in Deletes :
               target[x] = [org |-> form[d].org, doc |-> d] /\ del[x] \in DelPending \cup DelOver
      BY DEF DeletersInv, TenantIsolation
    <2> DEFINE Pend == \A x \in Deletes : del'[x] \in DelPending => OwnDelete(x)
               Hits == \A q \in Searches : \A d \in hits'[q] : form[d] = query[q]
               Gone == \A d \in purged' : \E x \in Deletes :
                         /\ target[x] = [org |-> form[d].org, doc |-> d]
                         /\ del'[x] \in DelPending \cup DelOver
    <2> SUFFICES Pend /\ Hits /\ Gone
      BY <2>0 DEF DeletersInv, TenantIsolation, OwnDelete
    <2>2. ASSUME NEW x \in Deletes, LookupDocument(x)
          PROVE  Pend /\ Hits /\ Gone
      <3>1. /\ del[x] = "idle" /\ UNCHANGED <<hits, purged>>
            /\ del'[x] \in {"found", "notfound"}
            /\ \A y \in Deletes \ {x} : del'[y] = del[y]
        BY <2>0, <2>2 DEF LookupDocument, answers, qdrant
      <3>2. ASSUME del'[x] = "found" PROVE OwnDelete(x)
        <4>1. PICK r \in documents : r.id = target[x].doc /\ r.org = target[x].org
          BY <2>0, <2>2, <3>2 DEF LookupDocument
        <4>2. r.org = form[target[x].doc].org
          BY <4>1 DEF IInv, RowsInv, RowOf
        <4>3. target[x] \in Deletion
          BY <2>0
        <4>4. QED
          BY <4>1, <4>2, <4>3 DEF OwnDelete, Deletion
      <3>3. QED
        BY <2>1, <3>1, <3>2
    <2>3. ASSUME NEW x \in Deletes, PurgeVectors(x) \/ PurgeFails(x)
          PROVE  Pend /\ Hits /\ Gone
      <3>1. /\ del[x] = "found" /\ del'[x] \in {"purged", "error"} /\ hits' = hits
            /\ purged' \subseteq purged \cup {target[x].doc}
            /\ \A y \in Deletes \ {x} : del'[y] = del[y]
        BY <2>0, <2>3 DEF PurgeVectors, PurgeFails, answers
      <3>2. target[x] = [org |-> form[target[x].doc].org, doc |-> target[x].doc]
        BY <2>1, <3>1 DEF OwnDelete
      <3>3. Pend /\ Hits
        BY <2>1, <3>1, <3>2 DEF OwnDelete
      <3>4. Gone
        BY <2>1, <3>1, <3>2
      <3>5. QED
        BY <3>3, <3>4
    <2>4. ASSUME NEW x \in Deletes, RemoveRow(x) \/ DeleteSqlFails(x)
          PROVE  Pend /\ Hits /\ Gone
      <3>1. /\ del[x] = "purged" /\ del'[x] \in {"done", "error"} /\ UNCHANGED <<hits, purged>>
            /\ \A y \in Deletes \ {x} : del'[y] = del[y]
        BY <2>0, <2>4 DEF RemoveRow, DeleteSqlFails, answers, qdrant
      <3>2. QED
        BY <2>1, <3>1
    <2>5. ASSUME NEW q \in Searches, Search(q)
          PROVE  Pend /\ Hits /\ Gone
      <3>1. /\ UNCHANGED <<del, purged>> /\ \A s \in Searches \ {q} : hits'[s] = hits[s]
            /\ \E S \in SUBSET Matching(query[q]) : hits'[q] = {p.doc : p \in S}
        BY <2>0, <2>5 DEF Search, qdrant
      <3>2. ASSUME NEW p \in Matching(query[q]) PROVE form[p.doc] = query[q]
        <4>1. p.doc \in Docs /\ form[p.doc].org = query[q].org /\ form[p.doc].ws = query[q].ws
          BY <3>2 DEF Matching, IInv, PointsInv, TypeOK, Point
        <4>2. form[p.doc] \in Tenant /\ query[q] \in Tenant
          BY <2>0, <4>1
        <4>3. QED
          BY <4>1, <4>2 DEF Tenant
      <3>3. QED
        BY <2>1, <3>1, <3>2
    <2>6. ASSUME Crash
          PROVE  Pend /\ Hits /\ Gone
      <3>1. /\ UNCHANGED <<hits, purged>>
            /\ \A x \in Deletes : del'[x] = IF del[x] \in DelPending THEN "lost" ELSE del[x]
        BY <2>6 DEF Crash, answers, qdrant
      <3>2. QED
        BY <2>1, <3>1
    <2>7. CASE UNCHANGED <<del, hits, purged>>
      BY <2>1, <2>7
    <2>8. QED
      BY <2>2, <2>3, <2>4, <2>5, <2>6, <2>7 DEF Next, UploadStep, DeleteStep, StartUpload,
         RefuseUpload, ReadFails, ParseFails, FlushDocument, StoreChunks, CommitDocument,
         RefreshDocument, SendNotice, CommitNotice, UploadSqlFails, SearchRefused, Quiet, vars,
         answers, qdrant
  <1>3. DeletersInv => TenantIsolation
    BY DEF DeletersInv
  <1>4. QED
    BY <1>1, <1>2, <1>3, InductiveInvariant, PTL DEF Spec

\* No notification, in the feed or outside, precedes the commit of its row.
THEOREM NoticesFollowRows == Spec => []NoticeFollowsRow
  <1> USE DEF NoticeFollowsRow
  <1>1. Init => NoticeFollowsRow
    BY DEF Init
  <1>2. IInv /\ NoticeFollowsRow /\ [Next]_vars => NoticeFollowsRow'
    <2> SUFFICES ASSUME IInv, NoticeFollowsRow, [Next]_vars,
                        NEW d \in sent' \cup {n.doc : n \in feed'}
                 PROVE  d \in deleted' \/ \E r \in documents' : r.id = d
      OBVIOUS
    <2>1. \/ d \in sent \cup {n.doc : n \in feed}
          \/ d \in Docs /\ up[d] \in {"refreshed", "notified"}
      BY DEF Next, UploadStep, DeleteStep, StartUpload, RefuseUpload, ReadFails, ParseFails,
             FlushDocument, StoreChunks, CommitDocument, RefreshDocument, SendNotice, CommitNotice,
             NoticeOf, UploadSqlFails, LookupDocument, PurgeVectors, PurgeFails, RemoveRow,
             DeleteSqlFails, Search, SearchRefused, Crash, Quiet, vars, notices
    <2>2. d \in deleted \/ \E r \in documents : r.id = d
      BY <2>1 DEF IInv, UploadInv, RowOf
    <2>3. \/ UNCHANGED sql
          \/ documents \subseteq documents' /\ deleted' = deleted
          \/ \E x \in Deletes : RemoveRow(x)
      BY DEF Next, UploadStep, DeleteStep, StartUpload, RefuseUpload, ReadFails, ParseFails,
             FlushDocument, StoreChunks, CommitDocument, RefreshDocument, SendNotice, CommitNotice,
             UploadSqlFails, LookupDocument, PurgeVectors, PurgeFails,
             DeleteSqlFails, Search, SearchRefused, Crash, Quiet, vars, sql
    <2>4. QED
      BY <2>2, <2>3 DEF sql, RemoveRow
  <1>3. QED
    BY <1>1, <1>2, InductiveInvariant, PTL DEF Spec

-----------------------------------------------------------------------------
(* The refinement.                                                          *)

\* Steps that leave the rows, the points and the sessions alone are not seen.
LEMMA SameView ==
  ASSUME UNCHANGED stores
  PROVE  UNCHANGED KB!vars
  BY DEF stores, KB!vars, entryBar, contentBar, entryOf, contentOf

\* The flush of the PROCESSING row is not seen: it is not committed.
LEMMA FlushView ==
  ASSUME IInv, NEW d \in Docs, FlushDocument(d)
  PROVE  UNCHANGED KB!vars
  <1>1. \A r \in documents : r.id # d
    BY DEF IInv, RowsInv, FlushDocument, Settled
  <1>2. \A e \in Docs : entryOf(e)' = entryOf(e) /\ contentOf(e)' = contentOf(e)
    BY <1>1 DEF entryOf, contentOf, FlushDocument, sql, qdrant, IInv, TypeOK
  <1>3. QED
    BY <1>2 DEF KB!vars, entryBar, contentBar

\* The try block indexes the content, or leaves it as it was.
LEMMA StoreView ==
  ASSUME IInv, NEW d \in Docs, StoreChunks(d)
  PROVE  KB!Index(d) \/ UNCHANGED KB!vars
  <1> USE DEF StoreChunks, sql
  <1>1. /\ \A r \in documents : r.id # d
        /\ \A p \in points : p.doc # d
        /\ d \notin purged /\ d \notin deleted
    BY DEF IInv, RowsInv, PointsInv, DeleteInv, TypeOK, Settled
  <1>2. \A e \in Docs \ {d} : session'[e] = session[e]
    BY DEF IInv, TypeOK, IndexReady, IndexFailed
  <1>3. \A e \in Docs : entryOf(e)' = entryOf(e)
    BY <1>1, <1>2 DEF entryOf
  <1>4. points \subseteq points' /\ \A p \in points' \ points : p.doc = d
    BY DEF IndexReady, IndexFailed, Chunks
  <1>5. \A e \in Docs \ {d} : contentOf(e)' = contentOf(e)
    BY <1>4 DEF contentOf
  <1>6. entryOf(d) = "absent" /\ contentOf(d) = "none"
    BY <1>1 DEF entryOf, contentOf
  <1>7. contentOf(d)' \in {"none", "indexed"}
    BY <1>1 DEF contentOf
  <1>8. entryBar' = entryBar
    BY <1>3 DEF entryBar
  <1>9. CASE contentOf(d)' = "none"
    <2>1. contentBar' = contentBar
      BY <1>5, <1>6, <1>9 DEF contentBar
    <2>2. QED
      BY <1>8, <2>1 DEF KB!vars
  <1>10. CASE contentOf(d)' = "indexed"
    <2>1. contentBar' = [contentBar EXCEPT ![d] = "indexed"]
      BY <1>5, <1>10 DEF contentBar
    <2>2. entryBar[d] = "absent" /\ contentBar[d] = "none"
      BY <1>6 DEF entryBar, contentBar
    <2>3. QED
      BY <1>8, <2>1, <2>2 DEF KB!Index
  <1>11. QED
    BY <1>7, <1>9, <1>10

\* The commit publishes the document in its final status.
LEMMA CommitView ==
  ASSUME IInv, NEW d \in Docs, CommitDocument(d)
  PROVE  KB!Publish(d)
  <1> USE DEF CommitDocument, qdrant
  <1>1. /\ \A r \in documents : r.id # d
        /\ d \notin purged /\ d \notin deleted
        /\ session[d].status \in {"ready", "failed"}
    BY DEF IInv, RowsInv, DeleteInv, UploadInv, TypeOK, Settled, Status
  <1>2. RowOf(d) \in documents' /\ RowOf(d).id = d
    BY DEF RowOf
  <1>3. \A e \in Docs \ {d} : entryOf(e)' = entryOf(e)
    BY <1>2 DEF entryOf
  <1>4. \A e \in Docs : contentOf(e)' = contentOf(e)
    BY DEF contentOf
  <1>5. entryOf(d) = "absent"
    BY <1>1 DEF entryOf
  <1>6. entryOf(d)' \in KB!Visible
    BY <1>1, <1>2 DEF entryOf, KB!Visible
  <1>7. contentOf(d) # "purged"
    BY <1>1 DEF contentOf
  <1>8. entryOf(d)' = "ready" => contentOf(d) = "indexed"
    <2> SUFFICES ASSUME entryOf(d)' = "ready"
                 PROVE  \E p \in points : p.doc = d
      BY <1>1 DEF contentOf
    <2>1. session[d].status = "ready" /\ session[d].chunks # 0
      BY <1>1, <1>2 DEF entryOf
    <2>2. session[d].chunks \in Nat
      BY BoundsAssumption DEF IInv, TypeOK
    <2>3. [doc |-> d, org |-> form[d].org, ws |-> form[d].ws, index |-> 1]
            \in Chunks(d, session[d].chunks)
      BY <2>1, <2>2 DEF Chunks
    <2>4. QED
      BY <1>1, <2>1, <2>3 DEF IInv, ReadyInv
  <1>9. entryOf(d)' = "empty" => contentOf(d) = "none"
    <2> SUFFICES ASSUME entryOf(d)' = "empty", NEW p \in points, p.doc = d
                 PROVE  FALSE
      BY <1>1 DEF contentOf
    <2>1. session[d].status = "ready" /\ session[d].chunks = 0
      BY <1>1, <1>2 DEF entryOf
    <2>2. QED
      BY <2>1 DEF IInv, PointsInv
  <1>10. entryBar' = [entryBar EXCEPT ![d] = entryOf(d)']
    BY <1>3 DEF entryBar
  <1>11. contentBar' = contentBar
    BY <1>4 DEF contentBar
  <1>12. entryBar[d] = entryOf(d) /\ contentBar[d] = contentOf(d)
    BY DEF entryBar, contentBar
  <1>13. QED
    BY <1>5, <1>6, <1>7, <1>8, <1>9, <1>10, <1>11, <1>12 DEF KB!Publish

\* A delete takes out the content of a document the library shows, or of one
\* that another delete has removed, which nobody sees.
LEMMA PurgeView ==
  ASSUME IInv, NEW x \in Deletes, del[x] = "found", NEW d \in Docs, d = target[x].doc,
         UNCHANGED <<session, documents, deleted>>,
         points' = Without(d), purged' = purged \cup {d}
  PROVE  KB!Purge(d) \/ UNCHANGED KB!vars
  <1>2. \A e \in Docs : entryOf(e)' = entryOf(e)
    BY DEF entryOf
  <1>3. entryBar' = entryBar
    BY <1>2 DEF entryBar
  <1>4. \A e \in Docs \ {d} : contentOf(e)' = contentOf(e)
    BY DEF contentOf, Without
  <1>5. contentOf(d)' = "purged"
    BY DEF contentOf
  <1>6. CASE d \in deleted
    <2>1. contentOf(d) = "purged"
      BY <1>6 DEF contentOf, IInv, DeleteInv
    <2>2. contentBar' = contentBar
      BY <1>4, <1>5, <2>1 DEF contentBar
    <2>3. QED
      BY <1>3, <2>2 DEF KB!vars
  <1>7. CASE d \notin deleted
    <2>1. RowOf(d) \in documents /\ RowOf(d).id = d
      BY <1>7 DEF IInv, DeleteInv, RowOf, DelPending
    <2>2. entryOf(d) \in KB!Visible
      BY <1>7, <2>1 DEF entryOf, KB!Visible
    <2>3. contentBar' = [contentBar EXCEPT ![d] = "purged"]
      BY <1>4, <1>5 DEF contentBar
    <2>4. QED
      BY <1>3, <2>2, <2>3 DEF KB!Purge, entryBar
  <1>8. QED
    BY <1>6, <1>7

\* A delete removes the entry after the content.
LEMMA RemoveView ==
  ASSUME IInv, NEW x \in Deletes, RemoveRow(x), NEW d \in Docs, d = target[x].doc
  PROVE  KB!Remove(d) \/ UNCHANGED KB!vars
  <1> USE DEF RemoveRow, fixed, qdrant
  <1>1. d \in purged
    BY DEF IInv, DeleteInv
  <1>2. \A e \in Docs : contentOf(e)' = contentOf(e)
    BY DEF contentOf
  <1>3. contentBar' = contentBar
    BY <1>2 DEF contentBar
  <1>4. \A e \in Docs \ {d} : entryOf(e)' = entryOf(e)
    BY DEF entryOf
  <1>5. entryOf(d)' = "deleted"
    BY DEF entryOf
  <1>6. CASE d \in deleted
    <2>1. entryBar' = entryBar
      BY <1>4, <1>5, <1>6 DEF entryBar, entryOf
    <2>2. QED
      BY <1>3, <2>1 DEF KB!vars
  <1>7. CASE d \notin deleted
    <2>1. RowOf(d) \in documents /\ RowOf(d).id = d
      BY <1>7 DEF IInv, DeleteInv, DelPending, RowOf
    <2>2. entryOf(d) \in KB!Visible
      BY <1>7, <2>1 DEF entryOf, KB!Visible
    <2>3. contentOf(d) = "purged"
      BY <1>1 DEF contentOf
    <2>4. entryBar' = [entryBar EXCEPT ![d] = "deleted"]
      BY <1>4, <1>5 DEF entryBar
    <2>5. QED
      BY <1>3, <2>2, <2>3, <2>4 DEF KB!Remove, entryBar, contentBar
  <1>8. QED
    BY <1>6, <1>7

\* Every step of the handlers is a step of the knowledge base or is not seen.
LEMMA NextView == IInv /\ [Next]_vars => [KB!Next]_(KB!vars)
  <1> SUFFICES ASSUME IInv, [Next]_vars
               PROVE  KB!Next \/ UNCHANGED KB!vars
    OBVIOUS
  <1> USE DEF KB!Next
  <1>1. CASE UNCHANGED vars
    BY <1>1, SameView DEF vars, stores
  <1>2. ASSUME NEW d \in Docs, StartUpload(d) \/ RefuseUpload(d) \/ UploadStep(d)
        PROVE  KB!Next \/ UNCHANGED KB!vars
    <2>1. CASE FlushDocument(d) \/ StoreChunks(d) \/ CommitDocument(d)
      BY <2>1, FlushView, StoreView, CommitView
    <2>2. CASE ~(FlushDocument(d) \/ StoreChunks(d) \/ CommitDocument(d))
      <3>1. UNCHANGED stores
        BY <1>2, <2>2
           DEF UploadStep, StartUpload, RefuseUpload, ReadFails, ParseFails, RefreshDocument,
               SendNotice, CommitNotice, UploadSqlFails, fixed, sql, qdrant, stores
      <3>2. QED
        BY <3>1, SameView
    <2>3. QED
      BY <2>1, <2>2
  <1>3. ASSUME NEW x \in Deletes, LookupDocument(x) \/ DeleteStep(x)
        PROVE  KB!Next \/ UNCHANGED KB!vars
    <2>1. PICK d \in Docs : d = target[x].doc
      BY DEF IInv, TypeOK, Deletion
    <2>2. CASE RemoveRow(x)
      BY <2>1, <2>2, RemoveView
    <2>3. CASE PurgeVectors(x)
      BY <2>1, <2>3, PurgeView DEF PurgeVectors, sql
    <2>4. CASE PurgeFails(x)
      BY <2>1, <2>4, PurgeView, SameView DEF PurgeFails, sql, fixed, stores
    <2>5. CASE LookupDocument(x) \/ DeleteSqlFails(x)
      BY <2>5, SameView DEF LookupDocument, DeleteSqlFails, sql, qdrant, fixed, stores
    <2>6. QED
      BY <1>3, <2>2, <2>3, <2>4, <2>5 DEF DeleteStep
  <1>4. ASSUME NEW q \in Searches, Search(q) \/ SearchRefused(q)
        PROVE  UNCHANGED KB!vars
    BY <1>4, SameView DEF Search, SearchRefused, fixed, sql, qdrant, stores
  <1>5. CASE Crash
    BY <1>5, SameView DEF Crash, sql, qdrant, stores
  <1>6. QED
    BY <1>1, <1>2, <1>3, <1>4, <1>5 DEF Next, Quiet

\* Through the listing and the vectors the handlers implement KnowledgeBase: a
\* document is published with its content in place, loses content before entry,
\* and never comes back.
THEOREM Refinement == Spec => ImplementsKnowledgeBase
  <1>1. Init => KB!Init
    BY DEF Init, KB!Init, entryBar, contentBar, entryOf, contentOf
  <1>2. QED
    BY <1>1, NextView, InductiveInvariant, PTL DEF Spec, ImplementsKnowledgeBase, KB!Spec
=============================================================================
