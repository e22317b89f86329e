------------------------------ MODULE Ingestion ------------------------------
(***************************************************************************)
(* Document ingestion, listing, search and deletion: the handlers of       *)
(* app/api/routers/documents.py over app/services/ingestion_service.py,    *)
(* the SQL table `documents` and the vector collection of                  *)
(* app/vectorstore/qdrant_store.py.                                        *)
(*                                                                         *)
(* A handler is a coroutine: it runs without interruption up to its next   *)
(* `await`, so one action is one such stretch.  The SQL rows are written   *)
(* by one transaction, the vectors by a call to another server that no     *)
(* transaction covers.                                                     *)
(***************************************************************************)
EXTENDS Naturals, FiniteSets

CONSTANTS
  Docs,          \* ids of the documents that uploads create (uuid4, never reused)
  Deletes,       \* DELETE requests
  Searches,      \* search requests
  Orgs, Workspaces,
  WsOrg,         \* the organization that owns each workspace
  Dims,          \* vector sizes an embedder can have
  NoCollection,  \* the collection does not exist
  MaxChunks,     \* bound: chunks of one document
  MaxLimit,      \* bound: `limit` of one search
  MaxCrashes,    \* bound: process deaths
  Faults         \* the failures that may happen, see FaultKind

FaultKind == {"read", "parse", "chunker", "qdrant", "sql"}

ASSUME WsOrgAssumption == WsOrg \in [Workspaces -> Orgs]
ASSUME BoundsAssumption == MaxChunks \in Nat /\ MaxLimit \in Nat /\ MaxCrashes \in Nat
ASSUME NoCollectionAssumption == NoCollection \notin Dims
ASSUME FaultsAssumption == Faults \subseteq FaultKind

VARIABLES
  form,        \* organization of the caller and workspace of the path, per upload
  target,      \* organization of the caller and document, per delete
  query,       \* organization of the caller and workspace, per search
  up, del, qry, \* where each upload, delete and search is
  session,     \* the fields of the ORM object an upload holds before it commits
  documents,   \* committed rows of the table `documents`
  collection,  \* vector size of the collection, or NoCollection
  points,      \* points of the collection
  dim,         \* vector size of the running process' embedder
  tmp,         \* temporary files on disk, named by their upload
  feed,        \* committed rows of the table `notifications`
  sent,        \* uploads announced on the outbound channel
  hits,        \* documents each search returned
  crashes,
  purged,      \* history: documents whose vectors some delete removed
  deleted      \* history: documents whose row some delete removed

fixed    == <<form, target, query, dim, crashes>>   \* only a restart changes any of them
sql      == <<documents, deleted>>
qdrant   == <<collection, points, purged>>
notices  == <<feed, sent>>
answers  == <<qry, hits>>
vars == <<form, target, query, up, del, qry, session, documents, collection,
          points, dim, tmp, feed, sent, hits, crashes, purged, deleted>>

Tenant   == [org: Orgs, ws: Workspaces]
Deletion == [org: Orgs, doc: Docs]
Status   == {"processing", "ready", "failed"}
Row      == [id: Docs, org: Orgs, ws: Workspaces, status: Status, chunks: 0..MaxChunks]
Point    == [doc: Docs, org: Orgs, ws: Workspaces, index: 1..MaxChunks]
Notice   == [doc: Docs, org: Orgs, ws: Workspaces, chunks: 0..MaxChunks, level: {"success"}]

UpPending == {"spooled", "flushed", "stored", "committed", "refreshed", "notified"}
UpOver    == {"done", "rejected", "unread", "error", "lost"}
DelPending == {"found", "purged"}
DelOver    == {"done", "notfound", "error", "lost"}
QryOver    == {"done", "notfound", "error"}

TypeOK ==
  /\ form \in [Docs -> Tenant]
  /\ target \in [Deletes -> Deletion]
  /\ query \in [Searches -> Tenant]
  /\ up \in [Docs -> {"idle"} \cup UpPending \cup UpOver]
  /\ del \in [Deletes -> {"idle"} \cup DelPending \cup DelOver]
  /\ qry \in [Searches -> {"idle"} \cup QryOver]
  /\ session \in [Docs -> [status: Status, chunks: 0..MaxChunks]]
  /\ documents \subseteq Row
  /\ collection \in Dims \cup {NoCollection}
  /\ points \subseteq Point
  /\ dim \in Dims
  /\ tmp \subseteq Docs
  /\ feed \subseteq Notice
  /\ sent \subseteq Docs
  /\ hits \in [Searches -> SUBSET Docs]
  /\ crashes \in 0..MaxCrashes
  /\ purged \subseteq Docs
  /\ deleted \subseteq Docs

Init ==
  /\ form \in [Docs -> Tenant]
  /\ target \in [Deletes -> Deletion]
  /\ query \in [Searches -> Tenant]
  /\ up = [d \in Docs |-> "idle"]
  /\ del = [x \in Deletes |-> "idle"]
  /\ qry = [q \in Searches |-> "idle"]
  /\ session = [d \in Docs |-> [status |-> "processing", chunks |-> 0]]
  /\ documents = {}
  /\ collection = NoCollection
  /\ points = {}
  /\ dim \in Dims
  /\ tmp = {}
  /\ feed = {}
  /\ sent = {}
  /\ hits = [q \in Searches |-> {}]
  /\ crashes = 0
  /\ purged = {}
  /\ deleted = {}

-----------------------------------------------------------------------------
(* The two stores.                                                          *)

\* get_workspace(db, workspace_id, user.organization_id) finds the workspace.
RequireWorkspace(t) == WsOrg[t.ws] = t.org

\* The row of upload d as its session holds it.
RowOf(d) == [id |-> d, org |-> form[d].org, ws |-> form[d].ws,
             status |-> session[d].status, chunks |-> session[d].chunks]

\* (Wrong) chunks numbered from 0, as enumerate() would.
ChunksFromZero(d, n) ==
  {[doc |-> d, org |-> form[d].org, ws |-> form[d].ws, index |-> i] : i \in 0..n}

\* The points of the first n chunks of d, with the payload the chunks carry.
Chunks(d, n) == {[doc |-> d, org |-> form[d].org, ws |-> form[d].ws, index |-> i] : i \in 1..n}

\* ensure_collection: create the collection at the embedder's size, or keep it.
Ensured == IF collection = NoCollection THEN dim ELSE collection

\* The payload filter of a search by tenant t.
Matching(t) == {p \in points : p.org = t.org /\ p.ws = t.ws}

\* delete_by_document's filter: the points that remain.
Without(d) == {p \in points : p.doc # d}

\* list_documents.
Listed(t) == {r \in documents : r.org = t.org /\ r.ws = t.ws}

-----------------------------------------------------------------------------
(* Steps gone wrong, each the way a change of the code could: the property   *)
(* named with it refuses it.                                                *)

\* ReadyIsSearchable: the embedder returned a vector too few, and the
\* zip(..., strict=False) of upsert_chunks drops the last chunk.
IndexTruncated(d) ==
  \E n \in 1..MaxChunks :
    /\ Ensured = dim
    /\ collection' = Ensured
    /\ points' = points \cup Chunks(d, n - 1)
    /\ session' = [session EXCEPT ![d] = [status |-> "ready", chunks |-> n]]

\* DeletedLeavesNothing: commit the PROCESSING row at once, to show progress.
FlushAndCommit(d) ==
  /\ up[d] = "spooled"
  /\ up' = [up EXCEPT ![d] = "flushed"]
  /\ documents' = documents \cup {RowOf(d)}
  /\ UNCHANGED <<fixed, qdrant, notices, answers, del, session, tmp, deleted>>

\* NoticeFollowsRow: announce the document before the commit.
SendNoticeEarly(d) ==
  /\ up[d] = "stored" /\ d \notin sent
  /\ sent' = sent \cup {d}
  /\ UNCHANGED <<fixed, sql, qdrant, answers, up, del, session, tmp, feed>>

\* TempFilesRemoved: the removal follows the call instead of a `finally`, and an
\* exception of the session passes it by.
UploadSqlFailsAndLeaves(d) ==
  /\ up[d] \in UpPending \ {"flushed"}
  /\ "sql" \in Faults
  /\ up' = [up EXCEPT ![d] = "error"]
  /\ UNCHANGED <<fixed, sql, qdrant, notices, answers, del, session, tmp>>

\* RequestsAnswered: poll for the committed row instead of failing without it.
RefreshWaits(d) ==
  /\ up[d] = "committed"
  /\ RowOf(d) \in documents
  /\ up' = [up EXCEPT ![d] = "refreshed"]
  /\ tmp' = tmp \ {d}
  /\ UNCHANGED <<fixed, sql, qdrant, notices, answers, del, session>>

\* TenantIsolation: find the document whatever its organization.
LookupAnywhere(x) ==
  /\ del[x] = "idle"
  /\ del' = [del EXCEPT ![x] =
       IF \E r \in documents : r.id = target[x].doc THEN "found" ELSE "notfound"]
  /\ UNCHANGED <<fixed, sql, qdrant, notices, answers, up, session, tmp>>

\* OrphanOrigin: a filter that names a field the payload does not have.
PurgeNothing(x) ==
  /\ del[x] = "found"
  /\ collection # NoCollection
  /\ del' = [del EXCEPT ![x] = "purged"]
  /\ UNCHANGED <<fixed, sql, qdrant, notices, answers, up, session, tmp>>

\* GhostOrigin: the session is closed without a commit.
RemoveUncommitted(x) ==
  /\ del[x] = "purged"
  /\ del' = [del EXCEPT ![x] = "done"]
  /\ UNCHANGED <<fixed, sql, qdrant, notices, answers, up, session, tmp>>

\* ImplementsKnowledgeBase: the row first, then the vectors.
RemoveRowFirst(x) ==
  /\ del[x] = "found"
  /\ documents' = {r \in documents : r.id # target[x].doc}
  /\ deleted' = deleted \cup {target[x].doc}
  /\ UNCHANGED <<fixed, qdrant, notices, answers, up, del, session, tmp>>

-----------------------------------------------------------------------------
(* POST /workspaces/{workspace_id}/documents                                *)

\* The workspace and extension checks pass and the temporary file is created.
StartUpload(d) ==
  /\ up[d] = "idle"
  /\ RequireWorkspace(form[d])
  /\ up' = [up EXCEPT ![d] = "spooled"]
  /\ tmp' = tmp \cup {d}
  /\ UNCHANGED <<fixed, sql, qdrant, notices, answers, del, session>>

\* 404 for a workspace of another organization, 415 for an extension that no
\* parser has: before anything is created.
RefuseUpload(d) ==
  /\ up[d] = "idle"
  /\ ~RequireWorkspace(form[d]) \/ "parse" \in Faults
  /\ up' = [up EXCEPT ![d] = "rejected"]
  /\ UNCHANGED <<fixed, sql, qdrant, notices, answers, del, session, tmp>>

\* `await file.read()` raises: the file was created with delete=False and the
\* `try` that removes it has not been entered.  The client sees a 500; "unread"
\* is a position of its own so that no other failure is taken for this one.
ReadFails(d) ==
  /\ up[d] = "spooled"
  /\ "read" \in Faults
  /\ up' = [up EXCEPT ![d] = "unread"]
  /\ UNCHANGED <<fixed, sql, qdrant, notices, answers, del, session, tmp>>

\* A parser or the image describer raises: no row, the file is removed, a 500.
\* (The 415 of the handler is never reached: parse_file and is_image know every
\* extension that RefuseUpload lets through.)
ParseFails(d) ==
  /\ up[d] = "spooled"
  /\ "parse" \in Faults
  /\ up' = [up EXCEPT ![d] = "error"]
  /\ tmp' = tmp \ {d}
  /\ UNCHANGED <<fixed, sql, qdrant, notices, answers, del, session>>

\* Parse, clean, add the PROCESSING row and flush it into the open transaction.
FlushDocument(d) ==
  /\ up[d] = "spooled"
  /\ up' = [up EXCEPT ![d] = "flushed"]
  /\ session' = [session EXCEPT ![d] = [status |-> "processing", chunks |-> 0]]
  /\ UNCHANGED <<fixed, sql, qdrant, notices, answers, del, tmp>>

\* chunk, embed, ensure_collection and upsert all succeed.
IndexReady(d) ==
  \E n \in 0..MaxChunks :
    /\ n > 0 => Ensured = dim
    /\ collection' = Ensured
    /\ points' = points \cup Chunks(d, n)
    /\ session' = [session EXCEPT ![d] = [status |-> "ready", chunks |-> n]]

\* One of them raises and the handler records the failure in the object; the
\* vector store may have applied the call whose answer it failed to give.
IndexFailed(d) ==
  /\ session' = [session EXCEPT ![d].status = "failed"]
  /\ \/ /\ "chunker" \in Faults
        /\ UNCHANGED <<collection, points>>
     \/ /\ "qdrant" \in Faults
        /\ collection' \in {collection, Ensured}
        /\ UNCHANGED points
     \/ /\ "qdrant" \in Faults /\ Ensured = dim
        /\ collection' = Ensured
        /\ \E n \in 1..MaxChunks : points' = points \cup Chunks(d, n)
     \/ /\ Ensured # dim /\ MaxChunks > 0   \* chunks of the wrong vector size
        /\ collection' = Ensured
        /\ UNCHANGED points

\* The whole `try` block: no await, so no other handler runs in between.
StoreChunks(d) ==
  /\ up[d] = "flushed"
  /\ IndexReady(d) \/ IndexFailed(d)
  /\ up' = [up EXCEPT ![d] = "stored"]
  /\ UNCHANGED <<fixed, sql, notices, answers, del, tmp, purged>>

CommitDocument(d) ==
  /\ up[d] = "stored"
  /\ documents' = documents \cup {RowOf(d)}
  /\ up' = [up EXCEPT ![d] = "committed"]
  /\ UNCHANGED <<fixed, qdrant, notices, answers, del, session, tmp, deleted>>

\* `await db.refresh(document)`: raises when the row is gone.  Either way the
\* handler leaves ingest_file and removes the temporary file.
RefreshDocument(d) ==
  /\ up[d] = "committed"
  /\ up' = [up EXCEPT ![d] = IF RowOf(d) \in documents THEN "refreshed" ELSE "error"]
  /\ tmp' = tmp \ {d}
  /\ UNCHANGED <<fixed, sql, qdrant, notices, answers, del, session>>

\* notification_service.create: flush the record, then tell the outbound
\* channel, whose failures are suppressed.  With NOTIFICATIONS_ENABLED off it
\* returns at once and the commit that follows writes nothing.
SendNotice(d) ==
  /\ up[d] = "refreshed"
  /\ \/ /\ sent' \in {sent, sent \cup {d}}
        /\ up' = [up EXCEPT ![d] = "notified"]
     \/ /\ up' = [up EXCEPT ![d] = "done"]
        /\ UNCHANGED sent
  /\ UNCHANGED <<fixed, sql, qdrant, answers, del, session, tmp, feed>>

NoticeOf(d) == [doc |-> d, org |-> form[d].org, ws |-> form[d].ws,
                chunks |-> session[d].chunks, level |-> "success"]

CommitNotice(d) ==
  /\ up[d] = "notified"
  /\ feed' = feed \cup {NoticeOf(d)}
  /\ up' = [up EXCEPT ![d] = "done"]
  /\ UNCHANGED <<fixed, sql, qdrant, answers, del, session, tmp, sent>>

\* A flush, commit or refresh raises: the session rolls back what it has not
\* committed, the `finally` removes the file, the client sees a 500.  (A commit
\* that is applied but not acknowledged is CommitDocument and then this step.)
UploadSqlFails(d) ==
  /\ up[d] \in UpPending \ {"flushed"}
  /\ "sql" \in Faults
  /\ up' = [up EXCEPT ![d] = "error"]
  /\ tmp' = tmp \ {d}
  /\ UNCHANGED <<fixed, sql, qdrant, notices, answers, del, session>>

-----------------------------------------------------------------------------
(* DELETE /documents/{document_id}                                          *)

\* get_document filters on the caller's organization; 404 when there is none.
LookupDocument(x) ==
  /\ del[x] = "idle"
  /\ del' = [del EXCEPT ![x] =
       IF \E r \in documents : r.id = target[x].doc /\ r.org = target[x].org
         THEN "found" ELSE "notfound"]
  /\ UNCHANGED <<fixed, sql, qdrant, notices, answers, up, session, tmp>>

\* store.delete_by_document: the collection must exist.
PurgeVectors(x) ==
  /\ del[x] = "found"
  /\ collection # NoCollection
  /\ points' = Without(target[x].doc)
  /\ purged' = purged \cup {target[x].doc}
  /\ del' = [del EXCEPT ![x] = "purged"]
  /\ UNCHANGED <<fixed, sql, notices, answers, up, session, tmp, collection>>

\* There is no collection, or the vector store fails, before or after it has
\* applied the call: the handler stops here and the row stays.
PurgeFails(x) ==
  /\ del[x] = "found"
  /\ \/ /\ collection = NoCollection \/ "qdrant" \in Faults
        /\ UNCHANGED <<points, purged>>
     \/ /\ collection # NoCollection /\ "qdrant" \in Faults
        /\ points' = Without(target[x].doc)
        /\ purged' = purged \cup {target[x].doc}
  /\ del' = [del EXCEPT ![x] = "error"]
  /\ UNCHANGED <<fixed, sql, notices, answers, up, session, tmp, collection>>

\* db.delete and commit; deleting a row another request has already deleted is
\* a warning of the ORM, not an error.
RemoveRow(x) ==
  /\ del[x] = "purged"
  /\ documents' = {r \in documents : r.id # target[x].doc}
  /\ deleted' = deleted \cup {target[x].doc}
  /\ del' = [del EXCEPT ![x] = "done"]
  /\ UNCHANGED <<fixed, qdrant, notices, answers, up, session, tmp>>

\* The commit fails: the vectors are gone, the row is not.
DeleteSqlFails(x) ==
  /\ del[x] = "purged"
  /\ "sql" \in Faults
  /\ del' = [del EXCEPT ![x] = "error"]
  /\ UNCHANGED <<fixed, sql, qdrant, notices, answers, up, session, tmp>>

-----------------------------------------------------------------------------
(* POST /workspaces/{workspace_id}/search                                   *)

\* query_points returns the best `limit` points that match; which ones are the
\* best is left open.
Search(q) ==
  /\ qry[q] = "idle"
  /\ RequireWorkspace(query[q])
  /\ collection \in {dim, NoCollection}
  /\ \E limit \in 1..MaxLimit, S \in SUBSET Matching(query[q]) :
       /\ Cardinality(S) <= limit
       /\ Cardinality(S) < limit => S = Matching(query[q])
       /\ hits' = [hits EXCEPT ![q] = {p.doc : p \in S}]
  /\ qry' = [qry EXCEPT ![q] = "done"]
  /\ UNCHANGED <<fixed, sql, qdrant, notices, up, del, session, tmp>>

\* 404, or an error of the vector store, which a query vector of another size
\* than the collection's always is.
SearchRefused(q) ==
  /\ qry[q] = "idle"
  /\ \/ /\ ~RequireWorkspace(query[q])
        /\ qry' = [qry EXCEPT ![q] = "notfound"]
     \/ /\ RequireWorkspace(query[q])
        /\ "qdrant" \in Faults \/ collection \notin {dim, NoCollection}
        /\ qry' = [qry EXCEPT ![q] = "error"]
  /\ UNCHANGED <<fixed, sql, qdrant, notices, up, del, session, tmp, hits>>

-----------------------------------------------------------------------------
(* The process.                                                             *)

\* The server dies: requests in progress are never answered, their open
\* transactions roll back, both stores and the files stay.  It restarts with
\* the embedder its settings then name.
Crash ==
  /\ crashes < MaxCrashes
  /\ crashes' = crashes + 1
  /\ up' = [d \in Docs |-> IF up[d] \in UpPending THEN "lost" ELSE up[d]]
  /\ del' = [x \in Deletes |-> IF del[x] \in DelPending THEN "lost" ELSE del[x]]
  /\ dim' \in Dims
  /\ UNCHANGED <<sql, qdrant, notices, answers, session, tmp, form, target, query>>

\* Every request has been answered and no client sends another.
Quiet ==
  /\ \A d \in Docs : up[d] \in UpOver
  /\ \A x \in Deletes : del[x] \in DelOver
  /\ \A q \in Searches : qry[q] \in QryOver
  /\ UNCHANGED vars

UploadStep(d) ==
  \/ FlushDocument(d) \/ ReadFails(d) \/ ParseFails(d) \/ StoreChunks(d)
  \/ CommitDocument(d) \/ RefreshDocument(d) \/ SendNotice(d) \/ CommitNotice(d)
  \/ UploadSqlFails(d)

DeleteStep(x) == PurgeVectors(x) \/ PurgeFails(x) \/ RemoveRow(x) \/ DeleteSqlFails(x)

Next ==
  \/ \E d \in Docs : StartUpload(d) \/ RefuseUpload(d) \/ UploadStep(d)
  \/ \E x \in Deletes : LookupDocument(x) \/ DeleteStep(x)
  \/ \E q \in Searches : Search(q) \/ SearchRefused(q)
  \/ Crash
  \/ Quiet

Spec == Init /\ [][Next]_vars

\* What a handler does when the call it awaits returns.
UploadProgress(d) ==
  FlushDocument(d) \/ StoreChunks(d) \/ CommitDocument(d) \/ RefreshDocument(d)
    \/ SendNotice(d) \/ CommitNotice(d)
DeleteProgress(x) == PurgeVectors(x) \/ PurgeFails(x) \/ RemoveRow(x)

\* The event loop resumes every suspended handler: a pending call to the
\* database returns, or raises and ends the handler.  Nothing makes a client
\* send a request.
FairSpec ==
  /\ Spec
  /\ \A d \in Docs : WF_vars(UploadProgress(d))
  /\ \A x \in Deletes : WF_vars(DeleteProgress(x))

-----------------------------------------------------------------------------
(* Safety.                                                                  *)

\* What the library lists as READY, a search of the same workspace can reach,
\* all of it and with no chunk too many, until a delete removes its vectors:
\* the row and the vectors are written by two stores, in this order.
ReadyIsSearchable ==
  \A t \in Tenant : \A r \in Listed(t) :
    r.status = "ready" /\ r.id \notin purged =>
      {p \in Matching(t) : p.doc = r.id} = Chunks(r.id, r.chunks)

\* Once a delete has removed the row, no point of the document is left, and no
\* upload or delete still running puts one, or the row, back.
DeletedLeavesNothing ==
  \A d \in deleted :
    /\ \A p \in points : p.doc # d
    /\ \A r \in documents : r.id # d

\* A search can return chunks that no listing shows (ingest_file stores the
\* points before it commits the row), but only of an upload about to commit,
\* or of one that died or failed there.
OrphanOrigin ==
  \A p \in points :
    (\A r \in documents : r.id # p.doc) => up[p.doc] \in {"stored", "error", "lost"}

\* A row whose vectors are gone (delete_document empties the vector store
\* first) is being deleted right now, or a delete of it failed half way: no
\* delete that was answered 204 leaves one, nor does one that was refused.
GhostOrigin ==
  \A r \in documents : r.id \in purged =>
    \E x \in Deletes : target[x].doc = r.id /\ del[x] \in {"purged", "error", "lost"}

\* Searches return, and deletes empty, documents of the caller's tenant only.
TenantIsolation ==
  /\ \A q \in Searches : \A d \in hits[q] : form[d] = query[q]
  /\ \A d \in purged : \E x \in Deletes :
        target[x] = [org |-> form[d].org, doc |-> d] /\ del[x] \in DelPending \cup DelOver

\* Nobody is told of a document, in the feed or outside, before its row is
\* committed: ingest_file returns only after its commit and its refresh.
NoticeFollowsRow ==
  \A d \in sent \cup {n.doc : n \in feed} : d \in deleted \/ \E r \in documents : r.id = d

\* The temporary file of an upload is gone once ingest_file has ended, with a
\* document or with any failure of a parser or of the session, however the row
\* fared under a delete meanwhile.  A file stays behind only of an upload whose
\* process died or whose body could not be read.
TempFilesRemoved ==
  \A d \in tmp : up[d] \in {"spooled", "flushed", "stored", "committed", "lost", "unread"}

(* Liveness.                                                                *)

\* Every upload and delete that passes its first checks is answered, unless the
\* process dies: none waits for a row that another request has deleted.
RequestsAnswered ==
  /\ \A d \in Docs : up[d] = "spooled" ~> up[d] \in UpOver
  /\ \A x \in Deletes : del[x] = "found" ~> del[x] \in DelOver

(* What the program says of itself and does not do.                         *)

\* The feed announces as ready only documents that are.
NoticeIsTrue == \A n \in feed : \A r \in documents : r.id = n.doc => r.status = "ready"

\* A delete that found its document removes it.
FoundIsDeleted == \A x \in Deletes : del[x] # "error"

-----------------------------------------------------------------------------
(* The knowledge base a reader of the API expects, see KnowledgeBase.       *)

entryOf(d) ==
  IF d \in deleted THEN "deleted"
  ELSE IF \A r \in documents : r.id # d THEN "absent"
  ELSE IF session[d].status = "failed" THEN "failed"
  ELSE IF session[d].chunks = 0 THEN "empty" ELSE "ready"

contentOf(d) ==
  IF d \in purged THEN "purged"
  ELSE IF \A p \in points : p.doc # d THEN "none" ELSE "indexed"

entryBar   == [d \in Docs |-> entryOf(d)]
contentBar == [d \in Docs |-> contentOf(d)]

KB == INSTANCE KnowledgeBase WITH entry <- entryBar, content <- contentBar

\* Seen through the listing and the vectors, the handlers implement it.
ImplementsKnowledgeBase == KB!Spec
=============================================================================
