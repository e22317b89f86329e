# A verification project for the AI copilot

The repository is a multi-tenant "knowledge copilot": a FastAPI backend (`src/app`)
that ingests documents into a SQL database and a vector store, answers questions
over them with retrieval and agents, keeps conversations, memories, notifications
and a knowledge graph, and a React client (`src/frontend`). This directory holds
TLA+ modules that model it, TLC configurations that check them on small instances,
and proofs, checked by TLAPS, that the properties hold for every value of the
constants.

    tlc -config MCIngestion_races.cfg MCIngestion     # model-check one configuration
    tlapm IngestionProofs.tla                         # check the proofs of a component

`PROJECT.json` lists the components, the runs, the lines of the source each
definition stands for, the hazards, and, for every property, a plausible bug (a
definition under "Steps gone wrong", or marked "Gone wrong", in the module) that makes it fail.

## The system

How the code runs decides how it is modelled. A request handler is a coroutine on
one event loop: it runs without interruption up to its next `await`, and any other
handler may run there. Calls to the vector store, the embedder, the language model
and the agents are synchronous, so a stretch with many of them is still one step.
Every request has a session of its own (`db/base.py`); what it adds becomes visible
to others at `commit` and is rolled back if the handler raises. The vector store is
another server, which no transaction covers. Several client requests, of several
users and organizations, are in progress at once; the process may die at any point
and restart with other settings.

| Component | State | Operations | What is hard |
|---|---|---|---|
| Document ingestion (`services/ingestion_service.py`, `api/routers/documents.py`) | table `documents`, temporary files | upload, list, search, delete | two stores without a common transaction, deletes that race uploads, every failure between the two writes, restarts with another vector size |
| Vector store (`vectorstore/qdrant_store.py`) | collections of points | ensure_collection, upsert, search, fetch_all, delete_by_document | created on first use, fixed vector size, tenancy by payload filter only |
| Conversations (`api/routers/chat.py`, `services/chat_service.py`) | tables `conversations`, `messages` | chat, chat/stream, history, feedback | concurrent turns of one conversation, one commit per turn, memory read before others commit |
| Agent runs (`api/routers/agents.py`, `services/agent_service.py`) | table `agent_runs` | run, list, get | the same, with a window of history and an audit row |
| Agent memory (`memory/__init__.py`) | table `memory_items`, memory collection | remember, recall, list | the vector is written before the row commits |
| Usage events (`services/analytics_service.py`) | table `analytics_events` | record_event, the dashboard's summary | must agree with the turns; a summary is several queries, between which turns commit |
| Notifications (`services/notification_service.py`) | table `notifications` | create, list, count, mark read | outbound message before the commit, badge that polls |
| Knowledge graph (`graph/*`, `api/routers/graph.py`) | dictionaries in the process, or Neo4j | build, search, neighbors, query | never pruned, lost at a restart, bounded traversal, merging of nodes |
| Agents and orchestrator (`agents/*`) | none across requests | route, run, decline | fallbacks of the route, a run that is recorded although its agent declined |
| SQL agent (`agents/sql/*`) | sample database | draft, validate, run, retry | the guard, the second attempt, seeding by two first requests |
| Retrieval and reasoning (`rag/*`, `reasoning/*`) | none | fuse, rerank, cite, decompose, pool | ties and cuts of two rankings, limits on pooled evidence |
| Chunking (`chunking/chunkers.py`) | none | fixed, recursive, semantic, parent and child | sizes and overlaps at the edges of a page |
| Accounts and workspaces (`services/auth_service.py`, `services/workspace_service.py`, `core/security.py`) | tables `organizations`, `users`, `workspaces`, `workspace_memberships` | register, verify, login, refresh, create, invite, settings | check-then-insert races, lost updates |
| Singletons (`api/deps.py`, `embeddings/embedders.py`, `graph/factory.py`) | module globals | first use | construction from a thread pool |
| Client (`frontend/src`) | view state, tokens | sign in and out, switch workspace, send, open, new chat, attach, upload, remove, mark read, poll | answers that arrive in another order than they were asked for, to views that are gone, after another user signed in |

Components interact by calls within a request (an upload ends with a notice; a chat
turn writes messages and a usage event in one transaction; an agent run reads
memories and history), through the shared tables and collections (the graph is
built from the chunks the uploads stored; the agents' history is what chat turns
committed), and through the tenant check `workspace_service.get_workspace` that
stands in front of every workspace route.

What makes each component correct: documents are found exactly when the library
shows them ready, and not otherwise except for the named windows of failure; turns
are whole, ordered and in their tenant, and the records agree; memories can be
recalled exactly when they are listed; the graph's answers are the facts
within reach of what was asked; registration and membership stay unique; a first
request gets its singletons whole; every word of a page is in a chunk and the passages
both rankings prefer are the ones cited; the client shows the conversation it would
write to and the documents of the workspace it names.

## Modules

| Module | Models | Checked by |
|---|---|---|
| `Ingestion` | upload, delete, list, search, process restarts | `MCIngestion` + 4 configurations |
| `KnowledgeBase` | abstract: what ingestion promises of one document | refinement in `MCIngestion_races.cfg` |
| `IngestionProofs` | theorems of `Ingestion` | TLAPS |
| `Conversations` | chat turns, agent turns, feedback | `MCConversations` |
| `TurnLog` | abstract: what the chat history promises | refinement in `MCConversations.cfg` |
| `Dashboard` | the summary of a workspace, beside the turns of `Conversations` | `MCConversations` |
| `ConversationsProofs` | theorems of `Conversations` and `Dashboard` | TLAPS |
| `KnowledgeGraph` | builds, queries, both backends, restarts | `MCKnowledgeGraph` + 3 configurations |
| `KnowledgeGraphProofs` | theorems of `KnowledgeGraph` | TLAPS |
| `Accounts` | registration, verification, workspaces, invitations, settings | `MCAccounts` |
| `AccountsProofs` | theorems of `Accounts` | TLAPS |
| `Session`, `ChatView`, `LibraryView`, `NotificationBell` | the parts of the browser client | in `Client` |
| `Client` | composes the four by what `App` renders | `MCClient` |
| `ClientProofs` | theorems of `Client` and its parts | TLAPS |
| `Resources`, `AgentMemory`, `SqlAgent` | singletons, long-term memory, the SQL agent's loop | in `Agents` |
| `Agents` | composes the three: agent runs from their dependencies to their record | `MCAgents` |
| `AgentsProofs` | theorems of `Resources` and `Agents` | TLAPS |
| `Packing`, `Chunking` | from a page to its chunks | in `Rag` |
| `Answering` | from a question to its citations | in `Rag` |
| `Rag` | composes both: questions about the chunks of a page | `MCRag` |
| `RagProofs` | theorems of `Rag` and its parts | TLAPS |
| `LeastElement` | a lemma of several proofs: a set of numbers has a least one | TLAPS |

### Ingestion

A request has a position (`up`, `del`, `qry`) that says at which `await` it is.
`StartUpload` .. `CommitNotice` are the stretches of `upload_document` and
`ingest_file`, in order: spool to a temporary file, parse and flush the PROCESSING
row, the `try` block (chunk, embed, create the collection if there is none, upsert;
one step, as nothing in it awaits), commit, refresh, then the notice with its
outbound message before its own commit. `session` is the ORM object, `documents`
the committed rows, `points` the collection, whose vector size is `collection`;
`feed` and `sent` are the notices recorded and sent out. `LookupDocument`,
`PurgeVectors` and `RemoveRow` are `delete_document`: vectors first, then the row.
`Faults` names the failures an instance allows: reading the body, parsing,
chunking or embedding, the vector store (before or after it applied a call), the
database (any flush, commit or refresh; a commit that is applied but not
acknowledged is the commit step followed by the failure). `Crash` drops every open
request and restarts with any vector size. `purged` and `deleted` are history
variables. Content, scores and names are abstracted: a chunk is its document, its
tenant and its number; a search returns any best `limit` matches. With
NOTIFICATIONS_ENABLED off `SendNotice` ends the request, as the commit after it has
nothing to write. An exception of a parser is a 500 here like any other: the 415 of the
handler is for extensions that `RefuseUpload` has already stopped.

A body that cannot be read has a position of its own, `unread`: the copy into the
temporary file comes before the `try` whose `finally` removes it, so this is the one
failure, beside the death of the process (`lost`), that leaves a file.
`TempFilesRemoved` allows the file of an upload that is still in `ingest_file`, `unread` or
`lost`; after an `error`, from whatever call, it must be gone.

Main properties: a READY row is searchable in full (`ReadyIsSearchable`), a deleted
document leaves nothing and never comes back (`DeletedLeavesNothing`), points
without a row and rows without points occur only where the order of the two writes
allows it (`OrphanOrigin`, `GhostOrigin`), notices follow rows
(`NoticeFollowsRow`), tenants stay apart (`TenantIsolation`), files go
(`TempFilesRemoved`), requests are answered (`RequestsAnswered`), and the whole
implements `KnowledgeBase`, where entry and content of a document are two
registers that only move forward.

Two things the repository says of itself are violated, each by a run of its own:

- `NoticeIsTrue` (`ing_notice`): an upload whose chunking or embedding raises is
  stored as FAILED, and announced as ready all the same.
- `FoundIsDeleted` (`ing_delete`): if the only document so far failed before the
  collection was created, deleting it asks a collection that does not exist,
  raises, and the row stays.

### Conversations

A turn is a request to `/chat` or `/agents/run`. `Open` resolves or creates the
conversation (`Start`, `Resume`, and `Attach` for agent runs without persisted
history, which take the id as given); `ReadHistory` reads the memory the answer is
made from; `FlushQuestion` and `FlushAnswer` give the two messages their
`created_at`; `Commit` publishes everything the turn wrote; `Fail` is any exception
before that, and the death of the process (every open turn fails). `mode` says what
the turn writes: a full turn, a prompt the guard blocked (written by `/chat`, without
a usage event), or an agent run without history. `Refuse` stands for every 400/404
before something is written, the workspace check included. A conversation is named
by the turn that began it. `Rate` is the feedback route. `/chat/stream` writes
nothing to the tables, so it has no action. `earlier` is a history variable: the
turns that were answered before this one was sent.

`created_at` is taken from the wall clock at each flush and assumed to grow from
one flush to the next; a clock that is set back breaks `TranscriptRespectsOrder` in
the program too. `Attach` may name a conversation that does not exist: PostgreSQL
refuses the run's foreign key at commit (`Fail`), SQLite as configured here does
not, and both outcomes are allowed.

Main properties: `TurnsAreWhole`, `NoEmptyConversation`, `MessagesKeepTenant`,
`HistoryIsWhole` (a chat turn never reads half of another one), `FollowUpRemembers`
(a turn answered before another of its conversation was sent is in that one's
memory, up to the agents' window), `TranscriptRespectsOrder`,
`RecordsMatchTranscript`, and the refinement of `TurnLog`. The agents' window counts
messages, so `HistoryIsWhole` is stated of chat turns only: a window of three
messages does cut a turn in half, and the model shows it.

`MessagesKeepTenant` is about what is written. What is read is not covered: an agent run
without persisted history takes any conversation id and reads its messages as memory
(`api/routers/agents.py:104-119`), of another organization too. `Attach` followed by
`ReadHistory` does that in the model as well, and no property speaks of it.

### Dashboard

`Dashboard` extends `Conversations` with one reader. `AskSummary` is the route up to the
workspace it has found, `Query` the next of the queries of `build_summary`, in their
order (`Counted`): each is an `await`, so turns commit in between (`Turn`), and each sees
what is committed then. `sentTo` is the workspace of a turn; a conversation stays in the
one it was begun in, although a turn sent to another may continue it. A figure that is a
list of counts is modelled by their sum, an aggregate by the number of its rows. `deep`
are the chat turns that ask for deep research: the usage event they record is of another
type than `chat`, and `OwnEvents`, the events a summary counts, drops it. `before` is a history variable: what all the queries would have said when the summary
was asked for.

`SummaryAddsUp`: each figure lies between what there was when the summary was asked for
and what there is when it is shown, and figures that belong together agree in the
direction that the order of the queries allows: no more conversations than questions, no
more answers than questions, parts that are no less than the sums counted before them; and
if nobody was answered meanwhile, as many answers as questions. The opposite bounds do
not hold: the messages are counted before the questions, so `messages_assistant`, their
difference, may be less than it ever was, and below zero.

`total_queries` adds the agent runs to the questions. An agent run that keeps its
messages, as it does unless told otherwise, is one of the questions too, so it is counted
twice; no document says what the number should be, and no property is stated of it.

### KnowledgeGraph

`nodes` and `edges` hold the graph of each workspace; a node is its type and its
name, as the id that `entity_id` makes of them. `Build` is the route that reads the
texts of a request or all chunks of the workspace and upserts what the extractor
returns, text by text; `done` and `half` are the texts that got through when the
language model or Neo4j raises in the middle, with the store in memory too, as the model
is asked again between a text's entities and its relationships (in memory and with the
rules nothing can raise; a language model's answer that is no JSON adds nothing). `Relationships`
is the difference between the two extractors: the rules type both ends of a
relationship, the language model none. `Ask` .. `Reply` are a query: any seeds the
workspace has, up to `max_entities`; for each, `neighbors` (`Begin`, `Pop` for one
round of the outer loop up to the depth check, `Follow` for one edge of the inner
one, `Return`), whose facts the retriever merges. Both stores run the same loop;
Neo4j gives the edges of a node by a query, in any order, which `Follow` allows for
both. A fact is an edge here; the code returns the names of its ends and merges
facts by them, which is a projection of the model's set. A lookup by name followed
by `neighbors` is a query with one seed. All of it runs without an `await`, so the
only thing that can happen in the middle is the death of the process (`Crash`,
which empties the in-process graph) or an error of Neo4j (`QueryFails`). `Index`
and `Unindex` are the upload and delete of `Ingestion`, as far as the graph sees
them. `read` is a history variable: which texts a workspace's builds have read, and
with which extractor.

`Near` and `Within` define the answer without the algorithm: an edge is within
depth hops of a seed if a path of fewer than depth steps, over edges either way,
leads to one of its ends. Main properties: `AnswersAreExact`,
`AnswersComeFromTexts`, `QueriesAnswered`. `AnswersComeFromTexts` is about workspaces and
builds; that it survives a restart holds by the shape of the model, as `Crash` empties
the graph in memory and `read` together. Two statements of the repository are violated:

- `GraphFollowsDocuments` (`kg_stale`): nothing ever removes a fact, so the graph
  keeps those of deleted documents.
- `EntitiesMerge` (`kg_merge`): with the language model's extractor an entity and
  the end of its relationship are two nodes, since an id includes the type.

### Accounts

Every route of `auth.py`, `users.py` and `workspaces.py` that writes is a request in
two or three steps: read and decide (`CheckEmail`, `FlushWorkspace`, `FindMember`,
`ReadSettings`), write and commit (`FlushOrganization`, `CommitAdmin`,
`CommitWorkspace`, `CommitMember`, `CommitSettings`), or any exception in between
(`..Fails`), which rolls back what was flushed. After its commit a request still
refreshes what it returns: it may end `failed` with everything written, so that a
client that was told of a failure may have an account. The database has the last word: a
commit that would break the unique index on the address, or the unique pair of
workspace and user, raises. The code creates administrators only, one for each
organization; employees, managers and a second user of an organization are rows of an
operator (`Staff`). `Lower` is `str.lower` on the spellings an instance has. `demoted`,
`serial` and `raced` are history: workspaces whose owner an invitation made a member,
the settings that the updates would leave if they were made one after the other, and
the workspaces two updates overlapped on.

Main properties: whoever registered is found by every spelling of the address and by
nobody else's (`AccountsAreFound`); organizations have their administrator from the
first commit on (`OrganizationsHaveAdmin`); members belong to the organization of
their workspace and are so once (`MembersShareOrganization`); a workspace keeps an owner unless it was taken away by an
invitation, which overwrites the rank it finds (`OwnedUnlessDemoted`); an update of the
settings is lost only when another one overlapped it (`SettingsMergeUnlessOverlapping`).

### Client

`Client` is the browser as `App.tsx` composes it. `Screen` is what is rendered: nothing
without a user and a workspace, or the chat or the library, keyed by the workspace.
Whatever changes it (`Remount`) unmounts one view and mounts another: `Reset` is the
initial state of the hooks, `Enter` the effect that loads the list, and the calls of the
view that is gone become orphans: the server may still work on them, their answer
changes nothing. Each part has calls with a state of their own (`sent`, `answered`,
`failed`), so that the server answers and the browser receives in any order; `Fail` is a
request that is refused or lost on its way there or back, and one that breaks may leave
the server at work. A gesture needs a free slot (`ChatSlots`, `LibSlots`, `BellSlots`,
`FlowSlots`), which bounds what is in flight.

- `Session` (`state/auth.tsx`, `AuthView`, `Sidebar`): sign-in, sign-out, creating and
  switching workspaces and the reload of the page, as flows of requests one after the
  other. A flow goes on after its form is gone (`ours` is false then), and sets what it
  is answered: `mixed` remembers that one did, which is when `SessionIsOnes` does not hold.
- `ChatView` (`views/ChatView.tsx`): send, open a conversation, new chat, attach. A turn
  is stored by the server when it is served (`turns`, `home`), received later, and
  revealed letter by letter until `Revealed`. `crossed` is history: the user left for
  another conversation while an answer was on its way. `AnswersSettle` and
  `ScreenIsContinued` say what the bubbles show, and that the next question continues it.
  `TurnsStayHome` says that a question continues conversations of its own workspace only:
  `get_conversation` looks for the organization alone, so the keys of the views must do it.
- `LibraryView` (`views/LibraryView.tsx`): the list, uploads of one or two files in one
  handler, removal. `place` is where the server has a document. `overtaken` is history:
  a document changed beside the view after its list was served. `ListIsCurrent`.
- `NotificationBell` (`components/TopBar.tsx`): the badge is a number that polls set and
  clicks lower, beside the feed of the server. `BadgeConverges` is liveness: whatever
  the order, the badge ends at the number of unread notices.

An upload from either view is one event of the server: it stores the document, makes the
lists already served late and announces a notice (`Ingestion` has its inside).

### Agents

`Agents` runs requests through three modules. `Resources` has the process-wide
singletons: `Provide` is the dependency resolution of FastAPI in a pool of threads,
where each provider looks, builds and publishes without a lock. Two vector stores share
one client that locks its folder; the SQL engine creates the sample tables and seeds
them if the sales table is empty; the graph store is made once. `raced` remembers who built the same resource
at the same time. `Reboot` is the death and restart of the process, in the middle of any
of this. `AgentMemory` is `memory/__init__.py`: the vector is stored before the row is
committed (`Flush`, `Index`, `CommitItem`, `LoseItem`), recall reads the vectors, listing
the rows, and a restart may bring an embedder of another size. `SqlAgent` is the loop of
`agents/sql/agent.py`: a draft is any statement of the classes the guard tells apart;
`Rejection` is `validate_select`, in its order, `Fetched` what a statement shows of the
rows that are there. The names the guard checks (`names`) and the tables a statement
reads (`tables`) are two fields of a draft, and neither decides the other (see
below). `Agents` adds routing with its fallbacks (`Registered`, `Keyword`,
`Validated`), the research and graph agents, which answer or decline, and the record.

`OnlyRacesHurt`: a request fails to get a singleton only if another one built the same
at the same time, and without such a race no fact is stored in a graph that is dropped.
`RecallFollowsRows`: a run recalls what its workspace lists, except memories whose commit is open or
failed, and all it listed when the run was sent, up to the limit; runs after a change of the vector
size raise, and are outside of it. `SqlAnswersHold`: an answer is about one statement that
the guard let through and shows all its rows over the whole sample data, up to the limits,
and an agent gives up after all its attempts, with the error of the last.

`SqlAnswersHold` says nothing of the tables that are read. The repository does:
`agents/sql/guard.py:3-6` promises a SELECT over known tables, the repository's README
queries over allow-listed ones. `_referenced_tables` (`guard.py:55-70`, "best-effort" in its
own words) collects only an unquoted name right after a token FROM or JOIN. A name after a
comma, in double quotes, or after LEFT or INNER JOIN, which the tokenizer makes one
token, is not checked, and the name of a common table expression is taken for an unknown
table. So an answer may be about a table that is not on the list, as the second draft of
`MCAgents` reads `schema` and names `products` only. Which texts do that is decided by
the tokenizer, outside `src`; the model leaves it open and no run states the allow-list.

### Rag

`Packing` is the merging half of `recursive_chunks`, `Chunking` the four strategies, one
step for each turn of a loop, over texts of the kinds of characters the code tells apart,
each with its position, so that a chunk is a list of places in the text. The recursion
of `_split` is the stack `work` of the calls it still has to make: `Keep` takes a text
that is small enough, `CutOff` the next part of one that is not. `Answering` is
what a question does between the database calls of the chat handlers: the classifier,
the sub-questions of deep research, fusion by reciprocal ranks with its exact fractions
(`Score`, `Fusion`), the cut to candidates, re-ranking, pooling, citations, and what is
answered when nothing is stored or a passage has no words (`FailToIndex`). What
embeddings, BM25 and the re-ranker think of a passage is open: every order is tried.
`Rag` asks about the chunks a page left.

`ChunksCoverText`: every word of the page is in a chunk, the words of a chunk are an
unbroken stretch of those of the text, in its order, a chunk is no longer than its strategy
allows, a child is a stretch of its parent. Words (`Ink`) are what is neither white space
nor in a separator. Separators are not followed: `_split` puts one after every piece
(`chunkers.py:80`), after a text's last too, so a chunk may end in a full stop the page does
not have, or be no more than one, and white space at the ends is dropped. `EvidenceIsRanked`: a passage that both rankings put higher is not cut in
favour of one they put lower; what is cited is in the workspace, once; each of the
sub-questions that `max_sources` has room for keeps all its evidence; a question is
declined only if nothing is stored.

### What history variables excuse

Some overlaps do harm in the code as it is, and no document of the repository says they
should not. A property cannot hold across them, so a history variable remembers them and the
property says that nothing else does the harm:

| Variable | The overlap, whose harm is not excluded | What the property then says |
|---|---|---|
| `demoted` (`Accounts`) | an owner is invited to a lower rank | no race of invitations and creations takes an owner away otherwise |
| `raced` (`Accounts`) | two updates of one workspace's settings | updates one after the other are merged, whatever runs beside them |
| `crossed` (`ChatView`) | an answer to a conversation or a question the user has left | screen and current conversation agree after every other order of answers and gestures |
| `overtaken` (`LibraryView`) | a list served before a document changed beside the view | the list is the server's, with several uploads and removals under way |
| `mixed` (`Session`) | a flow goes on after its form is gone | a session is one user's in all other flows |
| `raced` (`Resources`) | two requests build one singleton | a request is refused nothing, and no fact is lost, without such a race |

## Runs

| Run | Instance | Shows |
|---|---|---|
| `ing_races` | 2 uploads, 2 deletes, 1 tenant, vector sizes 4 and 8, 1 chunk, 1 restart, all failures but the body's; ~747 000 states, 40 s | the safety of the two stores and the refinement |
| `ing_fair` | 1 upload, 2 deletes, 1 search, 2 tenants, 1 restart, all failures; ~457 000 states, 1 min | tenancy, temporary files, liveness |
| `ing_notice`, `ing_delete` | 1 document, only the chunker fails | the two disagreements above |
| `conversations` | 2 organizations, window of 3; 2 chat turns, 1 agent turn and 1 rating in one workspace, or 1 chat turn and 1 agent turn in two, beside summaries, with and without deep research; ~1 606 000 states, 2 min | all properties of Conversations and Dashboard |
| `kg_queries` | 2 workspaces, 1 text with 3 facts in a triangle, 2 extractors and backends, 2 seeds, depth 2, 1 restart; ~478 000 states, 1 min | exact answers, their origin, termination |
| `kg_stale`, `kg_merge` | 1 workspace, the same text, no restart | the two disagreements above |
| `accounts` | 3 requests out of 2 registrations, 1 creation, 2 invitations and 2 updates, 2 staff, 4 spellings of 3 addresses, 2 settings; ~73 000 states, 11 s | all properties of Accounts |
| `client` | 2 users, 2 workspaces, 2 documents, 2 questions, 1 failed request, 3 to 5 gestures on each of 6 choices of parts; ~907 000 states, 75 s | all properties of the client, the badge's convergence included |
| `agents` | a crowd of 2 runs, or of a run, a new memory and a graph build; 2 workspaces, 4 classes of drafts, 2 attempts, 1 restart with either of 2 vector sizes; ~2 390 000 states, 2 min | singletons, recall, SQL answers |
| `rag` | all texts of up to 5 characters of 4 kinds, 3 longer ones, sizes 2 to 4, overlaps 0 to 2; 7 questions about 5 of the texts, at most 3 passages; ~577 000 states, 15 s | chunking and evidence |

Why the bounds are enough to be interesting: two deletes of one document reach the
double delete and the delete that overtakes an upload's refresh; two uploads and
two vector sizes reach an upload into a collection of the old size; one restart
splits every handler at every await. Documents do not otherwise interact, one chunk
distinguishes none, all and (with a mutated numbering) too many. Three turns reach
two concurrent turns and a later one that remembers them; a window of three is the
smallest that cuts a turn, and two messages fewer than the four of two turns. Two turns and
two workspaces are enough for a summary (`BoundedSpec` of `MCConversations` keeps
summaries to states with no more; the theorems are about any): a turn that commits between any two of its
queries, one that had before, and one that is none of its business. The
triangle is the smallest graph with two ways to a node and, at depth 1, an edge
between two visited nodes that must not be found; two seeds show what one walk
leaves to the next; two workspaces may build from the same text, one of them not.
Three requests are two that race for one address, membership or row, and one that
comes between. In the client every hazard is two calls that cross and a gesture between
them: three gestures are enough for it, four or five where a view must be left and
entered again; `Focuses` pairs the parts that share state (the session with each view,
the attachment with the library and the bell), as all together would not end. Two
first runs race for each singleton, and the third kind of crowd has the reader, the
writer and the builder at once. Texts of five characters reach every cut of pieces of
up to four with every overlap; the long ones run through several windows and children.
In `rag`, `DenseK`, `SparseK`, `CandidateK`, `TopN` and `MaxSources` are small so that
each of them cuts; `RrfK` is the code's 60. `RecallLimit` 1 makes the limit bite with
one memory too many, `MaxRows` 2 with the three rows of a draft; `MaxAttempts` is the code's.

The bounds are the constants `MaxChunks`, `MaxLimit`, `MaxCrashes`, `MaxRatings`,
`MaxDepth`, `MaxSeeds` (`max_entities`, 5 in the code), `MaxRequests`, `MaxQuestions`,
`MaxFailures`, `MaxReboots`, `MaxPassages`, the slots, `Focuses` and `Crowds`, all
guards of actions; the theorems hold for any value of them.

Symmetry is used in runs with safety properties only and over sets nothing else
distinguishes. Deadlock is checked in Ingestion, Conversations, KnowledgeGraph and
Accounts, where `Quiet` is the state in which every request has been answered and nobody
sends another. It is off in `client`, `agents` and `rag`: gestures and requests are
bounded and not repeated, so those systems stop when all is done.

Fairness: `FairSpec` has weak fairness of the progress of every upload and of every
delete, because the event loop resumes a coroutine whose awaited call returned and
every such call returns or raises. Nothing is assumed of clients (starting requests
is not fair), of failures, of searches, or that the process dies or stays alive.
`FairSpec` of `KnowledgeGraph` has weak fairness of `Walking`, the loops of a
handler that runs on unless its process dies; builds, replies and restarts are not
fair. `Spec` of `Client` has weak fairness of `Poll`, the interval timer of the bell, and
of `AnswerBell` for each slot, since `fetch` settles and the handler of an answer runs;
failures are bounded, as a badge whose every poll is lost need not converge. Gestures,
the other views' answers and the session's are not fair. `RequestsAnswered` is refuted as soon as one step waits for a row another request
may delete.

## Theorems

All are proved without further assumptions than the ones the modules name:

- `Ingestion`: `WsOrgAssumption`, `BoundsAssumption`, `NoCollectionAssumption`,
  `FaultsAssumption`: the constants are of their types, NoCollection is no vector size.
- `Conversations`: `TurnsAssumption`, `LimitsAssumption`: chat turns and agent turns are
  different requests and none is named NoConv; the limits are numbers.
- `KnowledgeGraph`: `TypesAssumption`, `NoneAssumption`, `TextsAssumption` and
  `BoundsAssumption`: texts state typed entities and relationships, given texts are
  texts, None is neither a workspace nor a node, the bounds are numbers.
- `Accounts`: `NamesAssumption` (ids do not clash), `StaffAssumption` (one of the first
  users is an admin, addresses are stored in lower case), `LowerAssumption` (lowering
  twice is lowering once), `SettingsAssumption`.
- `Client`: `NoneAssumption`, `DocsAssumption` (the documents are finitely many, so that
  unread notices can be counted), `BrowserAssumption`, `BoundsAssumption`.
- `Resources`, `AgentMemory`, `SqlAgent`, `Agents`: `NobodyAssumption`,
  `NeedsAssumption`, `TablesAssumption`, `MemoryAssumption` (finitely many memories, for
  the recall limit), `SqlAssumption` (at least one attempt), `AgentsAssumption` (every
  run waits for the SQL engine, as `run_agent` depends on it).
- `Packing`, `Chunking`, `Answering`, `Rag`: `BlankAssumption`, `ChunkingAssumption` (the
  last separator is the empty one, as in the code; sizes are at least 1; the blank is
  one of the characters `strip` removes), `AnsweringAssumption` (limits and `RrfK` are at
  least 1), `RagAssumption`. Texts may have any length, overlaps may exceed sizes.
- `Dashboard`: none of its own.

`IngestionProofs` proves type correctness, `ReadyIsSearchable`,
`DeletedLeavesNothing`, `OrphanOrigin`, `GhostOrigin`, `NoticeFollowsRow`,
`TempFilesRemoved`, `TenantIsolation` and the refinement of `KnowledgeBase`. Most are
far from inductive: that a READY row's chunks are all there depends on what the session
held when it committed, on the upsert being the only writer of points, and on deletes
purging only rows that were committed. `IInv` says so in five parts: `RowsInv` (a row is
its session's, frozen at commit), `PointsInv` (a point carries its upload's tenant
and comes from its one upsert), `ReadyInv` (a READY session has its chunks until
they are purged), `UploadInv` (what a position says of session and row) and
`DeleteInv` (only committed documents are purged, vectors first). Init gives it;
one lemma per stretch of code preserves it, with one for all the bookkeeping
stretches that touch a request's position alone. The refinement maps a document's
row and session to `entry`, its points to `content`; each handler step is one step
of `KnowledgeBase` or a stutter. `TempFilesRemoved` is inductive as it stands, once a file
that was left is known by its upload's position and not by a fault an instance allows.

`ConversationsProofs` proves type correctness, `TurnsAreWhole`,
`NoEmptyConversation`, `MessagesKeepTenant`, `HistoryIsWhole`,
`RecordsMatchTranscript`, `TranscriptRespectsOrder`, `FollowUpRemembers` and the
refinement of `TurnLog`. The strengthening: `StampInv` (no stamp is ahead of the clock),
`MessagesInv` (a message is one of its turn's two, both are there, and the turn is
over), `ThreadInv` (an open turn's conversation is its own or one its caller sees;
a conversation holds its first turn), `RunsInv`, `OrderInv` (a turn answered before
another was sent was stamped before it), `WrittenInv` (a turn that is over and not
failed is in the tables). `OrderInv` is what makes the transcript's order a consequence
of the order of the requests rather than of their commits. `WindowIsLatest` is the fact
about the agents' window: a message it leaves out is older than all it holds, and it is
full.

The same module proves `SummariesAddUp` of `Dashboard`. Two facts do the work: the tables
only grow (`TablesGrow`), so a query sees no less than an earlier one would have
(`FiguresGrow`), and at any moment the questions and the answers of a workspace are as
many, since the turn of a question has the answer and the other way round
(`QuestionsHaveAnswers`, a bijection; likewise `ConversationsHaveQuestions`). `DashInv`
carries what the queries made so far have in common.

`KnowledgeGraphProofs` proves type correctness (with both ends of every edge among
the nodes), `AnswersComeFromTexts` and `AnswersAreExact`. The last is the
correctness of breadth-first search. `WalkOK` is its invariant: the frontier is
sorted, spans at most two distances and holds shortest distances (`FrontierOK`); the
edges of the node being expanded are followed or pending (`CurrentOK`); a visited
node is in the frontier, being expanded, expanded or too far (`Accounted`); and
everything at most as far as the current node has been visited. Five lemmas about
paths (`Near..`) give `WalkBegins`, `WalkPops` (where the distance grows),
`WalkFollows` and `WalkEnds`; `QueryOK` carries them through the seeds of a query.
Where an induction over the length of a path would be needed, `WalkEnds` takes the
first node of a path that was not visited instead (`LeastNatural` of `LeastElement`,
from the well-foundedness of finite subsets).

`AccountsProofs` proves type correctness and the five properties of the run. `IInv` says whose the rows
are (`UsersInv`, `OrgsInv`, `EmailInv`: a user is one of the first or comes from a
registration that committed its organization too, with the address it stored, whether it
was then answered or failed) and, for each kind of request, what it has read and may still write (`CreationInv`,
`OfferInv`, `UpdateInv`): the check of a request may be old by the time it commits, and
only the unique index stands between two of them. `UnrankedIsNoMember` is what makes a
membership unique: who has no rank in a workspace is no member of it.

`ClientProofs` proves every safety property of the client. Each step of `Client` is
first mapped to one step of each part or a stutter of it (`SessionSteps`, `ChatSteps`,
`LibSteps`, `BellSteps`, `HomeSteps`), then each part has its invariant: `SessionInv`
(`FlowOK`: whose token a flow sends, and what it may have been answered); `ChatInv`
(`CallsInv` and `BubblesInv`: one bubble waits for one live call; `OrphansInv`,
`ThreadsInv`; `ScreenInv`: what the pending call will make of the screen is consistent
with what the server will then hold); `HomeInv` (everything a view names, lists or still
waits for is of the workspace on the screen, as views are mounted anew with it);
`LibInv` (`PendingInv`: a file is on its way once and is not seen until it is stored;
`LibCallOK`; `ListInv`: the documents shown, without those removed but not yet
answered, are those the server holds); `SeenInv` for the bell.

`AgentsProofs` proves an invariant of first use, `ResInv`, and what a step may do,
step by step (`ResStepInv`): what each request builds and whether alone (`PlaceInv`, `AloneInv`), what the locked folder,
the sample tables, the engine and the graph store are then (`FolderInv`, `SeedInv`,
`EngineInv`, `GraphInv`) and why a request has failed (`FailInv`). It puts it
beside the invariants of memory, runs and SQL (`MemInv`, `RunInv`, `SqlInv`, `NamedInv`) and
proves `OnlyRacesHurt`, `RecallFollowsRows`, `SqlAnswersHold` and type correctness.

`RagProofs` proves `ChunksCoverText` for every text, size, overlap and hierarchy of
separators (of words, as said above), and `EvidenceIsRanked` for every ranking. Both are about what loops leave
behind, and neither needs an induction over data, because the steps of the model are the
turns of the loops: an invariant says what the loop has in its hands. For the chunks
it is `ChunkingInv`. A list of stretches lies in a `Row` when each is in the text's order and
ends before the next begins; `SplitInv` says that the pieces and the stack of `_split`
are such a row and have all places of what is being split, `PackInv` that the pieces and
the chunk in progress are one, that what is lost between chunks is nothing, and that an
overlap repeats only the end of the chunk before; `ParentInv` that the children so far
and the parents to come cover the page; `WindowInv`, `SentenceInv` and `JoinInv` are the
same for windows and sentences. `ChunkInv` is the promise for the chunks already made. The
separators cost most: they are put back with the place 0, after the last part too, and
none of their characters is `Ink`, so a row must be about places and not about
characters. For the evidence it is `AnswerInv`: what is fused is the fusion of two rankings
of what is stored (`FusedInv`), and what the first i sub-questions found is in the pool's
first i * `PerStepK` places, so a cut at its end takes the last ones (`PoolInv`). That a passage ranked higher twice has the
higher score is arithmetic on the fractions of `Score`; that it is then not cut
is about sorting, and comes from `Sorted` being a permutation in descending order.

The types of `Accounts`, `Agents`, `Conversations` and `Rag` are proved and not listed in
their runs.

Model-checked only: `RequestsAnswered`, `QueriesAnswered` and `BadgeConverges`, as
liveness and ENABLED are out of the prover's reach. Every safety property of a run that
passes is the conclusion of a theorem.

## Not modelled

- Conversions of text and calls to third parties, without state of their own: parsers,
  cleaners, embedders, image describers, prompts, the patterns of the guardrails (their
  verdict is an input) and what `guard_output` rewords, notification channels, and the
  evaluation scripts, which average over fixed data.
- How much of the history a prompt or a retrieval query repeats (`reasoning/history`),
  `make_llm_router`, `max_followups` and the tool registry, which no route uses.
- Reads that change nothing: lists and single reads of agent runs, the export and the
  entity search of the graph; in the dashboard's summary the figures of documents, feedback
  and latency and the split of a sum by agent, query type or day; the client's
  memory, graph and analytics views and the search box of the library.
- The remote client of the vector store: the local one has the folder lock.
- Passwords and the signatures of tokens: a login or a token is good or not.
- Wiring: settings, logging, request schemas, migrations.

Where their outcome matters it is an input of a module (a failure, a verdict, a number
of chunks). `PROJECT.json` gives each component its status.

## Plan

What is left, in this order.

1. A composition of `Conversations` with `Agents`: one agent run from its dependencies
   to its rows, where a dependency that fails leaves no turn behind; a refinement of both.
2. The memory view of the client beside `AgentMemory`, and the graph view beside builds.
3. An abstract specification of a workspace's memories (listed, recalled, lost), `AgentMemory`
   shown and proved to implement it, as `Ingestion` does `KnowledgeBase`.
4. The termination argument behind `QueriesAnswered`: a measure of `WalkOK` that
   every step of the walk lowers, which is the part of that liveness a proof can reach.
5. The edge `FailToIndex` names (a workspace whose passages have no Latin letter or digit
   cannot be asked anything): a property once the code or its documents say what should happen.
