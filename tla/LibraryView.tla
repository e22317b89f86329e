---------------------------- MODULE LibraryView ----------------------------
(***************************************************************************)
(* The document list of one signed-in browser                              *)
(* (frontend/src/views/LibraryView.tsx) and the documents the server holds.*)
(*                                                                         *)
(* Calls are as in ChatView.  An upload goes on file by file after the     *)
(* view is gone.                                                           *)
(***************************************************************************)
EXTENDS Naturals, Sequences, FiniteSets

CONSTANTS LibSlots, Workspaces, Docs, None   \* LibSlots bounds the calls in flight

VARIABLES
  current,
  docs, loading, uploading,   \* the mounted view
  libCalls,
  place,     \* server: the workspace a document is stored in, or None
  used,      \* documents that were ever picked
  overtaken  \* history: the documents changed beside the view since its list was served

libScreen == <<docs, loading, uploading, overtaken>>
libVars   == <<libScreen, libCalls, place, used>>

Call == [slot: LibSlots, kind: {"list", "upload", "remove"}, live: BOOLEAN, ws: Workspaces,
         doc: Docs \cup {None}, rest: Seq(Docs), at: {"sent", "answered", "failed"},
         seen: SUBSET Docs, late: BOOLEAN]

TypeOK ==
  /\ docs \subseteq Docs /\ loading \in BOOLEAN /\ uploading \in BOOLEAN
  /\ libCalls \subseteq Call /\ place \in [Docs -> Workspaces \cup {None}]
  /\ used \subseteq Docs /\ overtaken \in BOOLEAN

Init ==
  /\ docs = {} /\ loading = TRUE /\ uploading = FALSE /\ libCalls = {}
  /\ place = [d \in Docs |-> None] /\ used = {} /\ overtaken = FALSE

-----------------------------------------------------------------------------
Free == {s \in LibSlots : \A c \in libCalls : c.slot # s}
Slot == CHOOSE s \in Free : \A t \in Free : s <= t

Request(s, kind, w, d, rest) ==
  [slot |-> s, kind |-> kind, live |-> TRUE, ws |-> w, doc |-> d, rest |-> rest,
   at |-> "sent", seen |-> {}, late |-> FALSE]

Replace(c, d) == (libCalls \ {c}) \cup {d}
Drop(c)       == libCalls \ {c}

Held(w) == {d \in Docs : place[d] = w}

\* The lists already served miss a change of the documents.
Overtake(calls) == {IF c.kind = "list" /\ c.at = "answered" THEN [c EXCEPT !.late = TRUE] ELSE c : c \in calls}

-----------------------------------------------------------------------------
(* Gestures *)

\* upload: one file after the other, in one handler; here one file, or two.
Upload ==
  \E d, e \in Docs \ used :
    /\ Free # {} /\ uploading' = TRUE /\ used' = used \cup {d, e}
    /\ libCalls' = libCalls \cup {Request(Slot, "upload", current, d, IF d = e THEN <<>> ELSE <<e>>)}
    /\ UNCHANGED <<docs, loading, overtaken, place>>

Remove ==
  \E d \in docs :
    /\ Free # {} /\ libCalls' = libCalls \cup {Request(Slot, "remove", current, d, <<>>)}
    /\ UNCHANGED <<libScreen, place, used>>

-----------------------------------------------------------------------------
(* The server, as Ingestion models it. *)

Answered(c, d) == Replace(c, [d EXCEPT !.at = "answered"])

\* A document stored for another view, or one that is gone, is not on this screen.
Store(d, w, own) ==
  /\ place' = [place EXCEPT ![d] = w]
  /\ overtaken' = (overtaken \/ (~own /\ w = current))

ServeList(c) ==
  /\ c.kind = "list" /\ c.at = "sent" /\ libCalls' = Answered(c, [c EXCEPT !.seen = Held(c.ws)])
  /\ UNCHANGED <<libScreen, place, used>>

ServeUpload(c) ==
  /\ c.kind = "upload" /\ c.at = "sent"
  /\ Store(c.doc, c.ws, c.live) /\ libCalls' = Overtake(Answered(c, c))
  /\ UNCHANGED <<docs, loading, uploading, used>>

\* 404 when another click has removed it: an error for the client.
ServeRemove(c) ==
  /\ c.kind = "remove" /\ c.at = "sent"
  /\ place' = [place EXCEPT ![c.doc] = None]
  /\ libCalls' = IF ~c.live THEN Overtake(Drop(c))
                 ELSE IF place[c.doc] = None THEN Replace(c, [c EXCEPT !.at = "failed"])
                 ELSE Overtake(Answered(c, c))
  /\ overtaken' = (overtaken \/ (~c.live /\ c.ws = current))
  /\ UNCHANGED <<docs, loading, uploading, used>>

\* Lost on the way there or back: a change the server has made stays off the screen, and
\* a connection that breaks may leave the server at work on the request.
Fail(c) ==
  /\ c.at \in {"sent", "answered"}
  /\ \/ libCalls' = Replace(c, [c EXCEPT !.at = "failed"])
     \/ /\ c.live /\ c.at = "sent" /\ c.kind # "list" /\ Free # {}
        /\ libCalls' = Replace(c, [c EXCEPT !.at = "failed"]) \cup
                         {[c EXCEPT !.live = FALSE, !.slot = Slot, !.rest = <<>>]}
  /\ overtaken' = (overtaken \/ (c.live /\ c.kind = "remove" /\ c.at = "answered"))
  /\ UNCHANGED <<docs, loading, uploading, place, used>>

-----------------------------------------------------------------------------
(* What the handlers do after their await. *)

ReceiveList(c) ==
  /\ c.kind = "list" /\ c.at \in {"answered", "failed"} /\ libCalls' = Drop(c) /\ loading' = FALSE
  /\ IF c.at = "answered" THEN docs' = c.seen /\ overtaken' = c.late
     ELSE UNCHANGED docs /\ overtaken' = TRUE
  /\ UNCHANGED <<uploading, place, used>>

\* Success or failure of a file, the next one follows, refused at once unless the token
\* stored by then is of the workspace's organization; after the last the list reloads.
ReceiveUpload(c, may) ==
  /\ c.kind = "upload" /\ c.at \in {"answered", "failed"}
  /\ IF c.rest # <<>>
     THEN /\ libCalls' = Replace(c, [c EXCEPT !.doc = Head(c.rest), !.rest = <<>>, !.at = IF may THEN "sent" ELSE "failed"])
          /\ UNCHANGED <<uploading, loading>>
     ELSE IF c.live
     THEN /\ libCalls' = Replace(c, Request(c.slot, "list", c.ws, None, <<>>))
          /\ uploading' = FALSE /\ loading' = TRUE
     ELSE libCalls' = Drop(c) /\ UNCHANGED <<uploading, loading>>
  /\ UNCHANGED <<docs, overtaken, place, used>>

ReceiveRemove(c) ==
  /\ c.kind = "remove" /\ c.at \in {"answered", "failed"} /\ libCalls' = Drop(c)
  /\ docs' = IF c.at = "answered" THEN docs \ {c.doc} ELSE docs
  /\ UNCHANGED <<loading, uploading, overtaken, place, used>>

-----------------------------------------------------------------------------
(* Mounting and unmounting, by Client. *)

Reset == /\ docs' = {} /\ loading' = TRUE /\ uploading' = FALSE /\ overtaken' = FALSE
         /\ UNCHANGED <<place, used>>

Orphans == {[c EXCEPT !.live = FALSE] :
              c \in {d \in libCalls : d.kind = "upload" \/ (d.kind = "remove" /\ d.at = "sent")}}

Leave == Reset /\ libCalls' = Orphans
Enter == Free # {} /\ Reset /\ libCalls' = Orphans \cup {Request(Slot, "list", current', None, <<>>)}

\* The page is gone: no further file is sent.
Close == /\ Reset
         /\ libCalls' = {[c EXCEPT !.rest = <<>>] : c \in {d \in Orphans : d.at = "sent"}}

Receive(c, may) == ReceiveList(c) \/ ReceiveUpload(c, may) \/ ReceiveRemove(c)

-----------------------------------------------------------------------------
(* Properties *)

\* With nothing under way, the screen lists what the workspace holds, unless a change
\* overtook the list, or its answer was lost (load, upload and remove of LibraryView.tsx
\* each set docs when their own call comes back, in any order).
ListIsCurrent ==
  (~loading /\ ~overtaken /\ \A c \in libCalls : ~c.live) => docs = Held(current)

=============================================================================
