-------------------------- MODULE NotificationBell --------------------------
(***************************************************************************)
(* The bell of the top bar (frontend/src/components/TopBar.tsx) over the   *)
(* notification feed of an organization (app/api/routers/notifications.py, *)
(* services/notification_service.py).                                      *)
(*                                                                         *)
(* The badge is a number the browser keeps beside the server's: polls set  *)
(* it, marking notices read subtracts from it, and the answers of both     *)
(* come back in any order.  An uploaded document is a notice (Ingestion).  *)
(***************************************************************************)
EXTENDS Naturals, FiniteSets

CONSTANTS
  BellSlots,   \* bound: calls in flight, polls among them
  Notices, Users, None

VARIABLES
  user,        \* who is signed in (auth.tsx), in an organization of their own
  open, items, readItems, unread,  \* the mounted bell: items is shown, readItems as read
  bellCalls,
  feed, isRead \* server: whose notice it is, or None; notices with read = TRUE

bellScreen == <<open, items, readItems, unread>>
bellVars   == <<bellScreen, bellCalls, feed, isRead>>

Call == [slot: BellSlots, kind: {"count", "list", "all", "read"}, n: Notices \cup {None},
         who: Users, at: {"sent", "answered", "failed"}, count: 0..Cardinality(Notices),
         seen: SUBSET Notices, seenRead: SUBSET Notices]

TypeOK ==
  /\ open \in BOOLEAN /\ items \subseteq Notices /\ readItems \subseteq items
  /\ unread \in 0..Cardinality(Notices) /\ bellCalls \subseteq Call
  /\ feed \in [Notices -> Users \cup {None}] /\ isRead \subseteq Notices

Init ==
  /\ open = FALSE /\ items = {} /\ readItems = {} /\ unread = 0 /\ bellCalls = {}
  /\ feed = [n \in Notices |-> None] /\ isRead = {}

-----------------------------------------------------------------------------
Free == {s \in BellSlots : \A c \in bellCalls : c.slot # s}
Slot == CHOOSE s \in Free : \A t \in Free : s <= t

Request(kind, n) == [slot |-> Slot, kind |-> kind, n |-> n, who |-> user, at |-> "sent",
                     count |-> 0, seen |-> {}, seenRead |-> {}]

Replace(c, d) == (bellCalls \ {c}) \cup {d}
Drop(c)       == bellCalls \ {c}

Mine(u)       == {n \in Notices : feed[n] = u}
UnreadCount(u) == Cardinality(Mine(u) \ isRead)

-----------------------------------------------------------------------------
(* Steps gone wrong, each the way a change of the code could.               *)

\* BadgeConverges: let a poll only raise the badge, since marking lowers it.
ReceiveCountRising(c) ==
  /\ c.kind = "count" /\ c.at = "answered" /\ bellCalls' = Drop(c)
  /\ unread' = IF c.count > unread THEN c.count ELSE unread
  /\ UNCHANGED <<open, items, readItems, feed, isRead>>

\* TypeOK: subtract without the floor.
ReceiveMarkUnfloored(c) ==
  /\ c.kind = "read" /\ c.at = "answered" /\ bellCalls' = Drop(c)
  /\ readItems' = readItems \cup ({c.n} \cap items) /\ unread' = unread - 1
  /\ UNCHANGED <<open, items, feed, isRead>>

-----------------------------------------------------------------------------
(* Gestures, and the timer *)

\* setInterval(refreshCount, 20000).
Poll ==
  /\ Free # {} /\ bellCalls' = bellCalls \cup {Request("count", None)}
  /\ UNCHANGED <<bellScreen, feed, isRead>>

\* Opening loads the list.
Toggle ==
  /\ open' = ~open
  /\ IF open THEN UNCHANGED bellCalls
     ELSE Free # {} /\ bellCalls' = bellCalls \cup {Request("list", None)}
  /\ UNCHANGED <<items, readItems, unread, feed, isRead>>

\* The button is there while a shown notice is unread.
MarkAll ==
  /\ open /\ items \ readItems # {} /\ Free # {}
  /\ bellCalls' = bellCalls \cup {Request("all", None)}
  /\ UNCHANGED <<bellScreen, feed, isRead>>

OpenItem ==
  \E n \in items \ readItems :
    /\ open /\ Free # {} /\ bellCalls' = bellCalls \cup {Request("read", n)}
    /\ UNCHANGED <<bellScreen, feed, isRead>>

-----------------------------------------------------------------------------
(* The server *)

Answered(c, d) == Replace(c, [d EXCEPT !.at = "answered"])

\* unread_count and list_notifications, of the caller's organization.
ServeCount(c) ==
  /\ c.kind = "count" /\ c.at = "sent"
  /\ bellCalls' = Answered(c, [c EXCEPT !.count = UnreadCount(c.who)])
  /\ UNCHANGED <<bellScreen, feed, isRead>>

ServeItems(c) ==
  /\ c.kind = "list" /\ c.at = "sent"
  /\ bellCalls' = Answered(c, [c EXCEPT !.seen = Mine(c.who), !.seenRead = Mine(c.who) \cap isRead])
  /\ UNCHANGED <<bellScreen, feed, isRead>>

\* mark_all_read: one update of the organization's unread rows.
ServeMarkAll(c) ==
  /\ c.kind = "all" /\ c.at = "sent"
  /\ isRead' = isRead \cup Mine(c.who) /\ bellCalls' = Answered(c, c)
  /\ UNCHANGED <<bellScreen, feed>>

\* get and mark_read: a notice that is read already is marked again.
ServeMark(c) ==
  /\ c.kind = "read" /\ c.at = "sent"
  /\ isRead' = isRead \cup ({c.n} \cap Mine(c.who)) /\ bellCalls' = Answered(c, c)
  /\ UNCHANGED <<bellScreen, feed>>

\* notification_service.create, at the end of an upload (Ingestion).
Announce(n, u) == feed' = [feed EXCEPT ![n] = u]

Fail(c) ==
  /\ c.at \in {"sent", "answered"} /\ bellCalls' = Replace(c, [c EXCEPT !.at = "failed"])
  /\ UNCHANGED <<bellScreen, feed, isRead>>

-----------------------------------------------------------------------------
(* What the handlers do after their await; failures are ignored. *)

ReceiveCount(c) ==
  /\ c.kind = "count" /\ c.at = "answered" /\ bellCalls' = Drop(c) /\ unread' = c.count
  /\ UNCHANGED <<open, items, readItems, feed, isRead>>

ReceiveItems(c) ==
  /\ c.kind = "list" /\ c.at = "answered" /\ bellCalls' = Drop(c)
  /\ items' = c.seen /\ readItems' = c.seenRead
  /\ UNCHANGED <<open, unread, feed, isRead>>

\* Every item that is shown by now, whether the server's update met it or not.
ReceiveMarkAll(c) ==
  /\ c.kind = "all" /\ c.at = "answered" /\ bellCalls' = Drop(c)
  /\ unread' = 0 /\ readItems' = items
  /\ UNCHANGED <<open, items, feed, isRead>>

\* One less, for each click on the notice.
ReceiveMark(c) ==
  /\ c.kind = "read" /\ c.at = "answered" /\ bellCalls' = Drop(c)
  /\ readItems' = readItems \cup ({c.n} \cap items)
  /\ unread' = IF unread = 0 THEN 0 ELSE unread - 1
  /\ UNCHANGED <<open, items, feed, isRead>>

ReceiveFailure(c) ==
  /\ c.at = "failed" /\ bellCalls' = Drop(c) /\ UNCHANGED <<bellScreen, feed, isRead>>

-----------------------------------------------------------------------------
(* Mounting and unmounting, by Client.  What an unmounted bell has asked to  *)
(* mark is marked by the time the next one is there.                         *)

Asked == UNION {IF c.at # "sent" THEN {} ELSE IF c.kind = "all" THEN Mine(c.who)
                ELSE IF c.kind = "read" THEN {c.n} \cap Mine(c.who) ELSE {} : c \in bellCalls}

Leave ==
  /\ open' = FALSE /\ items' = {} /\ readItems' = {} /\ unread' = 0 /\ bellCalls' = {}
  /\ isRead' \in {isRead, isRead \cup Asked} /\ UNCHANGED feed

Gesture == Toggle \/ MarkAll \/ OpenItem
Serve(c) == ServeCount(c) \/ ServeItems(c) \/ ServeMarkAll(c) \/ ServeMark(c)
Receive(c) == ReceiveCount(c) \/ ReceiveItems(c) \/ ReceiveMarkAll(c) \/ ReceiveMark(c)
              \/ ReceiveFailure(c)

\* What the badge should say.
BadgeIsTrue == unread = UnreadCount(user)

=============================================================================
