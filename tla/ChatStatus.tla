----------------------------- MODULE ChatStatus -----------------------------
(***************************************************************************)
(* The bubbles of one conversation in the client's chat store: what they   *)
(* say of the messages that the user sends and gets, as chat.store.ts      *)
(* brings together its own optimistic bubbles, the events of the socket    *)
(* and the pages it fetches.                                               *)
(*                                                                         *)
(* The handler of message:new decrypts, an await, before it touches the    *)
(* list, and so does the load of a page; the others are done at once.  The *)
(* server's handlers emit after awaits of their own, so that events that   *)
(* are on their way arrive in any order.  All of them are lost when the    *)
(* connection drops.  A page comes from the server or, when the network    *)
(* does not answer, from the local cache.                                  *)
(*                                                                         *)
(* Pages are larger than the conversation; older pages and local deletions *)
(* are the matter of ChatPages, the badge that of Badges, and the texts,   *)
(* which no status depends on, that of MessageEdits.                       *)
(***************************************************************************)
EXTENDS Naturals, Sequences, FiniteSets, SequencesExt

CONSTANTS
  Own,          \* clientMessageId of what the user sends
  TextOwn,      \* those that are texts, the others are files
  Peer, None,
  MaxMessages,  \* bound: messages on the server
  MaxWire,      \* bound: attempts of one send on their way
  MaxFlight,    \* bound: events, handlers and page loads under way
  MaxChanges    \* bound: deliveries, reads and recalls

ASSUME OwnAssumption == TextOwn \subseteq Own
ASSUME IdAssumption == Own \cap (Nat \cup {Peer, None}) = {} /\ Peer # None /\ None \notin Nat
ASSUME BoundAssumption == {MaxMessages, MaxWire, MaxFlight, MaxChanges} \subseteq Nat

Message == 1 .. MaxMessages

VARIABLES
  author,      \* of a message: Peer, the send that made it, None before
  status,      \* of a message, as its row has it
  delivering,  \* markDelivered calls that have read a status, seen, and not written
  wire,        \* how often a send is being encrypted or on its way
  events,      \* the events on their way to the client
  list,        \* messagesByConversation: bubbles with an id (of the message, or the
               \* clientMessageId while it has none), cid, status and at
  handlers,    \* handleIncomingMessage at its await
  page,        \* the load of a page at its await, None for none: a bubble for each
               \* message, None for what the local cache has not
  cache,       \* of a message: the bubbles that its row in the local cache may stand for
  handed,      \* history: the messages with a delivered event
  readBy,      \* history: the messages a read event was about
  recalled,    \* history: the messages that were recalled
  setBack,     \* history: the messages that were DELIVERED anew when read or recalled
  blamed       \* history: the sends marked failed for the failure of another

server  == <<author, status, delivering>>
net     == <<wire, events>>
client  == <<list, handlers, page, cache>>
history == <<handed, readBy, recalled, setBack, blamed>>
vars == <<server, net, client, history>>

Local  == {"sending", "failed", "sent", "delivered", "read", "recalled"}

Created == {m \in Message : author[m] # None}

(* createdAt: messages are numbered in its order, and what the user begins *)
(* to send now comes between the latest message and the next.              *)
CreatedAt(m) == 2 * m
Now == 2 * Cardinality(Created) + 1
IsOwn(b) == b.id \in Own \/ author[b.id] # Peer

(* toLocalStatus *)
LocalStatus == [s \in {"SENT", "DELIVERED", "READ", "RECALLED"} |->
                 CASE s = "SENT" -> "sent" [] s = "DELIVERED" -> "delivered"
                   [] s = "READ" -> "read" [] s = "RECALLED"  -> "recalled"]

Changes ==
  Cardinality(handed \cup {d.msg : d \in delivering}) + Cardinality(readBy) + Cardinality(recalled)

UnderWay == Cardinality(events) + Cardinality(handlers) + (IF page = None THEN 0 ELSE 1)

FreeChange == Changes < MaxChanges
FreeFlight == UnderWay < MaxFlight

-----------------------------------------------------------------------------
(* What is done to the list                                                *)

(* A bubble is found by its id or by its clientMessageId. *)
Is(b, x) == b.id = x \/ b.cid = x

Each(x, F(_)) == [i \in DOMAIN list |-> IF Is(list[i], x) THEN F(list[i]) ELSE list[i]]

UpdateMessageStatus(x, s) == Each(x, LAMBDA b : [b EXCEPT !.status = s])

UpsertMessage(b) ==
  LET same == {i \in DOMAIN list : list[i].id = b.id \/ (b.cid # None /\ list[i].cid = b.cid)}
  IN  IF same = {} THEN Append(list, b) ELSE [list EXCEPT ![Min(same)] = b]

(* Mutant: a recalled bubble is not spared. *)
ReadThroughAll(m) ==
  IF \E i \in DOMAIN list : Is(list[i], m)
  THEN [i \in DOMAIN list |->
          IF IsOwn(list[i]) /\ list[i].at <= CreatedAt(m)
          THEN [list[i] EXCEPT !.status = "read"] ELSE list[i]]
  ELSE list

(* Mutant: what the user has sent since is marked, too. *)
ReadAll(m) ==
  IF \E i \in DOMAIN list : Is(list[i], m)
  THEN [i \in DOMAIN list |->
          IF IsOwn(list[i]) /\ list[i].status # "recalled"
          THEN [list[i] EXCEPT !.status = "read"] ELSE list[i]]
  ELSE list

(* Everything of the user's own up to a message that the list has. *)
MarkOwnMessagesReadThrough(m) ==
  IF \E i \in DOMAIN list : Is(list[i], m)
  THEN [i \in DOMAIN list |->
          IF IsOwn(list[i]) /\ list[i].status # "recalled" /\ list[i].at <= CreatedAt(m)
          THEN [list[i] EXCEPT !.status = "read"] ELSE list[i]]
  ELSE list

Sending == {i \in DOMAIN list : IsOwn(list[i]) /\ list[i].status = "sending"}

(* The user's latest bubble that is sending, whatever the error is about. *)
Latest == {i \in Sending : \A j \in Sending : list[j].at <= list[i].at}

(* Mutant: bubbles that are pending are not kept. *)
MergeLoadedOnly(p) == SelectSeq(p, LAMBDA b : b # None)

(* The page, and those of the user's texts that are pending and not in it, *)
(* in the order of their times.                                            *)
MergeLoadedMessagesWithPendingLocal(p) ==
  LET all  == p \o list
      kept == {k \in DOMAIN all :
                 /\ k <= Len(p) => all[k] # None
                 /\ k > Len(p) =>
                      /\ all[k].cid \in TextOwn /\ all[k].status \in {"sending", "failed"}
                      /\ \A i \in DOMAIN p : p[i] # None =>
                           {p[i].id, p[i].cid} \cap {all[k].id, all[k].cid} = {}}
      earlier == [k \in kept |-> {j \in kept : all[j].at < all[k].at \/ (all[j].at = all[k].at /\ j < k)}]
  IN  [i \in 1 .. Cardinality(kept) |-> all[CHOOSE k \in kept : Cardinality(earlier[k]) = i - 1]]

-----------------------------------------------------------------------------
(* The user sends                                                          *)

NewBubble(c, s) == [id |-> c, cid |-> c, status |-> s, at |-> Now]

(* A clientMessageId is random: one of which nothing is left may be another. *)
Unsent(c) == wire[c] = 0 /\ \A i \in DOMAIN list : list[i].cid # c
Fresh(c) ==
  /\ Unsent(c) /\ c \notin blamed
  /\ (\A m \in Message : author[m] # c) /\ (\A e \in events : e.about # c)

(* sendTextMessage, sendFileMessage and the two forwards: the bubble, then  *)
(* encryption, an await, and the emit, which the socket keeps for later    *)
(* while it is not connected.                                              *)
Send(c) ==
  /\ Fresh(c)
  /\ list' = Append(list, NewBubble(c, "sending"))
  /\ wire' = [wire EXCEPT ![c] = @ + 1]
  /\ UNCHANGED <<server, events, handlers, page, cache, history>>

(* createFailedTextMessage, when the network is down or the peer no friend *)
CreateFailed(c) ==
  /\ Fresh(c) /\ c \in TextOwn
  /\ list' = Append(list, NewBubble(c, "failed"))
  /\ UNCHANGED <<server, net, handlers, page, cache, history>>

EncryptionFails(c) ==
  /\ wire[c] > 0
  /\ wire' = [wire EXCEPT ![c] = @ - 1]
  /\ list' = UpdateMessageStatus(c, "failed")
  /\ UNCHANGED <<server, events, handlers, page, cache, history>>

(* Mutant: a bubble that is sending may be sent again. *)
RetryAny(c) ==
  /\ c \in TextOwn /\ wire[c] < MaxWire
  /\ \E i \in DOMAIN list : list[i].cid = c /\ list[i].status \in {"failed", "sending"}
  /\ list' = Each(c, LAMBDA b : [b EXCEPT !.id = c, !.status = "sending", !.at = Now])
  /\ wire' = [wire EXCEPT ![c] = @ + 1]
  /\ UNCHANGED <<server, events, handlers, page, cache, history>>

(* retryTextMessage, with the same clientMessageId *)
Retry(c) ==
  /\ c \in TextOwn /\ wire[c] < MaxWire
  /\ \E i \in DOMAIN list : list[i].cid = c /\ list[i].status = "failed"
  /\ list' = Each(c, LAMBDA b : [b EXCEPT !.id = c, !.status = "sending", !.at = Now])
  /\ wire' = [wire EXCEPT ![c] = @ + 1]
  /\ UNCHANGED <<server, events, handlers, page, cache, history>>

-----------------------------------------------------------------------------
(* The server, and the other end                                           *)

Event(type, m, s) == [type |-> type, about |-> m, status |-> s]

Tell(e) == FreeFlight /\ events' = events \cup {e}

Create(a) ==
  LET m == Cardinality(Created) + 1 IN
  /\ m \in Message
  /\ author' = [author EXCEPT ![m] = a]
  /\ status' = [status EXCEPT ![m] = "SENT"]

(* handleMessageSend: clientMessageId comes back in the answer and is not  *)
(* stored, so that a message that is sent twice is a second message.       *)
Accept(c) ==
  /\ wire[c] > 0
  /\ Create(c)
  /\ wire' = [wire EXCEPT ![c] = @ - 1]
  /\ Tell(Event("new", Cardinality(Created) + 1, "SENT"))
  /\ UNCHANGED <<delivering, client, history>>

(* FRIENDSHIP_REQUIRED and its like. *)
Refuse(c) ==
  /\ wire[c] > 0
  /\ wire' = [wire EXCEPT ![c] = @ - 1]
  /\ Tell(Event("error", c, "SENT"))
  /\ UNCHANGED <<server, client, history>>

PeerSends ==
  /\ Create(Peer)
  /\ UNCHANGED <<delivering, net, client, history>>

(* The push of a send or of a connect, with the row as it was listed.  A   *)
(* message that two of these loops have listed is pushed by both.          *)
Push(m) ==
  /\ author[m] = Peer
  /\ Tell(Event("new", m, status[m]))
  /\ UNCHANGED <<server, wire, client, history>>

(* markDelivered for one who got the user's message, by the loop of a send *)
(* or of a connect: it reads the row, ...                                  *)
MarkDeliveredRead(m) ==
  /\ author[m] \in Own /\ FreeChange
  /\ delivering' = delivering \cup {[msg |-> m, seen |-> status[m]]}
  /\ UNCHANGED <<author, status, net, client, history>>

(* ... and writes DELIVERED if it has seen SENT, whatever the row says by  *)
(* then.  Another call may have read the same.                             *)
MarkDeliveredWrite(d) ==
  LET m == d.msg IN
  /\ d \in delivering
  /\ delivering' \in {delivering, delivering \ {d}}
  /\ status' = IF d.seen = "SENT" THEN [status EXCEPT ![m] = "DELIVERED"] ELSE status
  /\ setBack' = IF d.seen = "SENT" /\ status[m] \in {"READ", "RECALLED"}
                THEN setBack \cup {m} ELSE setBack
  /\ handed' = handed \cup {m}
  /\ Tell(Event("delivered", m, "SENT"))
  /\ UNCHANGED <<author, wire, client, readBy, recalled, blamed>>

(* handleMessageRead of the other end. *)
PeerReads(m) ==
  /\ author[m] \in Own /\ FreeChange
  /\ readBy' = readBy \cup {m}
  /\ status' = IF status[m] # "RECALLED" THEN [status EXCEPT ![m] = "READ"] ELSE status
  /\ Tell(Event("read", m, "SENT"))
  /\ UNCHANGED <<author, delivering, wire, client, handed, recalled, setBack, blamed>>

(* handleMessageRecall, of either end.  Of two that look at the row at     *)
(* once the second writes the same again.                                  *)
Recall(m) ==
  /\ m \in Created /\ status[m] # "RECALLED" /\ FreeChange
  /\ recalled' = recalled \cup {m}
  /\ status' = [status EXCEPT ![m] = "RECALLED"]
  /\ Tell(Event("recalled", m, "SENT"))
  /\ UNCHANGED <<author, delivering, wire, client, handed, readBy, setBack, blamed>>

(* The connection has dropped, or drops while the event is on its way. *)
Lose(e) ==
  /\ e \in events
  /\ events' = events \ {e}
  /\ UNCHANGED <<server, wire, client, history>>

-----------------------------------------------------------------------------
(* The local cache                                                         *)

(* Its writes are begun and not waited for, and any of them may fail: what *)
(* a row may be is what was ever written to it.  A row may also be         *)
(* missing, because its first write failed or because the user has cleared *)
(* the cache since (clear_local_cache).                                    *)

(* cacheEncryptedMessages, cacheRealtimeMessage: the row is overwritten. *)
Upsert(m, b) == cache[m] \cup {b}

(* cacheMessageStatePatches: toCachedLocalStatus goes by the time of a     *)
(* recall before it looks at the status.                                   *)
Patch(m, s) ==
  [cache EXCEPT ![m] = @ \cup {[b EXCEPT !.status = s] : b \in {c \in @ : c.status # "recalled"}}]

(* loadCachedMessageSnapshot: texts only, those that have a row. *)
Cached(m) == IF author[m] \in Own \ TextOwn THEN {} ELSE cache[m]

-----------------------------------------------------------------------------
(* The client gets events                                                  *)

Got(e) == e \in events /\ events' = events \ {e}

(* Up to the await, whether the list has the bubble that was sent. *)
TakeNew(e) ==
  /\ Got(e) /\ e.type = "new"
  /\ handlers' = handlers \cup {[event |-> e, matched |->
       author[e.about] \in Own /\ \E i \in DOMAIN list : list[i].cid = author[e.about]]}
  /\ UNCHANGED <<server, wire, list, page, cache, history>>

New(m, s) == [id |-> m, cid |-> IF author[m] = Peer THEN None ELSE author[m],
              status |-> s, at |-> CreatedAt(m)]

(* handleIncomingMessage after its await. *)
ApplyNew(h) ==
  LET m == h.event.about  s == LocalStatus[h.event.status] IN
  /\ h \in handlers
  /\ handlers' = handlers \ {h}
  /\ list' = UpsertMessage(New(m, IF h.matched THEN "sent" ELSE s))
  /\ cache' = [cache EXCEPT ![m] = Upsert(m, New(m, s))]
  /\ UNCHANGED <<server, net, page, history>>

HandleDelivered(e) ==
  /\ Got(e) /\ e.type = "delivered"
  /\ list' = UpdateMessageStatus(e.about, "delivered")
  /\ cache' = Patch(e.about, "delivered")
  /\ UNCHANGED <<server, wire, handlers, page, history>>

HandleRead(e) ==
  /\ Got(e) /\ e.type = "read"
  /\ list' = MarkOwnMessagesReadThrough(e.about)
  /\ cache' = Patch(e.about, "read")
  /\ UNCHANGED <<server, wire, handlers, page, history>>

HandleRecalled(e) ==
  /\ Got(e) /\ e.type = "recalled"
  /\ list' = UpdateMessageStatus(e.about, "recalled")
  /\ cache' = Patch(e.about, "recalled")
  /\ UNCHANGED <<server, wire, handlers, page, history>>

(* handleRealtimeError: markLatestOwnSendingMessageFailed *)
Blame(c) == \E i \in Latest :
  /\ list' = Each(list[i].cid, LAMBDA b : [b EXCEPT !.status = "failed"])
  /\ blamed' = IF list[i].cid = c THEN blamed ELSE blamed \cup {list[i].cid}

(* Another conversation may be selected, and take the blame. *)
HandleError(e) ==
  /\ Got(e) /\ e.type = "error"
  /\ Blame(e.about) \/ UNCHANGED <<list, blamed>>
  /\ UNCHANGED <<server, wire, handlers, page, cache, handed, readBy, recalled, setBack>>

(* An error that is about another conversation; the bound is that no text  *)
(* is blamed so twice.                                                     *)
HandleErrorElsewhere ==
  /\ Blame(None) /\ blamed' # blamed
  /\ UNCHANGED <<server, net, handlers, page, cache, handed, readBy, recalled, setBack>>

-----------------------------------------------------------------------------
(* The client loads the page: selectConversation, by the user or, on a     *)
(* connect, by the page that follows the state of the network.  A request  *)
(* that fails otherwise, and an answer that comes when another             *)
(* conversation is selected, change nothing.                               *)

Row(m) == [id |-> m, cid |-> None, status |-> LocalStatus[status[m]], at |-> CreatedAt(m)]

(* listMessages has answered: the page is cached and then decrypted. *)
LoadPage ==
  /\ page = None /\ FreeFlight
  /\ page' = [m \in 1 .. Cardinality(Created) |-> Row(m)]
  /\ cache' = [m \in Message |-> IF m \in Created THEN Upsert(m, Row(m)) ELSE cache[m]]
  /\ UNCHANGED <<server, net, list, handlers, history>>

(* The network does not answer, and the cache has something. *)
FallBack ==
  /\ page = None /\ FreeFlight
  /\ page' \in [1 .. Cardinality(Created) -> {None} \cup UNION {Cached(m) : m \in Created}]
  /\ \A m \in DOMAIN page' : page'[m] \in {None} \cup Cached(m)
  /\ \E m \in DOMAIN page' : page'[m] # None
  /\ UNCHANGED <<server, net, list, handlers, cache, history>>

(* What was loaded takes the place of the list, from wherever it comes. *)
MergePage ==
  /\ page # None
  /\ page' = None
  /\ list' = MergeLoadedMessagesWithPendingLocal(page)
  /\ UNCHANGED <<server, net, handlers, cache, history>>

-----------------------------------------------------------------------------
Init ==
  /\ author = [m \in Message |-> None]
  /\ status = [m \in Message |-> "SENT"]
  /\ delivering = {}
  /\ wire = [c \in Own |-> 0]
  /\ events = {}
  /\ list = <<>> /\ handlers = {} /\ page = None
  /\ cache = [m \in Message |-> {}]
  /\ handed = {} /\ readBy = {} /\ recalled = {} /\ setBack = {} /\ blamed = {}

UserNext == \E c \in Own : Send(c) \/ CreateFailed(c) \/ EncryptionFails(c) \/ Retry(c)

ServerNext ==
  \/ \E c \in Own : Accept(c) \/ Refuse(c)
  \/ \E m \in Message : Push(m) \/ MarkDeliveredRead(m) \/ PeerReads(m) \/ Recall(m)
  \/ \E d \in delivering : MarkDeliveredWrite(d)
  \/ PeerSends

ClientNext ==
  \/ \E e \in events : \/ Lose(e) \/ TakeNew(e) \/ HandleDelivered(e) \/ HandleRead(e)
                       \/ HandleRecalled(e) \/ HandleError(e)
  \/ \E h \in handlers : ApplyNew(h)
  \/ HandleErrorElsewhere \/ LoadPage \/ FallBack \/ MergePage

Next == UserNext \/ ServerNext \/ ClientNext

Spec == Init /\ [][Next]_vars

-----------------------------------------------------------------------------
(* Properties                                                              *)

(* No bubble claims more than has happened: delivered and recalled stand   *)
(* for that message, read for a message from then or later that the other  *)
(* end has read.  What never left the device, because it failed or is      *)
(* still being sent, is shown as read by the same rule.  And a message is  *)
(* shown once, but for the user's own: a page may bring the message before *)
(* the answer that turns its pending bubble into it.                       *)
ShownIsJustified ==
  \A i \in DOMAIN list : LET b == list[i] IN
    /\ b.status = "delivered" => b.id \in handed
    /\ b.status = "recalled" => b.id \in recalled
    /\ b.status = "read" => \E m \in readBy : b.at <= CreatedAt(m)
    /\ \A j \in DOMAIN list \ {i} : list[j].id = b.id => IsOwn(b)

(* clientMessageId is not stored.  A text is still sent once, however      *)
(* often the user tries again, unless the error about another message was  *)
(* put down to it and retryTextMessage sends what is on its way already.   *)
SentTwiceWasBlamed ==
  \A m, n \in Created : m # n /\ author[m] = author[n] => author[m] \in blamed \cup {Peer}

Rank == [s \in Local |->
          CASE s = "sending" -> 0 [] s = "failed" -> 0 [] s = "sent" -> 1
            [] s = "delivered" -> 2 [] s = "read" -> 3 [] s = "recalled" -> 4]

(* What the bubbles of a message say. *)
Shown(m) == {list[i].status : i \in {k \in DOMAIN list : list[k].id = m}}

(* The status of a message goes back on the screen only with news that     *)
(* came late: a delivered event that others have overtaken, a message:new  *)
(* that waited for its decryption, or a page.  A page that is not outdated *)
(* takes back no more than a read that was of a later message, which the   *)
(* row of the earlier one does not know of, and what the row itself has    *)
(* lost to a markDelivered that had read SENT before the message was read  *)
(* or recalled.  What was blamed and sent again may fail the second time   *)
(* after the first was answered.                                           *)
OnlyLateNewsGoesBack ==
  [][\A m \in Message, j \in DOMAIN list' :
       Shown(m) # {} /\ list'[j].id = m /\ (\A s \in Shown(m) : Rank[list'[j].status] < Rank[s]) =>
         \/ /\ list'[j].status = "delivered"
            /\ \E e \in events \ events' : e.type = "delivered" /\ e.about = m
         \/ list'[j].status = "failed" /\ author[m] \in blamed
         \/ \E h \in handlers \ handlers' : h.event.about = m
         \/ /\ page # None /\ page' = None
            /\ \/ page[m].status # LocalStatus[status[m]]
               \/ "read" \in Shown(m) /\ m \notin readBy
               \/ m \in setBack]_vars

ShowsText(l, c) == \E i \in DOMAIN l : l[i].cid = c \/ (l[i].id \in Message /\ author[l[i].id] = c)

(* A text that the user has written stays on the screen until its message  *)
(* takes its place.  A page removes it only when it lacks the message: it  *)
(* was read before the message was there, or it comes from the local cache *)
(* and that has no row of it; or when the text is taken for one that was   *)
(* read.                                                                   *)
TextsAreKept ==
  [][\A c \in TextOwn : ShowsText(list, c) /\ ~ShowsText(list', c) =>
       /\ page # None /\ page' = None
       /\ \/ \E m \in Created : author[m] = c /\ (m \in DOMAIN page => page[m] = None)
          \/ \E i \in DOMAIN list : list[i].id = c /\ list[i].status = "read"]_vars

=============================================================================
