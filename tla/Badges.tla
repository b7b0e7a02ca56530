------------------------------- MODULE Badges -------------------------------
(***************************************************************************)
(* The entry of one conversation in the client's list: its unread badge,   *)
(* and what becomes of the messages of the others that the badge counts.   *)
(*                                                                         *)
(* The server counts the deliveries without a readAt whenever it is asked  *)
(* for the list; in between the client counts by itself: one more for a    *)
(* message:new, none when it opens the conversation, reports it read or    *)
(* hears that it was read.  Lists and pages come over HTTP, events over    *)
(* the socket, and nothing orders the two.                                 *)
(*                                                                         *)
(* Messages are numbered as they are created, and the time of a click is   *)
(* the number of messages created by then: message m is older than a click *)
(* at t iff m <= t.  The user's own messages, recalls and clearings are    *)
(* left out; a recalled message stays counted until the next list.  One    *)
(* entry stands for a direct conversation and for a group: only the first  *)
(* is opened from a friend's profile, only the second has news.            *)
(***************************************************************************)
EXTENDS Naturals, Sequences, FiniteSets, SequencesExt

CONSTANTS
  None,
  MaxMessages,  \* bound: messages of the others
  MaxLists,     \* bound: loads of the list at the same time
  MaxActs       \* bound: clicks, lost connections, failed requests, news of the group

ASSUME BoundAssumption == {MaxMessages, MaxLists, MaxActs} \subseteq Nat /\ None \notin Nat

Message == 1 .. MaxMessages
Time    == 0 .. MaxMessages

VARIABLES
  sent,         \* messages created so far
  unread,       \* those whose delivery has no readAt
  undelivered,  \* those whose delivery has no deliveredAt
  pushing,      \* messages whose send handler has yet to look for a socket
  backlog,      \* undelivered messages that the connection has yet to emit
  conn,         \* the client's socket: down, open, registered, served
  stale,        \* the registry still holds a socket that is gone
  events,       \* on their way to the client, in this order
  reads,        \* message:read on their way to the server
  handling,     \* handleIncomingMessage at its await
  lists,        \* calls of loadConversations
  page,         \* the call of selectConversation
  opening,      \* the call of openDirectConversation
  known,        \* the list has the conversation
  counted,      \* unreadCount: the messages that it counts
  again,        \* and how often it counts one of them once more
  lastAt,       \* lastMessageAt
  lastId,       \* the id of lastMessage, 0 for none
  hasLocal,     \* messagesByConversation has messages
  selected,     \* selectedConversationId
  manual,       \* manualUnreadIds
  override,     \* readConversationOverrides
  hidden,       \* hiddenConversations
  acts,
  clean,        \* history: nothing has overlapped since the last list
  settled       \* history: messages that were in messagesByConversation, or that
                \*          "mark as read" was about; and those that were let go: their
                \*          push was lost with a socket, or not made because a later
                \*          message was read, or came before the list; their page was
                \*          given up when they were reported read, or failed

rows   == <<sent, unread, undelivered>>
loops  == <<pushing, backlog>>
link   == <<conn, stale>>
net    == <<events, reads>>
calls  == <<lists, page, opening>>
badge  == <<counted, again>>
entry  == <<known, badge, lastAt, lastId>>
marks  == <<manual, override, hidden>>
ui     == <<selected, marks>>
history == <<clean, settled>>
vars == <<rows, loops, link, net, handling, calls, entry, hasLocal, ui, acts, history>>

Idle  == [at |-> "idle", last |-> 0]
Asked == [at |-> "asked", last |-> 0, unread |-> {}]

-----------------------------------------------------------------------------
(* Helpers                                                                 *)

Act == acts < MaxActs /\ acts' = acts + 1

Unread  == Cardinality(counted) + again
Uncount == counted' = {} /\ again' = 0

(* An event of m is to be handled yet, or will be when there is a socket.  *)
Arriving(m) ==
  \/ m \in undelivered \/ Contains(events, <<"new", m>>)
  \/ \E h \in handling : h.m = m

(* Or there may be a second one of the other loop. *)
Coming(m) == m \in pushing \cup backlog \/ Arriving(m)

(* What the list says is what it would say now, and no event will count    *)
(* one of its messages again.                                              *)
UpToDate(list) ==
  /\ reads = {}
  /\ \A m \in Message : IF m \in list.unread THEN m \in unread /\ ~Coming(m)
                                             ELSE m \in unread => Arriving(m)

NoneForgotten == \A m \in unread : Arriving(m)
NoneAfter(k)  == \A m \in counted : m <= k

(* Mutant: a conversation of the same time as the click comes back, a      *)
(* newer one does not.                                                     *)
UnhideSame(t) == hidden' = IF hidden # None /\ t = hidden THEN None ELSE hidden

(* isConversationNewerThanHidden, an effect of MainLayout *)
Unhide(t) == hidden' = IF hidden # None /\ t > hidden THEN None ELSE hidden

(* selectConversation as far as its await *)
Select ==
  /\ page.at = "idle"
  /\ selected' = TRUE /\ Uncount /\ page' = [Idle EXCEPT !.at = "asked"]

(* loadConversations as far as its await *)
LoadList == Len(lists) < MaxLists /\ lists' = Append(lists, Asked)

(* openDirectConversation goes on when its selectConversation has ended.   *)
PageEnds ==
  /\ page' = Idle
  /\ opening' = IF opening = "selecting" THEN "selected" ELSE opening

-----------------------------------------------------------------------------
(* The server                                                              *)

PeerSends ==
  /\ sent < MaxMessages
  /\ sent' = sent + 1
  /\ unread' = unread \cup {sent + 1} /\ undelivered' = undelivered \cup {sent + 1}
  /\ pushing' = pushing \cup {sent + 1}
  /\ UNCHANGED <<backlog, link, net, handling, calls, entry, hasLocal, ui, acts, history>>

(* A push over m's socket, or over the one that has gone: either way it    *)
(* is marked delivered.                                                    *)
Push(m) ==
  /\ undelivered' = undelivered \ {m}
  /\ IF conn \in {"registered", "served"}
     THEN events' = Append(events, <<"new", m>>) /\ UNCHANGED <<settled, clean>>
     ELSE /\ settled' = settled \cup {m} /\ clean' = (clean /\ (m \in counted \/ m \notin unread))
          /\ UNCHANGED events

(* RealtimeGateway.handleMessageSend after the message is created *)
SendPush(m) ==
  /\ m \in pushing
  /\ pushing' = pushing \ {m}
  /\ IF conn \in {"registered", "served"} \/ stale
     THEN Push(m)
     ELSE /\ settled' = IF m \in undelivered THEN settled ELSE settled \cup {m}
          /\ UNCHANGED <<undelivered, events, clean>>
  /\ UNCHANGED <<sent, unread, backlog, link, reads, handling, calls, entry, hasLocal, ui, acts>>

(* handleConnection: authenticated and registered, which displaces the     *)
(* socket before; then the messages that are undelivered are read, and     *)
(* emitted one by one.                                                     *)
Register ==
  /\ conn = "open"
  /\ conn' = "registered" /\ stale' = FALSE
  /\ UNCHANGED <<rows, loops, net, handling, calls, entry, hasLocal, ui, acts, history>>

ListUndelivered ==
  /\ conn = "registered"
  /\ conn' = "served" /\ backlog' = undelivered
  /\ UNCHANGED <<rows, pushing, stale, net, handling, calls, entry, hasLocal, ui, acts, history>>

BacklogPush ==
  /\ backlog # {}
  /\ LET m == Min(backlog) IN backlog' = backlog \ {m} /\ Push(m)
  /\ UNCHANGED <<sent, unread, pushing, link, reads, handling, calls, entry, hasLocal, ui, acts>>

(* Mutant: only the message itself is read. *)
OnlyThis(k) == {k}

(* What markRead marks when message k is read. *)
UpTo(k) == 1 .. k

(* handleMessageRead: refused before the connection is authenticated;      *)
(* markRead takes all deliveries up to the message.                        *)
MarkRead(k) ==
  /\ k \in reads /\ conn # "down"
  /\ reads' = reads \ {k}
  /\ IF conn = "open"
     THEN clean' = (clean /\ UpTo(k) \cap unread = {})
          /\ UNCHANGED <<unread, undelivered, events, settled>>
     ELSE /\ settled' = settled \cup ((UpTo(k) \cap undelivered) \ (pushing \cup backlog))
          /\ unread' = unread \ UpTo(k) /\ undelivered' = undelivered \ UpTo(k)
          /\ events' = Append(events, <<"read", k>>)
          /\ UNCHANGED clean
  /\ UNCHANGED <<sent, loops, link, handling, calls, entry, hasLocal, ui, acts>>

-----------------------------------------------------------------------------
(* The connection                                                          *)

(* What was under way is lost.  The loop of the connection goes on with    *)
(* the socket that is gone, for some of its messages before the next       *)
(* connection reads the undelivered ones; those that were read meanwhile   *)
(* are none of them.                                                       *)
Drop(k) ==
  /\ Act
  /\ conn # "down"
  /\ conn' = "down" /\ stale' = (stale \/ conn # "open")
  /\ LET gone == {m \in Message : Contains(events, <<"new", m>>)}
                 \cup {m \in backlog : m <= k}
     IN  /\ settled' = settled \cup gone \cup (backlog \ undelivered)
         /\ undelivered' = undelivered \ gone
         /\ clean' = (clean /\ reads = {} /\ events = <<>> /\ gone = {})
  /\ events' = <<>> /\ reads' = {} /\ backlog' = {}
  /\ UNCHANGED <<sent, unread, pushing, handling, calls, entry, hasLocal, ui>>

Unregister ==
  /\ stale /\ stale' = FALSE
  /\ UNCHANGED <<rows, loops, conn, net, handling, calls, entry, hasLocal, ui, acts, history>>

(* MainLayout loads list and selection again when the status turns online. *)
Reconnect ==
  /\ conn = "down" /\ conn' = "open"
  /\ LoadList
  /\ IF selected THEN Select ELSE UNCHANGED <<selected, badge, page>>
  /\ UNCHANGED <<rows, loops, stale, net, handling, opening, known, lastAt, lastId, hasLocal, marks,
                 acts, history>>

(* The settings are a page of their own, and there is no socket for them:  *)
(* what is reported there is lost.  Back from there, MainLayout loads the  *)
(* list, and what is selected remains as it is.                            *)
Mount ==
  /\ conn = "down" /\ conn' = "open"
  /\ LoadList
  /\ reads' = {} /\ clean' = (clean /\ reads = {})
  /\ override' = None
  /\ UNCHANGED <<rows, loops, stale, events, handling, page, opening, entry, hasLocal, selected, manual,
                 hidden, acts, settled>>

-----------------------------------------------------------------------------
(* The list                                                                *)

(* listConversations: the last message and the count, two reads in a row. *)
ListConversations(i) ==
  /\ lists[i].at = "asked"
  /\ lists' = [lists EXCEPT ![i] = [at |-> "answered", last |-> sent, unread |-> unread]]
  /\ UNCHANGED <<rows, loops, link, net, handling, page, opening, entry, hasLocal, ui, acts, history>>

ApplyList(i) ==
  /\ lists[i].at = "answered"
  /\ lists' = RemoveAt(lists, i)
  /\ known' = TRUE
  /\ counted' = lists[i].unread /\ again' = 0
  /\ lastAt' = lists[i].last /\ lastId' = lists[i].last
  /\ Unhide(lists[i].last)
  /\ clean' = UpToDate(lists[i])
  /\ UNCHANGED <<rows, loops, link, net, handling, page, opening, hasLocal, selected, manual,
                 override, acts, settled>>

(* Without the network the cached entries take the place of the list; they *)
(* have no counts, and the time of a list, or of a news of the group.      *)
ListFails(i) ==
  /\ Act
  /\ lists' = RemoveAt(lists, i)
  /\ \/ UNCHANGED <<entry, hidden, clean>>
     \/ /\ known /\ known' = TRUE /\ Uncount /\ lastId' = 0
        /\ \E k \in 0 .. lastAt : lastAt' = k /\ Unhide(k)
        /\ clean' = (clean /\ NoneForgotten)
  /\ UNCHANGED <<rows, loops, link, net, handling, page, opening, hasLocal, selected, manual,
                 override, settled>>

-----------------------------------------------------------------------------
(* Events                                                                  *)

Take(event) == events # <<>> /\ Head(events) = event /\ events' = Tail(events)

(* handleIncomingMessage as far as its await; without the conversation the *)
(* list is loaded instead.                                                 *)
TakeNew(m) ==
  /\ Take(<<"new", m>>)
  /\ IF known
     THEN /\ [m |-> m, saw |-> selected] \notin handling
          /\ handling' = handling \cup {[m |-> m, saw |-> selected]}
          /\ UNCHANGED <<lists, settled>>
     ELSE /\ LoadList
          /\ settled' = settled \cup {m}
          /\ UNCHANGED handling
  /\ UNCHANGED <<rows, loops, link, reads, page, opening, entry, hasLocal, ui, acts, clean>>

(* The rest: it counts by the selection of now, and reports the message    *)
(* read by the selection of before.                                        *)
ApplyNew(h) ==
  /\ h \in handling
  /\ handling' = handling \ {h}
  /\ hasLocal' = TRUE /\ settled' = settled \cup {h.m}
  /\ IF selected
     THEN Uncount
     ELSE counted' = counted \cup {h.m} /\ again' = IF h.m \in counted THEN again + 1 ELSE again
  /\ lastAt' = h.m /\ lastId' = h.m
  /\ Unhide(h.m)
  /\ reads' = IF h.saw THEN reads \cup {h.m} ELSE reads
  /\ clean' = (clean /\ selected = h.saw /\ h.m \notin counted /\ h.m \in unread /\ lastAt <= h.m)
  /\ UNCHANGED <<rows, loops, link, events, calls, known, selected, manual, override,
                 acts>>

(* handleRead of what this user has read. *)
ApplyRead(k) ==
  /\ Take(<<"read", k>>)
  /\ Uncount
  /\ clean' = (clean /\ NoneAfter(k))
  /\ UNCHANGED <<rows, loops, link, reads, handling, calls, known, lastAt, lastId, hasLocal, ui,
                 acts, settled>>

(* The group has changed: its members are told what toConversationDto      *)
(* makes of a conversation that is read without its messages, and          *)
(* upsertOpenedConversation takes the unreadCount from it.                 *)
GroupNews ==
  /\ Act
  /\ conn \in {"registered", "served"}
  /\ events' = Append(events, <<"group", 0>>)
  /\ UNCHANGED <<rows, loops, link, reads, handling, calls, entry, hasLocal, ui, history>>

ApplyNews ==
  /\ Take(<<"group", 0>>)
  /\ known' = TRUE /\ Uncount
  /\ clean' = (clean /\ NoneForgotten)
  /\ UNCHANGED <<rows, loops, link, reads, handling, calls, lastAt, lastId, hasLocal, ui, acts,
                 settled>>

-----------------------------------------------------------------------------
(* Opening                                                                 *)

(* activateConversation: a click on the conversation that is open closes   *)
(* it.                                                                     *)
Activate ==
  /\ Act
  /\ known /\ hidden = None
  /\ manual' = FALSE /\ override' = sent
  /\ IF selected
     THEN selected' = FALSE /\ UNCHANGED <<badge, page>>
     ELSE Select
  /\ UNCHANGED <<rows, loops, link, net, handling, lists, opening, known, lastAt, lastId, hasLocal,
                 hidden, history>>

(* listMessages; the selection is looked at before the page is decrypted,  *)
(* and no more.                                                            *)
KeepPage ==
  /\ page.at = "asked" /\ selected
  /\ page' = [at |-> "kept", last |-> sent]
  /\ UNCHANGED <<rows, loops, link, net, handling, lists, opening, entry, hasLocal, ui, acts, history>>

GiveUp ==
  /\ page.at = "asked" /\ ~selected
  /\ PageEnds
  /\ clean' = (clean /\ NoneForgotten)
  /\ settled' = settled \cup
       {m \in 1 .. sent : m \notin unread \/ (\E k \in reads : m <= k)
                                      \/ \E h \in handling : h.saw /\ m <= h.m}
  /\ UNCHANGED <<rows, loops, link, events, handling, lists, entry, hasLocal, ui, acts>>

(* Mutant: the page is reported read before the selection is looked at. *)
DropReportedPage == GiveUp /\ reads' = reads \cup {sent}

DropPage == GiveUp /\ UNCHANGED reads

(* The page takes the place of the messages, and its last one is reported  *)
(* read.                                                                   *)
ApplyPage ==
  /\ page.at = "kept"
  /\ PageEnds
  /\ hasLocal' = (page.last > 0)
  /\ settled' = settled \cup 1 .. page.last
  /\ IF page.last > 0
     THEN /\ lastAt' = page.last /\ Uncount
          /\ reads' = reads \cup {page.last}
          /\ clean' = (clean /\ NoneAfter(page.last))
     ELSE UNCHANGED <<lastAt, badge, reads, clean>>
  /\ Unhide(page.last)
  /\ UNCHANGED <<rows, loops, link, events, handling, lists, known, lastId, selected,
                 manual, override, acts>>

(* Without the network messages of the cache are shown, as far as there    *)
(* are any, and nothing is reported.                                       *)
PageFails ==
  /\ Act
  /\ page.at = "asked"
  /\ PageEnds
  /\ \/ UNCHANGED <<lastAt, hasLocal, hidden>>
     \/ \E k \in 1 .. lastAt : selected /\ lastAt' = k /\ hasLocal' = TRUE /\ Unhide(k)
  /\ settled' = settled \cup 1 .. sent
  /\ clean' = (clean /\ NoneForgotten)
  /\ UNCHANGED <<rows, loops, link, net, handling, lists, known, badge, lastId,
                 selected, manual, override>>

(* openDirectConversation puts the conversation into the list, with the    *)
(* count of an answer that has none, and selects it.  A hidden one is      *)
(* closed at once.                                                         *)
OpenDirect ==
  /\ Act
  /\ opening = "no" /\ conn # "down" /\ page.at = "idle"
  /\ opening' = "selecting" /\ page' = [Idle EXCEPT !.at = "asked"]
  /\ selected' = (hidden = None)
  /\ known' = TRUE /\ Uncount
  /\ UNCHANGED <<rows, loops, link, net, handling, lists, lastAt, lastId, hasLocal, marks,
                 history>>

(* When that has ended handleMessageFriend takes the conversation back     *)
(* into the list and has it activated, whatever is selected by then.       *)
OpenedAgain ==
  /\ opening = "selected"
  /\ opening' = "no"
  /\ Select
  /\ manual' = FALSE /\ override' = sent /\ hidden' = None
  /\ UNCHANGED <<rows, loops, link, net, handling, lists, known, lastAt, lastId, hasLocal,
                 acts, history>>

-----------------------------------------------------------------------------
(* The badge, and what the user does with it                               *)

(* getVisibleConversationPreview *)
Displayed ==
  IF ~hasLocal /\ lastId = 0 THEN 0
  ELSE IF manual THEN Max({1, Unread})
  ELSE IF override # None /\ lastAt <= override THEN 0
  ELSE Unread

Listed == known /\ hidden = None

(* Another conversation is selected, or the settings are opened. *)
Close ==
  /\ Act
  /\ selected /\ selected' = FALSE
  /\ UNCHANGED <<rows, loops, link, net, handling, calls, entry, hasLocal, marks, history>>

MarkConversationUnread ==
  /\ Act
  /\ Listed /\ Displayed = 0
  /\ manual' = TRUE /\ override' = None
  /\ UNCHANGED <<rows, loops, link, net, handling, calls, entry, hasLocal, selected, hidden,
                 history>>

(* The last message of the entry is reported read. *)
MarkConversationRead ==
  /\ Act
  /\ Listed /\ Displayed > 0
  /\ manual' = FALSE /\ override' = sent
  /\ IF lastId # 0
     THEN /\ Uncount /\ reads' = reads \cup {lastId}
          /\ clean' = (clean /\ NoneAfter(lastId))
          /\ settled' = settled \cup 1 .. lastId
     ELSE UNCHANGED <<badge, reads, clean, settled>>
  /\ UNCHANGED <<rows, loops, link, events, handling, calls, known, lastAt, lastId, hasLocal,
                 selected, hidden>>

HideConversation ==
  /\ Act
  /\ Listed
  /\ hidden' = sent /\ manual' = FALSE /\ override' = None /\ selected' = FALSE
  /\ UNCHANGED <<rows, loops, link, net, handling, calls, entry, hasLocal, history>>

-----------------------------------------------------------------------------
(* Specification                                                           *)

(* The client is connected and has loaded its list, with or without the    *)
(* conversation, which may have been created since.                        *)
Init ==
  /\ sent \in {0, 1} \cap Time /\ unread = 1 .. sent /\ undelivered = {}
  /\ pushing = {} /\ backlog = {}
  /\ conn = "served" /\ stale = FALSE /\ events = <<>> /\ reads = {} /\ handling = {}
  /\ lists = <<>> /\ page = Idle /\ opening = "no"
  /\ known \in {sent = 1, TRUE} /\ lastAt = sent /\ lastId = sent
  /\ counted = unread /\ again = 0
  /\ hasLocal = FALSE
  /\ selected = FALSE /\ manual = FALSE /\ override = None /\ hidden = None
  /\ acts = 0
  /\ clean = TRUE /\ settled = {}

Server ==
  \/ PeerSends \/ Register \/ ListUndelivered \/ BacklogPush \/ Unregister \/ GroupNews
  \/ \E m \in Message : SendPush(m) \/ MarkRead(m)
  \/ \E i \in DOMAIN lists : ListConversations(i)

Client ==
  \/ Reconnect \/ Mount \/ ApplyNews \/ KeepPage \/ DropPage \/ ApplyPage \/ PageFails
  \/ OpenedAgain
  \/ \E k \in Time : Drop(k)
  \/ \E i \in DOMAIN lists : ApplyList(i) \/ ListFails(i)
  \/ \E m \in Message : TakeNew(m) \/ ApplyRead(m)
  \/ \E h \in handling : ApplyNew(h)

User ==
  \/ Activate \/ OpenDirect \/ Close \/ MarkConversationUnread \/ MarkConversationRead
  \/ HideConversation

Next == Server \/ Client \/ User

Spec == Init /\ [][Next]_vars

-----------------------------------------------------------------------------
(* Properties                                                              *)

(* Connected, and nothing under way. *)
Quiet ==
  /\ conn = "served" /\ ~stale
  /\ pushing \cup backlog = {} /\ events = <<>> /\ reads = {} /\ handling = {}
  /\ lists = <<>> /\ page.at = "idle" /\ opening = "no"

(* When all is quiet and nothing has overlapped since the list was loaded, *)
(* the badge of a conversation that is not open says how many messages are *)
(* unread.  The user may have marked it unread; and it says nothing of     *)
(* messages that were sent before the user last clicked on the             *)
(* conversation and came after that.                                       *)
QuietBadgeIsRight ==
  Quiet /\ clean /\ Listed /\ ~selected =>
    \/ Displayed = Cardinality(unread)
    \/ manual /\ unread = {} /\ Displayed = 1
    \/ Displayed = 0 /\ override # None /\ \A m \in unread : m <= override

(* What its sender sees as read has been among the messages of the         *)
(* conversation in this client, or was waved through by "mark as read";    *)
(* unless it was lost with a socket that the server took for alive, or     *)
(* came when the list did not have the conversation, or was passed over    *)
(* by a later message that was reported read: before its own push, or by a *)
(* client that then gave up the page, or did not get it.                   *)
ReadWasShown == Quiet => 1 .. sent \subseteq unread \cup settled

(* A conversation that the user removed from the list is back when a       *)
(* message has come that was sent after that, unless it was lost.          *)
HiddenComesBack ==
  Quiet /\ clean /\ hidden # None => \A m \in unread : m <= hidden
=============================================================================
