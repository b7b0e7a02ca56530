------------------------------ MODULE ChatPages ------------------------------
(***************************************************************************)
(* Which messages of one conversation the client shows: pages of history   *)
(* from the server or from the local cache, messages pushed by the socket, *)
(* and what the user deletes or clears on this device.                     *)
(*                                                                         *)
(* The messages are another user's and are numbered in the order of        *)
(* createdAt; what a bubble says of its message is the matter of           *)
(* ChatStatus.  Loads and handlers decrypt, an await, between looking at   *)
(* the store and changing it.  Writes to the cache are not awaited and are *)
(* taken with the step that starts them; the clocks of client and server   *)
(* agree.                                                                  *)
(***************************************************************************)
EXTENDS Naturals, Sequences, FiniteSets, SequencesExt, FiniteSetsExt

CONSTANTS
  None,
  PageSize,     \* MESSAGE_PAGE_SIZE
  MaxMessages,  \* bound: messages on the server
  MaxLoads,     \* bound: loads that are asked for
  MaxHandlers,  \* bound: message:new events that are being decrypted
  MaxChanges    \* bound: losses, failures, and what the user does but selecting
                \* and scrolling

ASSUME NoneAssumption == None \notin Nat
ASSUME BoundAssumption == PageSize \in Nat \ {0} /\ MaxMessages \in Nat /\ MaxLoads \in Nat
                      /\ MaxHandlers \in Nat /\ MaxChanges \in Nat

VARIABLES
  n,         \* the server has the messages 1 .. n
  pending,   \* messages whose message:new is on its way, or waits until the
             \* user is online
  handlers,  \* handleIncomingMessage at its await
  calls,     \* loads under way, in the order they were asked for: their kind, where
             \* they stand, their page, whether there is more, the cursor, staleness
  asked,     \* how many have been asked for
  changes,   \* how often something else has happened
  shown,     \* messagesByConversation
  selected,  \* selectedConversationId is this conversation
  loading,   \* isLoadingMessages, one for all conversations
  hasMore, cursor, older,  \* pagination: hasMore, nextCursor, isLoadingOlder
  cleared,   \* localClearWatermarks: what is not newer is cleared
  cache,     \* the row of a message in cached_messages
  deleted,   \* history: the messages that the user deleted one by one
  upto,      \* history: the messages there were when a merged page was read
  whole,     \* history: the list goes back to a page of the server that ended
             \* the last selection, was the latest, and was only added to
  missed,    \* history: messages that were lost, or pushed and dropped again
  late,      \* history: messages that were being handled when they were cleared
  again,     \* history: deleted messages that were on their way then, or were
             \* fetched again since
  reopened   \* history: it was selected once more while isLoadingOlder was set

server     == <<n, pending>>
pagination == <<hasMore, cursor, older>>
bounds     == <<asked, changes>>
local      == <<cleared, cache, deleted>>
history    == <<upto, whole, missed, late, again, reopened>>
vars == <<server, handlers, calls, bounds, shown, selected, loading, pagination, local, history>>

Message == 1 .. MaxMessages

-----------------------------------------------------------------------------
(* Helpers                                                                 *)

(* Mutant: the row before the cursor is skipped as well as the cursor. *)
PageSkips(b) == {m \in 1 .. (b - 2) : m + PageSize + 1 >= b}

(* The latest messages before b. *)
Page(b) == {m \in 1 .. (b - 1) : m + PageSize >= b}

More(b) == b > PageSize + 1

NextCursor(page) == IF page = {} THEN None ELSE Min(page)

(* Mutant: the filter is left out. *)
Unfiltered(page) == page

(* filterMessagesAfterLocalClear *)
NotCleared(page) == {m \in page : m > cleared}

Cached(S, row) == [m \in Message |-> IF m \in S THEN row ELSE cache[m]]

(* A patch only changes rows that are there. *)
Patched(S) == Cached({m \in S : cache[m] # "none"}, "deleted")

Change == changes < MaxChanges /\ changes' = changes + 1
Without(i) == RemoveAt(calls, i)
Asked(kind, b) ==
  [kind |-> kind, at |-> "asked", page |-> {}, more |-> FALSE, before |-> b, stale |-> FALSE]

Paginate(more, c, o) == hasMore' = more /\ cursor' = c /\ older' = o

-----------------------------------------------------------------------------
(* The other user's messages and their events                              *)

PeerSends ==
  /\ n < MaxMessages
  /\ n' = n + 1 /\ pending' = pending \cup {n + 1}
  /\ UNCHANGED <<bounds, handlers, calls, shown, selected, loading, pagination, local, history>>

Lose(m) ==
  /\ Change
  /\ m \in pending
  /\ pending' = pending \ {m} /\ missed' = missed \cup {m}
  /\ UNCHANGED <<asked, n, handlers, calls, shown, selected, loading, pagination, local, upto,
                 whole, late, again, reopened>>

(* handleIncomingMessage as far as its await, and the rest. *)
TakeNew(m) ==
  /\ m \in pending /\ Cardinality(handlers) < MaxHandlers
  /\ pending' = pending \ {m} /\ handlers' = handlers \cup {[m |-> m, cleared |-> cleared]}
  /\ UNCHANGED <<bounds, n, calls, shown, selected, loading, pagination, local, history>>

ApplyNew(h) ==
  /\ h \in handlers
  /\ handlers' = handlers \ {h}
  /\ \/ /\ h.m <= h.cleared
        /\ UNCHANGED <<shown, cache>>
     \/ /\ h.m > h.cleared
        /\ shown' = shown \cup {h.m}
        /\ cache' = Cached({h.m}, "kept")
  /\ UNCHANGED <<bounds, server, calls, selected, loading, pagination, cleared, deleted, history>>

-----------------------------------------------------------------------------
(* Selecting                                                               *)

(* Mutant: the pagination of the last selection is kept. *)
SelectKeeps ==
  /\ asked < MaxLoads /\ asked' = asked + 1
  /\ selected' = TRUE /\ loading' = TRUE
  /\ calls' = Append(calls, Asked("select", None))
  /\ whole' = FALSE
  /\ UNCHANGED <<changes, server, handlers, shown, pagination, local, upto, missed, late, again, reopened>>

(* Also when the client is online again. *)
Select ==
  /\ asked < MaxLoads /\ asked' = asked + 1
  /\ selected' = TRUE /\ loading' = TRUE
  /\ Paginate(FALSE, None, FALSE)
  /\ calls' = Append(calls, Asked("select", None))
  /\ whole' = FALSE /\ reopened' = FALSE
  /\ UNCHANGED <<changes, server, handlers, shown, local, upto, missed, late, again>>

Close ==
  /\ Change
  /\ selected
  /\ selected' = FALSE /\ loading' = FALSE
  /\ UNCHANGED <<asked, server, handlers, calls, shown, pagination, local, history>>

(* openDirectConversation selects its conversation, this one or another,   *)
(* once more when the load of its selection has ended, whichever way, and  *)
(* resets nothing then.                                                    *)
Reselect(this) ==
  /\ selected' \in {selected, this}
  /\ reopened' = (reopened \/ (older /\ ~selected /\ selected'))

(* Another conversation is selected; its load ends, whichever way. *)
SelectOther ==
  /\ Change
  /\ asked < MaxLoads /\ asked' = asked + 1
  /\ selected' = FALSE /\ loading' = TRUE
  /\ calls' = Append(calls, Asked("other", None))
  /\ UNCHANGED <<server, handlers, shown, pagination, local, history>>

OtherLoaded(i) ==
  /\ calls[i].kind = "other"
  /\ calls' = Without(i) /\ loading' = FALSE
  /\ Reselect(FALSE)
  /\ UNCHANGED <<bounds, server, handlers, shown, pagination, local, upto, whole, missed, late, again>>

LoadOlder ==
  /\ asked < MaxLoads /\ asked' = asked + 1
  /\ selected /\ hasMore /\ ~older /\ cursor # None
  /\ older' = TRUE
  /\ calls' = Append(calls, Asked("older", cursor))
  /\ UNCHANGED <<changes, server, handlers, shown, selected, loading, hasMore, cursor, local,
                 history>>

-----------------------------------------------------------------------------
(* The answers                                                             *)

(* ConversationsService.listMessages *)
ListMessages(i) ==
  LET b == IF calls[i].kind = "older" THEN calls[i].before ELSE n + 1
  IN  /\ calls[i].at = "asked" /\ calls[i].kind # "other"
      /\ calls' = [calls EXCEPT ![i].at = "read", ![i].page = Page(b), ![i].more = More(b)]
      /\ again' = again \cup (Page(b) \cap deleted)
      /\ UNCHANGED <<bounds, server, handlers, shown, selected, loading, pagination, local,
                     upto, whole, missed, late, reopened>>

(* The conversation is no longer selected: only a selection clears its     *)
(* indicator.                                                              *)
Drop(i) ==
  /\ calls[i].at = "read" /\ ~selected
  /\ calls' = Without(i)
  /\ loading' = (loading /\ calls[i].kind = "older")
  /\ Reselect(calls[i].kind = "select")
  /\ UNCHANGED <<bounds, server, handlers, shown, pagination, local, upto, whole, missed, late, again>>

Arrive(i) ==
  /\ calls[i].at = "read" /\ selected
  /\ calls' = [calls EXCEPT ![i].at = "arrived"]
  /\ cache' = Cached(calls[i].page, "kept")
  /\ UNCHANGED <<bounds, server, handlers, shown, selected, loading, pagination, cleared,
                 deleted, history>>

(* What is merged, hasMore and nextCursor: nothing is older than what the  *)
(* user has cleared.                                                       *)
Paged(c) ==
  IF NotCleared(c.page) # c.page THEN Paginate(FALSE, None, FALSE)
                                 ELSE Paginate(c.more, NextCursor(c.page), FALSE)

(* The page of a selection replaces the list, which may have been closed   *)
(* since it arrived: openDirectConversation selects it again.              *)
MergeSelection(i) ==
  /\ calls[i].at = "arrived" /\ calls[i].kind = "select"
  /\ calls' = RemoveAt([j \in DOMAIN calls |-> [calls[j] EXCEPT !.stale = calls[j].kind = "older"]], i)
  /\ shown' = NotCleared(calls[i].page)
  /\ Paged(calls[i])
  /\ loading' = FALSE
  /\ selected' \in {selected, TRUE}
  /\ upto' = Max(calls[i].page \cup {upto}) /\ whole' = (upto' \in calls[i].page \cup {0})
  /\ missed' = missed \cup {m \in shown : \A p \in calls[i].page : p < m}
  /\ UNCHANGED <<bounds, server, handlers, local, late, again, reopened>>

(* mergeOlderMessages *)
MergeOlder(i) ==
  /\ calls[i].at = "arrived" /\ calls[i].kind = "older"
  /\ calls' = Without(i)
  /\ shown' = shown \cup NotCleared(calls[i].page)
  /\ Paged(calls[i])
  /\ whole' = (whole /\ ~calls[i].stale)
  /\ UNCHANGED <<bounds, server, handlers, selected, loading, local, upto, missed, late, again, reopened>>

(* list_cached_messages: the latest rows, deleted ones among them *)
CachedPage ==
  LET rows == {m \in Message : cache[m] # "none"}
  IN  {m \in rows : Cardinality({r \in rows : r > m}) < PageSize}

(* Without the network a selection falls back on the cache, of which it    *)
(* reads one page and leaves out what was deleted or is cleared by now.    *)
FallBack(i) ==
  /\ Change
  /\ calls[i].kind = "select" /\ calls[i].at \in {"asked", "read"}
  /\ calls' = [calls EXCEPT ![i].at = "cached",
                            ![i].page = {m \in NotCleared(CachedPage) : cache[m] = "kept"}]
  /\ UNCHANGED <<asked, server, handlers, shown, selected, loading, pagination, local, history>>

MergeCached(i) ==
  /\ calls[i].at = "cached" /\ calls[i].page # {} /\ selected
  /\ calls' = Without(i)
  /\ shown' = calls[i].page
  /\ Paginate(FALSE, None, FALSE)
  /\ loading' = FALSE
  /\ whole' = FALSE /\ missed' = missed \cup (shown \ calls[i].page)
  /\ UNCHANGED <<bounds, server, handlers, selected, local, upto, late, again, reopened>>

(* Nothing in the cache, no longer selected, or another error. *)
SelectionFails(i) ==
  /\ calls[i].kind = "select"
  /\ \/ calls[i].at = "cached" /\ (calls[i].page = {} \/ ~selected)
        /\ UNCHANGED changes
     \/ calls[i].at \in {"asked", "read"} /\ Change
  /\ calls' = Without(i)
  /\ loading' = FALSE
  /\ Reselect(TRUE)
  /\ UNCHANGED <<asked, server, handlers, shown, pagination, local, upto, whole, missed, late, again>>

OlderFails(i) ==
  /\ Change
  /\ calls[i].kind = "older" /\ calls[i].at \in {"asked", "read"}
  /\ calls' = Without(i)
  /\ older' = FALSE
  /\ UNCHANGED <<asked, server, handlers, shown, selected, loading, hasMore, cursor, local,
                 history>>

-----------------------------------------------------------------------------
(* What the user does on this device                                       *)

OnItsWay(m) ==
  \/ m \in pending \/ \E h \in handlers : h.m = m
  \/ \E i \in DOMAIN calls : m \in calls[i].page

DeleteLocalMessage(m) ==
  /\ Change
  /\ selected /\ m \in shown
  /\ shown' = shown \ {m}
  /\ cache' = Patched({m})
  /\ deleted' = deleted \cup {m}
  /\ again' = IF OnItsWay(m) THEN again \cup {m} ELSE again \ {m}
  /\ UNCHANGED <<asked, server, handlers, calls, selected, loading, pagination, cleared, upto,
                 whole, missed, late, reopened>>

ClearLocalConversation ==
  /\ Change
  /\ selected
  /\ cleared' = n
  /\ cache' = Patched(shown)
  /\ shown' = {}
  /\ Paginate(FALSE, None, FALSE)
  /\ late' = late \cup {h.m : h \in handlers}
                  \cup UNION {calls[i].page : i \in {j \in DOMAIN calls : calls[j].at = "cached"}}
  /\ UNCHANGED <<asked, server, handlers, calls, selected, loading, deleted, upto, whole,
                 missed, again, reopened>>

(* The client restarts; the watermarks and the cache are on disk. *)
Restart ==
  /\ Change
  /\ handlers' = {} /\ calls' = <<>> /\ shown' = {}
  /\ selected' = FALSE /\ loading' = FALSE /\ Paginate(FALSE, None, FALSE)
  /\ missed' = (1 .. n) \ pending
  /\ whole' = FALSE /\ late' = {} /\ reopened' = FALSE
  /\ UNCHANGED <<asked, server, local, upto, again>>

-----------------------------------------------------------------------------
(* Specification                                                           *)

Init ==
  /\ n = 0 /\ pending = {} /\ handlers = {} /\ calls = <<>> /\ asked = 0 /\ changes = 0
  /\ shown = {}
  /\ selected = FALSE /\ loading = FALSE /\ hasMore = FALSE /\ cursor = None /\ older = FALSE
  /\ cleared = 0 /\ cache = [m \in Message |-> "none"] /\ deleted = {}
  /\ upto = 0 /\ whole = FALSE /\ missed = {} /\ late = {} /\ again = {} /\ reopened = FALSE

Answer(i) ==
  \/ OtherLoaded(i) \/ ListMessages(i) \/ Drop(i) \/ Arrive(i) \/ MergeSelection(i)
  \/ MergeOlder(i) \/ FallBack(i) \/ MergeCached(i) \/ SelectionFails(i) \/ OlderFails(i)

Next ==
  \/ PeerSends \/ Select \/ Close \/ SelectOther \/ LoadOlder
  \/ ClearLocalConversation \/ Restart
  \/ \E m \in Message : Lose(m) \/ TakeNew(m) \/ DeleteLocalMessage(m)
  \/ \E h \in handlers : ApplyNew(h)
  \/ \E i \in DOMAIN calls : Answer(i)

Spec == Init /\ [][Next]_vars

-----------------------------------------------------------------------------
(* Properties                                                              *)

(* A progress indicator that the user sees belongs to a load:              *)
(* isLoadingMessages to some load, isLoadingOlder of the selected          *)
(* conversation to a load of older messages, which loadOlderMessages does  *)
(* not start twice.  An older page that is dropped leaves isLoadingOlder   *)
(* set, and only a selection resets it: who closes a conversation that is  *)
(* being opened from a contact, and has an older page dropped before that  *)
(* load ends, sees it when openDirectConversation selects once more.       *)
SpinnersAreServed ==
  /\ loading => \E i \in DOMAIN calls : calls[i].kind # "older"
  /\ older /\ selected /\ ~reopened => \E i \in DOMAIN calls : calls[i].kind = "older"

(* Once a page of the server has ended a selection, each message of the    *)
(* conversation is shown, on its way, or before the cursor where scrolling *)
(* up will fetch it; unless the user took it away, the socket lost it, a   *)
(* selection dropped it for a page that was read before it was sent or was *)
(* taken from the cache, or that page has been replaced by one of the      *)
(* cache or one read earlier, or added to by an older page that an earlier *)
(* selection led to.                                                       *)
NothingIsSkipped ==
  whole =>
    \A m \in 1 .. n :
      \/ m \in shown \cup pending \cup missed \cup deleted
      \/ \E h \in handlers : h.m = m
      \/ m <= cleared
      \/ hasMore /\ m < cursor

(* What the user took away on this device stays away.  A message that is   *)
(* older than the clearing is shown again only where its event, or a page  *)
(* of the cache, was being decrypted just then: handleIncomingMessage and  *)
(* the fallback compare with the watermark that they read before their     *)
(* await.  One that was deleted is shown again only where it was on its    *)
(* way just then, or has been fetched again: the cache forgets the         *)
(* deletion when it stores the fetched page, and nothing else keeps it.    *)
TakenAwayStaysAway ==
  \A m \in shown : (m <= cleared => m \in late) /\ (m \in deleted => m \in again)
=============================================================================
