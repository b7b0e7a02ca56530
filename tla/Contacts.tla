------------------------------- MODULE Contacts -------------------------------
(***************************************************************************)
(* What one client knows of one other user: the request and the friendship *)
(* between them on the contacts page (FriendsWorkspace), and in the main   *)
(* page around it (MainLayout) the number of requests on the badge and the *)
(* list of friends, which says who may be written to.                      *)
(*                                                                         *)
(* The server sends a hint without content after a change, to whoever is   *)
(* registered at that moment.  The three copies are fetched again after a  *)
(* hint, the contacts page also when it is opened, after an action of its  *)
(* own, and when the connection comes or goes.  Nothing orders the answers *)
(* of fetches, and the page reads requests and friends in two queries.     *)
(*                                                                         *)
(* The races between handlers are in Friends: a request or a friendship is *)
(* changed in one step here.  There is one request between the two at a    *)
(* time, with a number as its id, as the friendship has.  Which panel of   *)
(* the page is shown, the dialogs that ask before a deletion, searches and *)
(* notices are left out, and so is                                         *)
(* trustedFriendPeerId, which hides the notice that the two are no friends *)
(* (MainLayout.tsx:5007) once a chat was opened from here, for good.       *)
(***************************************************************************)
EXTENDS Naturals

CONSTANTS
  None,
  MaxActs,    \* bound: changes that a user asks for
  MaxVisits,  \* bound: times the contacts page is opened
  MaxFaults,  \* bound: calls that fail, connections and statuses that are lost
  Looks       \* bound: copies that are looked at together, acts, visits, faults not to be had

VARIABLES
  followed,    \* constant: the copies that are looked at
  request,     \* server: the request between the two
  friendship,  \* server: the friendship's id, or 0
  sock,        \* no connection, one that is open, one that is registered
  hints,       \* friend-request-changed events on their way
  online,      \* the network store
  mounted,     \* the contacts page is shown
  shown,       \* its incoming and outgoing, and friends
  busy,        \* its isBusy
  count,       \* pendingFriendRequestCount: a request waits
  friend,      \* MainLayout's friends: the friendship's id, or 0
  loaded,      \* hasLoadedFriends
  fetches,     \* listFriendRequests and listFriends under way
  calls,       \* changes this client has asked for
  fresh,       \* history: copies that have the answer of their latest fetch
  lost,        \* history: copies that were not told of a change
  vouched,     \* history: friend was taken from a page that was not fresh
  acts, visits, faults

server == <<request, friendship>>
net    == <<sock, online>>
page   == <<mounted, shown, busy>>
main   == <<count, friend, loaded, vouched>>
known  == <<followed, fetches, fresh, lost>>
bounds == <<acts, visits, faults>>
vars   == <<server, net, hints, page, main, known, calls, bounds>>

Copy  == {"page", "count", "list"}
NoRow == [id |-> 0, state |-> "none"]
Blank == [request |-> NoRow, friend |-> 0]
New   == acts + 2

Waits(r) == r.state = "incoming"

(* A fetch: whose it is, whether a later one was begun, whether it is the  *)
(* one of the mount, the action of the page that waits for it, what it     *)
(* has read.                                                               *)
Fetch(copy, first, by) ==
  [of |-> copy, newest |-> TRUE, first |-> first, by |-> by, request |-> None, friend |-> None]

Init ==
  /\ request \in {NoRow} \cup [id : {1}, state : {"incoming", "outgoing", "answered"}]
  /\ friendship = IF request.state = "answered" THEN 1 ELSE 0
  /\ sock = "none" /\ hints = 0 /\ online = FALSE
  /\ mounted = FALSE /\ shown = Blank /\ busy = FALSE
  /\ count = FALSE /\ friend = 0 /\ loaded = FALSE /\ vouched = FALSE
  /\ \E look \in Looks : followed = look.at /\ acts = look.acts /\ visits = look.visits /\ faults = look.faults
  /\ fetches = {Fetch(c, c = "list", "no") : c \in followed \ {"page"}}
  /\ calls = {} /\ fresh = {} /\ lost = {}

-----------------------------------------------------------------------------
(* Fetches                                                                 *)

(* Out of fs, fetches of copies are begun: one of the page for an action.  *)
Begin(fs, copies, by, missed) ==
  /\ fetches' = {[f EXCEPT !.newest = @ /\ f.of \notin copies] : f \in fs}
                  \cup {Fetch(c, FALSE, IF c = "page" THEN by ELSE "no") : c \in copies}
  /\ fresh' = fresh \ copies
  /\ lost' = (lost \cup missed) \ copies

(* Who listens to langram:friend-request-changed.                          *)
Listeners == followed \ (IF mounted THEN {} ELSE {"page"})

(* A query is answered.                                                    *)
ReadRequests(f) ==
  /\ f \in fetches /\ f.of \in {"page", "count"} /\ f.request = None
  /\ fetches' = (fetches \ {f}) \cup {[f EXCEPT !.request = request]}
  /\ UNCHANGED <<followed, server, net, hints, page, main, fresh, lost, calls, bounds>>

ReadFriends(f) ==
  /\ f \in fetches /\ f.of \in {"page", "list"} /\ f.friend = None
  /\ fetches' = (fetches \ {f}) \cup {[f EXCEPT !.friend = friendship]}
  /\ UNCHANGED <<followed, server, net, hints, page, main, fresh, lost, calls, bounds>>

(* A fetch ends.  An action of the page, if it is not the clearing of      *)
(* requests, tells the listeners, itself among them.                       *)
Ends(f) ==
  IF f.by \in {"no", "clear"}
    THEN /\ fetches' = fetches \ {f}
         /\ fresh' = IF f.newest THEN fresh \cup {f.of} ELSE fresh \ {f.of}
         /\ UNCHANGED lost
    ELSE Begin(fetches \ {f}, Listeners, "no", {})

(* refreshFriendsData                                                      *)
ApplyPage(f) ==
  /\ f \in fetches /\ f.of = "page" /\ f.request # None /\ f.friend # None
  /\ shown' = [request |-> f.request, friend |-> f.friend]
  /\ busy' = (busy /\ f.by = "no")
  /\ Ends(f)
  /\ UNCHANGED <<followed, server, net, hints, mounted, main, calls, bounds>>

(* The same, by an action of a page that has been left.                    *)
ApplyNowhere(f) ==
  /\ f \in fetches /\ f.of = "gone"
  /\ IF f.by = "clear" THEN fetches' = fetches \ {f} /\ UNCHANGED <<fresh, lost>>
                       ELSE Begin(fetches \ {f}, Listeners, "no", {})
  /\ UNCHANGED <<followed, server, net, hints, page, main, calls, bounds>>

(* refreshFriendRequestCount                                               *)
ApplyCount(f) ==
  /\ f \in fetches /\ f.of = "count" /\ f.request # None
  /\ count' = Waits(f.request)
  /\ Ends(f)
  /\ UNCHANGED <<followed, server, net, hints, page, friend, loaded, vouched, calls, bounds>>

(* MainLayout: listFriends                                                 *)
ApplyList(f) ==
  /\ f \in fetches /\ f.of = "list" /\ f.friend # None
  /\ friend' = f.friend /\ loaded' = TRUE /\ vouched' = FALSE
  /\ Ends(f)
  /\ UNCHANGED <<followed, server, net, hints, page, count, calls, bounds>>

(* A fetch fails; the first of the list leaves no friends.                 *)
FetchFails(f) ==
  /\ f \in fetches /\ faults < MaxFaults
  /\ fetches' = fetches \ {f} /\ faults' = faults + 1
  /\ loaded' = (loaded /\ f.of # "list")
  /\ friend' = IF f.of = "list" /\ f.first THEN 0 ELSE friend
  /\ fresh' = IF f.of = "list" /\ f.first THEN fresh \ {"list"} ELSE fresh
  /\ busy' = (busy /\ ~(f.of = "page" /\ f.by # "no"))
  /\ UNCHANGED <<followed, server, net, hints, mounted, shown, count, vouched, lost, calls, acts, visits>>

-----------------------------------------------------------------------------
(* Changes                                                                 *)

(* notifyFriendRequestChanged: a hint goes to the socket that is           *)
(* registered.  A page that is shown hears of what happens without a       *)
(* connection when there is one again.                                     *)
Notify ==
  IF sock = "served" THEN hints' = hints + 1 /\ UNCHANGED lost
  ELSE /\ lost' = lost \cup (IF sock = "open" THEN Copy ELSE Copy \ {"page"})
       /\ UNCHANGED hints

Unfriended == friendship' = 0 /\ UNCHANGED request /\ Notify

Act == acts < MaxActs /\ acts' = acts + 1 /\ UNCHANGED <<followed, visits, faults>>

(* The other user asks, answers, ends the friendship, or clears the        *)
(* answered requests, of which nobody is told.                             *)
PeerAsks ==
  /\ request = NoRow /\ friendship = 0 /\ Act
  /\ request' = [id |-> New, state |-> "incoming"] /\ UNCHANGED friendship /\ Notify
  /\ UNCHANGED <<followed, net, page, main, fetches, fresh, calls>>

PeerAnswers ==
  /\ request.state = "outgoing" /\ friendship = 0 /\ Act
  /\ request' = [request EXCEPT !.state = "answered"] /\ friendship' \in {0, New} /\ Notify
  /\ UNCHANGED <<followed, net, page, main, fetches, fresh, calls>>

PeerDeletes ==
  /\ friendship # 0 /\ Act
  /\ Unfriended
  /\ UNCHANGED <<followed, net, page, main, fetches, fresh, calls>>

PeerClears ==
  /\ request.state = "answered" /\ Act
  /\ request' = NoRow /\ lost' = lost \cup {"page"}
  /\ UNCHANGED <<followed, friendship, net, hints, page, main, fetches, fresh, calls>>

(* An action of the page, on what it shows: handleRespond,                 *)
(* handleSubmitRequest, handleClearRequests, confirmDeleteFriend.          *)
Press(op, target) ==
  /\ mounted /\ ~busy /\ Act
  /\ CASE op \in {"accept", "reject"} -> Waits(shown.request) /\ target = shown.request.id
       [] op = "clear"  -> shown.request.state = "answered" /\ target = 0
       [] op = "delete" -> shown.friend # 0 /\ target = shown.friend
       [] op = "ask"    -> target = 0
  /\ busy' = TRUE
  /\ calls' = calls \cup {[n |-> New, op |-> op, target |-> target, here |-> TRUE, at |-> "asked"]}
  /\ UNCHANGED <<server, net, hints, mounted, shown, main, known>>

(* confirmDeleteFriendFromMenu: the menu of a chat has a friend to delete  *)
(* if the main page's list has one.                                        *)
PressMenu ==
  /\ ~mounted /\ friend # 0 /\ Act
  /\ \A c \in calls : c.op # "menu"
  /\ calls' = calls \cup {[n |-> New, op |-> "menu", target |-> friend, here |-> FALSE, at |-> "asked"]}
  /\ UNCHANGED <<server, net, hints, page, main, known>>

Goes(c, at) == calls' = (calls \ {c}) \cup {[c EXCEPT !.at = at]}

(* What the service asks for before it changes anything.                   *)
Granted(c) ==
  CASE c.op = "accept" -> request = [id |-> c.target, state |-> "incoming"] /\ friendship = 0
    [] c.op = "reject" -> request = [id |-> c.target, state |-> "incoming"]
    [] c.op = "ask"    -> request = NoRow /\ friendship = 0
    [] c.op = "clear"  -> TRUE
    [] OTHER           -> friendship = c.target

Handle(c) ==
  /\ c \in calls /\ c.at = "asked" /\ Granted(c)
  /\ CASE c.op \in {"accept", "reject"} ->
            /\ request' = [request EXCEPT !.state = "answered"]
            /\ friendship' = IF c.op = "accept" THEN c.n ELSE friendship
            /\ Notify
       [] c.op = "ask" -> request' = [id |-> c.n, state |-> "outgoing"] /\ UNCHANGED friendship /\ Notify
       [] c.op = "clear" ->
            /\ request' = IF request.state = "answered" THEN NoRow ELSE request
            /\ lost' = IF c.here THEN lost ELSE lost \cup {"page"}
            /\ UNCHANGED <<friendship, hints>>
       [] OTHER -> Unfriended
  /\ Goes(c, "done")
  /\ UNCHANGED <<followed, net, page, main, fetches, fresh, bounds>>

(* The call is refused, or fails, before the change or after it.           *)
Refuse(c) ==
  /\ c \in calls
  /\ \/ c.at = "asked" /\ ~Granted(c) /\ UNCHANGED faults
     \/ c.at # "refused" /\ faults < MaxFaults /\ faults' = faults + 1
  /\ Goes(c, "refused")
  /\ lost' = IF c.op = "clear" /\ c.at = "done" THEN lost \cup {"page"} ELSE lost
  /\ UNCHANGED <<followed, server, net, hints, page, main, fetches, fresh, acts, visits>>

(* The answer.  An action of the page goes on to refreshFriendsData, on a  *)
(* page that was left as well; the menu changes the list of the main page. *)
Answered(c) ==
  /\ c \in calls /\ c.at = "done"
  /\ calls' = calls \ {c}
  /\ IF c.op = "menu"
       THEN /\ friend' = IF friend = c.target THEN 0 ELSE friend
            /\ loaded' = TRUE
            /\ UNCHANGED known
       ELSE /\ UNCHANGED <<friend, loaded>>
            /\ IF c.here THEN Begin(fetches, {"page"}, c.op, {})
               ELSE fetches' = fetches \cup {Fetch("gone", FALSE, c.op)} /\ UNCHANGED <<fresh, lost>>
  /\ UNCHANGED <<followed, server, net, hints, page, count, vouched, bounds>>

Refused(c) ==
  /\ c \in calls /\ c.at = "refused"
  /\ calls' = calls \ {c}
  /\ busy' = (busy /\ ~c.here)
  /\ UNCHANGED <<server, net, hints, mounted, shown, main, known, bounds>>

-----------------------------------------------------------------------------
(* The page and the connection                                             *)

OpenContacts ==
  /\ ~mounted /\ visits < MaxVisits /\ "page" \in followed
  /\ mounted' = TRUE /\ visits' = visits + 1
  /\ Begin(fetches, {"page"}, "no", {})
  /\ UNCHANGED <<followed, server, net, hints, shown, busy, main, calls, acts, faults>>

(* The state of the page goes; its actions go on without it.               *)
Leave ==
  /\ mounted' = FALSE /\ shown' = Blank /\ busy' = FALSE
  /\ fetches' = {f \in fetches : f.of # "page"}
                  \cup {Fetch("gone", FALSE, f.by) : f \in {g \in fetches : g.of = "page" /\ g.by # "no"}}
  /\ calls' = {[c EXCEPT !.here = FALSE] : c \in calls}
  /\ fresh' = fresh \ {"page"} /\ lost' = lost \ {"page"}

LeaveContacts ==
  /\ mounted /\ Leave
  /\ UNCHANGED <<followed, server, net, hints, main, bounds>>

(* handleMessageFriend puts the page's friend into the main page's list.   *)
MessageFriend ==
  /\ mounted /\ ~busy /\ online /\ shown.friend # 0
  /\ friend' = shown.friend
  /\ vouched' = (vouched \/ (shown.friend # friend /\ "page" \notin fresh \ lost))
  /\ Leave
  /\ UNCHANGED <<followed, server, net, hints, count, loaded, bounds>>

TakeHint ==
  /\ hints > 0 /\ hints' = hints - 1
  /\ Begin(fetches, Listeners, "no", {})
  /\ UNCHANGED <<followed, server, net, page, main, calls, bounds>>

(* Mutant: the page does not fetch again with the connection. *)
SetOnlineOnly(value, missed) ==
  /\ online' = value
  /\ Begin(fetches, {}, "no", missed)

(* The page fetches when isNetworkOnline changes.                          *)
SetOnline(value, missed) ==
  /\ online' = value
  /\ Begin(fetches, IF mounted /\ online # value THEN {"page"} ELSE {}, "no", missed)

Connect ==
  /\ sock = "none" /\ sock' = "open"
  /\ SetOnline(TRUE, {})
  /\ UNCHANGED <<followed, server, hints, page, main, calls, bounds>>

(* handleConnection has registered the socket.                             *)
Register ==
  /\ sock = "open" /\ sock' = "served"
  /\ UNCHANGED <<server, online, hints, page, main, known, calls, bounds>>

Drop ==
  /\ sock # "none" /\ sock' = "none"
  /\ faults < MaxFaults /\ faults' = faults + 1
  /\ hints' = 0
  /\ SetOnline(FALSE, IF hints > 0 THEN Copy \ {"page"} ELSE {})
  /\ UNCHANGED <<followed, server, page, main, calls, acts, visits>>

(* A REST call that fails elsewhere sets 'reconnecting'.                   *)
Blame ==
  /\ online /\ faults < MaxFaults /\ faults' = faults + 1
  /\ SetOnline(FALSE, {})
  /\ UNCHANGED <<followed, server, sock, hints, page, main, calls, acts, visits>>

Next ==
  \/ PeerAsks \/ PeerAnswers \/ PeerDeletes \/ PeerClears
  \/ PressMenu \/ OpenContacts \/ LeaveContacts \/ MessageFriend
  \/ TakeHint \/ Connect \/ Register \/ Drop \/ Blame
  \/ \E op \in {"accept", "reject", "ask", "clear", "delete"}, target \in 0 .. MaxActs + 1 : Press(op, target)
  \/ \E c \in calls : Handle(c) \/ Refuse(c) \/ Answered(c) \/ Refused(c)
  \/ \E f \in fetches :
       \/ ReadRequests(f) \/ ReadFriends(f) \/ FetchFails(f)
       \/ ApplyPage(f) \/ ApplyNowhere(f) \/ ApplyCount(f) \/ ApplyList(f)

Spec == Init /\ [][Next]_vars

-----------------------------------------------------------------------------
Quiet == fetches = {} /\ calls = {} /\ hints = 0 /\ sock = "served"
Right(copy) == copy \in fresh \ lost

(* When nothing is under way, every copy whose latest fetch was answered   *)
(* last agrees with the server.  What goes by without a hint is made good  *)
(* by a reconnect for the contacts page, if it did not happen between the  *)
(* client's connect and the server's registration of the socket; the main  *)
(* page's copies wait for the next hint.                                   *)
QuietContactsAreRight ==
  Quiet =>
    /\ mounted /\ Right("page") => shown = [request |-> request, friend |-> friendship]
    /\ Right("count") => count = Waits(request)
    /\ Right("list") /\ loaded => friend = friendship \/ vouched
=============================================================================
