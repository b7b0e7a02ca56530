----------------------------- MODULE ClientSession -----------------------------
(***************************************************************************)
(* One client and its session: the token and the user of the auth store,   *)
(* the socket and the network status, the REST calls that are under way,   *)
(* and what the chat store shows, across logins, logouts, pages, losses of *)
(* the connection and logins of the same account on another device.        *)
(*                                                                         *)
(* A REST call carries the token of the moment it is sent; its answer is   *)
(* handled whoever is logged in by then.  Conversations are put into the   *)
(* list by loadConversations, and one by one by the answers to the calls   *)
(* that open one or change a group.  The chat store is not emptied by a    *)
(* logout.  Tokens are not refreshed by the client.  Leaving the main page *)
(* drops the socket.                                                       *)
(*                                                                         *)
(* A conversation stands for all those of its account.  What the socket's  *)
(* events put in or take out of the list is the session's own and left     *)
(* out, and so is leaveGroup, whose answer only takes out.                 *)
(***************************************************************************)
EXTENDS Naturals, Sequences, FiniteSets

CONSTANTS
  Account,
  None,
  Presses,     \* bound: kinds of logout call, one for each press of the button
               \* before it is answered
  MaxLogins,   \* bound: sessions that are made, here or elsewhere
  MaxCalls,    \* bound: calls under way when the user acts, one of them a
               \* change of each session
  MaxFaults    \* bound: losses of the connection and calls that fail

Session == 1 .. MaxLogins

VARIABLES
  owner,      \* server: the account of each session made
  alive,      \* server: sessions that are not revoked
  expired,    \* sessions whose access token is past its time
  session,    \* the session whose token the client holds, or None
  replaced,   \* isSessionReplaced: the dialog is open
  page,
  status,     \* of the network store
  seen,       \* hasObservedOnlineForSyncRef of the main page
  sock,       \* [token, state] of the socket
  wire,       \* events on their way to the socket
  calls,      \* REST calls under way
  shown,      \* whose conversations are in the list of the chat store
  selected,   \* whose conversation is selected there
  cached,     \* whose conversations are in the local cache
  fromCache,  \* isUsingCachedConversations
  faults,
  stale,      \* history: an earlier session's 401 has reached this session
  taken,      \* history: the list taken last is this session's
  opened,     \* history: what has been selected in this session, and at its start
  late,       \* history: what earlier sessions' changes have put into the list taken last
  blamed      \* history: a REST call failed since the socket opened

server == <<owner, alive, expired>>
view   == <<shown, selected, cached, fromCache>>
past   == <<stale, taken, opened, late, blamed>>
vars   == <<server, session, replaced, page, status, seen, sock, wire, calls, view, faults, past>>

NoSocket == [token |-> None, state |-> "none"]
Made == {s \in Session : owner[s] # None}
Next1 == CHOOSE s \in Session \ Made : \A r \in Session \ Made : s <= r
Valid(s) == s \in alive \ expired
Room == Cardinality(calls) < MaxCalls
Fault == faults < MaxFaults /\ faults' = faults + 1

(* AccessTokenGuard: the time of the token is looked at before its session.*)
(* An answer is given at any moment between its request and its coming.    *)
Judgement(s) == IF s \in expired THEN "expired" ELSE IF s \in alive THEN "granted" ELSE "revoked"
Call(kind, s) == [kind |-> kind, by |-> s, sent |-> Judgement(s)]

(* Mutant: every 401 counts as the session's end. *)
Denied(c) == c.sent # "granted" \/ ~Valid(c.by)

Granted(c) == c.sent = "granted"

Revoked(c) == c.sent # "expired" /\ c.by \notin alive

Expired(c) == c.by \in expired
List(s) == calls \cup {Call("list", s)}

(* notifySessionReplaced: the answer to c of a session that was revoked *)
Replaced(c) ==
  /\ replaced' = (replaced \/ session # None)
  /\ stale' = (stale \/ session # c.by)

-----------------------------------------------------------------------------
(* The store of the socket: connect, disconnect, and the main page's effect*)

(* Mutant: the status stays until the socket says something. *)
ConnectQuietly(s) ==
  /\ sock' = [token |-> s, state |-> "opening"]
  /\ status' = status
  /\ wire' = <<>>
  /\ seen' = IF page = "main" THEN seen ELSE status = "online"
  /\ blamed' = FALSE

(* A main page that is opened has seen the status of the page before. *)
Connect(s) ==
  /\ sock' = [token |-> s, state |-> "opening"]
  /\ status' = "connecting"
  /\ wire' = <<>>
  /\ seen' = IF page = "main" THEN seen ELSE status = "online"
  /\ blamed' = FALSE

Disconnect ==
  /\ sock' = NoSocket
  /\ status' = "disconnected"
  /\ wire' = <<>>
  /\ UNCHANGED <<seen, blamed>>

(* disconnect(), clearSession(), navigate *)
Leave == Disconnect /\ session' = None /\ page' = "auth"

-----------------------------------------------------------------------------
(* Logging in: a page of its own for each kind of login, and each page     *)
(* sends one at a time.                                                    *)

Submit(a) ==
  /\ page = "auth" /\ Room
  /\ calls' = calls \cup {[kind |-> "login", by |-> a, sent |-> "granted"]}
  /\ UNCHANGED <<server, session, replaced, page, status, seen, sock, wire, view, faults, past>>

(* The server's side of a login: every session of the account is revoked.  *)
Issue(a, s) ==
  /\ owner' = [owner EXCEPT ![s] = a]
  /\ alive' = {r \in alive : owner[r] # a} \cup {s}
  /\ expired' = expired

(* setSession, navigate: the main page connects and loads the list. *)
LoginAnswered ==
  \E c \in calls :
    /\ c.kind = "login"
    /\ Session \ Made # {}
    /\ Issue(c.by, Next1)
    /\ session' = Next1
    /\ replaced' = FALSE
    /\ page' = "main"
    /\ Connect(Next1)
    /\ calls' = (calls \ {c}) \cup {[kind |-> "list", by |-> Next1, sent |-> "granted"]}
    /\ stale' = FALSE /\ taken' = FALSE /\ opened' = {selected}
    /\ UNCHANGED <<view, faults, late>>

LoginFails ==
  \E c \in calls :
    /\ c.kind = "login"
    /\ Fault
    /\ calls' = calls \ {c}
    /\ status' = "reconnecting"
    /\ blamed' = TRUE
    /\ UNCHANGED <<server, session, replaced, page, seen, sock, wire, view, stale, taken, opened, late>>

LoginRefused ==
  \E c \in calls :
    /\ c.kind = "login"
    /\ calls' = calls \ {c}
    /\ UNCHANGED <<server, session, replaced, page, status, seen, sock, wire, view, faults, past>>

(* AuthShell asks for the server's health while its page is open. *)
Probe(result) ==
  /\ page = "auth"
  /\ result = "connecting" => status = "disconnected"
  /\ status' = result
  /\ UNCHANGED <<server, session, replaced, page, seen, sock, wire, calls, view, faults, past>>

-----------------------------------------------------------------------------
(* Pages, logout, the dialog                                               *)

OpenSettings ==
  /\ page = "main"
  /\ page' = "settings"
  /\ Disconnect
  /\ UNCHANGED <<server, session, replaced, calls, view, faults, stale, taken, opened, late>>

OpenMain ==
  /\ page = "settings" /\ Room
  /\ page' = "main"
  /\ Connect(session)
  /\ calls' = List(session)
  /\ UNCHANGED <<server, session, replaced, view, faults, stale, taken, opened, late>>

(* The button stays where it is until the call is answered: it can be      *)
(* pressed again.                                                          *)
Logout ==
  /\ session # None /\ Room
  /\ \E kind \in Presses :
       /\ \A c \in calls : c.kind = kind => c.by # session
       /\ calls' = calls \cup {Call(kind, session)}
  /\ UNCHANGED <<server, session, replaced, page, status, seen, sock, wire, view, faults, past>>

(* Whatever comes of the call, and whoever is logged in, the client is     *)
(* logged out.  A call that failed may have reached the server.            *)
LogoutAnswered ==
  \E c \in calls :
    /\ c.kind \in Presses
    /\ calls' = calls \ {c}
    /\ \/ Granted(c) /\ alive' = alive \ {c.by} /\ UNCHANGED <<replaced, stale, faults>>
       \/ Expired(c) /\ UNCHANGED <<alive, replaced, stale, faults>>
       \/ Revoked(c) /\ Replaced(c) /\ UNCHANGED <<alive, faults>>
       \/ Fault /\ alive' \in {alive, alive \ {c.by}} /\ UNCHANGED <<replaced, stale>>
    /\ Leave
    /\ UNCHANGED <<owner, expired, view, taken, opened, late>>

Confirm ==
  /\ replaced
  /\ replaced' = FALSE
  /\ Leave
  /\ UNCHANGED <<server, calls, view, faults, stale, taken, opened, late>>

Select ==
  /\ page = "main"
  /\ selected' \in shown
  /\ opened' = opened \cup {selected'}
  /\ UNCHANGED <<server, session, replaced, page, status, seen, sock, wire, calls, shown, cached, fromCache, faults, stale, taken, late, blamed>>

Close ==
  /\ page = "main"
  /\ selected' = None
  /\ UNCHANGED <<server, session, replaced, page, status, seen, sock, wire, calls, shown, cached, fromCache, faults, past>>

-----------------------------------------------------------------------------
(* loadConversations                                                       *)

(* Mutant: the list is added to what there is. *)
ListAdded ==
  \E c \in calls :
    /\ c.kind = "list" /\ Granted(c)
    /\ calls' = calls \ {c}
    /\ shown' = shown \cup {owner[c.by]}
    /\ cached' = cached \cup shown'
    /\ fromCache' = FALSE
    /\ taken' = (session = c.by) /\ late' = {}
    /\ UNCHANGED <<server, session, replaced, page, status, seen, sock, wire, selected, faults, stale, opened, blamed>>

ListTaken ==
  \E c \in calls :
    /\ c.kind = "list" /\ Granted(c)
    /\ calls' = calls \ {c}
    /\ shown' = {owner[c.by]} \cup (IF selected \in shown THEN {selected} ELSE {})
    /\ cached' = cached \cup shown'
    /\ fromCache' = FALSE
    /\ taken' = (session = c.by) /\ late' = {}
    /\ UNCHANGED <<server, session, replaced, page, status, seen, sock, wire, selected, faults, stale, opened, blamed>>

CallRevoked ==
  \E c \in calls :
    /\ c.kind \in {"list", "change"} /\ Revoked(c)
    /\ calls' = calls \ {c}
    /\ Replaced(c)
    /\ UNCHANGED <<server, session, page, status, seen, sock, wire, view, faults, taken, opened, late, blamed>>

(* Any other error shows a message; so does a change without an answer.    *)
CallRefused ==
  \E c \in calls :
    /\ c.kind \in {"list", "change"}
    /\ (Expired(c) /\ faults' = faults) \/ Fault
    /\ calls' = calls \ {c}
    /\ UNCHANGED <<server, session, replaced, page, status, seen, sock, wire, view, past>>

ListFails ==
  \E c \in calls :
    /\ c.kind = "list"
    /\ Fault
    /\ calls' = calls \ {c}
    /\ status' = "reconnecting"
    /\ blamed' = TRUE
    /\ IF cached # {} THEN shown' = cached /\ fromCache' = TRUE ELSE UNCHANGED <<shown, fromCache>>
    /\ UNCHANGED <<server, session, replaced, page, seen, sock, wire, selected, cached, stale, taken, opened, late>>

-----------------------------------------------------------------------------
(* Opening a conversation and changing a group                             *)

Change ==
  /\ page = "main" /\ Room
  /\ \A c \in calls : c.kind = "change" => c.by # session
  /\ calls' = calls \cup {Call("change", session)}
  /\ UNCHANGED <<server, session, replaced, page, status, seen, sock, wire, view, faults, past>>

(* upsertConversation, cacheConversationSummaries: one that the list does  *)
(* not have is put before the others.                                      *)
Put(c) ==
  /\ shown' = shown \cup {owner[c.by]}
  /\ cached' = cached \cup shown'
  /\ late' = IF session = c.by THEN late ELSE late \cup {owner[c.by]}

SelectPut(c) == selected' = owner[c.by] /\ opened' = opened \cup {selected'}

(* Opening also selects, and a direct conversation is put and selected     *)
(* again when its messages have been loaded.                               *)
ChangeAnswered ==
  \E c \in calls :
    /\ c.kind = "change" /\ Granted(c)
    /\ Put(c)
    /\ \/ calls' = calls \ {c} /\ UNCHANGED <<selected, opened>>
       \/ calls' = calls \ {c} /\ SelectPut(c)
       \/ calls' = (calls \ {c}) \cup {[kind |-> "opened", by |-> c.by, sent |-> "granted"]} /\ SelectPut(c)
    /\ UNCHANGED <<server, session, replaced, page, status, seen, sock, wire, fromCache, faults, stale, taken, blamed>>

OpenedAgain ==
  \E c \in calls :
    /\ c.kind = "opened"
    /\ calls' = calls \ {c}
    /\ Put(c) /\ SelectPut(c)
    /\ UNCHANGED <<server, session, replaced, page, status, seen, sock, wire, fromCache, faults, stale, taken, blamed>>

-----------------------------------------------------------------------------
(* The socket                                                              *)

(* 'connect': the page is online, and after an interruption loads anew. *)
SocketOpens ==
  /\ sock.state = "opening"
  /\ sock' = [sock EXCEPT !.state = "open"]
  /\ status' = "online"
  /\ seen' = TRUE
  /\ calls' = IF seen THEN List(session) ELSE calls
  /\ blamed' = FALSE
  /\ UNCHANGED <<server, session, replaced, page, wire, view, faults, stale, taken, opened, late>>

(* handleConnection: the gateway registers the socket or drops it. *)
Judge ==
  /\ sock.state = "open"
  /\ sock' = [sock EXCEPT !.state = IF Valid(sock.token) THEN "accepted" ELSE "refused"]
  /\ wire' = IF Valid(sock.token) THEN wire ELSE Append(wire, "bye")
  /\ UNCHANGED <<server, session, replaced, page, status, seen, calls, view, faults, past>>

SocketLost ==
  /\ sock.state \in {"open", "accepted", "refused"}
  /\ Fault
  /\ sock' = [sock EXCEPT !.state = "lost"]
  /\ wire' = <<>>
  /\ status' = "reconnecting"
  /\ UNCHANGED <<server, session, replaced, page, seen, calls, view, past>>

SocketFails ==
  /\ sock.state = "opening"
  /\ Fault
  /\ sock' = [sock EXCEPT !.state = "lost"]
  /\ status' = "failed"
  /\ UNCHANGED <<server, session, replaced, page, seen, wire, calls, view, past>>

Retry ==
  /\ sock.state = "lost"
  /\ sock' = [sock EXCEPT !.state = "opening"]
  /\ status' = "reconnecting"
  /\ UNCHANGED <<server, session, replaced, page, seen, wire, calls, view, faults, past>>

(* A socket that the server has dropped does not connect again. *)
Receive ==
  /\ wire # <<>>
  /\ wire' = Tail(wire)
  /\ IF Head(wire) = "kicked"
     THEN replaced' = (session # None \/ replaced) /\ UNCHANGED <<sock, status>>
     ELSE /\ sock' = [sock EXCEPT !.state = "gone"]
          /\ status' = "reconnecting"
          /\ replaced' = replaced
  /\ UNCHANGED <<server, session, page, seen, calls, view, faults, past>>

-----------------------------------------------------------------------------
(* Elsewhere                                                               *)

LoginElsewhere(a) ==
  /\ Session \ Made # {}
  /\ Issue(a, Next1)
  /\ wire' = IF sock.state = "accepted" /\ owner[sock.token] = a
             THEN wire \o <<"kicked", "bye">> ELSE wire
  /\ sock' = IF wire' = wire THEN sock ELSE [sock EXCEPT !.state = "refused"]
  /\ UNCHANGED <<session, replaced, page, status, seen, calls, view, faults, past>>

(* The time of a token that the client no longer uses does not matter. *)
Expire(s) ==
  /\ s \in {session, sock.token} \cup {c.by : c \in calls}
  /\ s \notin expired
  /\ expired' = expired \cup {s}
  /\ UNCHANGED <<owner, alive, session, replaced, page, status, seen, sock, wire, calls, view, faults, past>>

-----------------------------------------------------------------------------
Init ==
  /\ owner = [s \in Session |-> None]
  /\ alive = {} /\ expired = {}
  /\ session = None /\ replaced = FALSE
  /\ page = "auth" /\ status = "disconnected" /\ seen = FALSE
  /\ sock = NoSocket /\ wire = <<>> /\ calls = {}
  /\ shown = {} /\ selected = None /\ cached = {} /\ fromCache = FALSE
  /\ faults = 0
  /\ stale = FALSE /\ taken = FALSE /\ opened = {} /\ late = {} /\ blamed = FALSE

Next ==
  \/ \E a \in Account : Submit(a) \/ LoginElsewhere(a)
  \/ LoginAnswered \/ LoginFails \/ LoginRefused
  \/ \E result \in {"connecting", "online", "reconnecting"} : Probe(result)
  \/ OpenSettings \/ OpenMain \/ Logout \/ LogoutAnswered \/ Confirm \/ Select \/ Close
  \/ ListTaken \/ ListFails \/ CallRevoked \/ CallRefused
  \/ Change \/ ChangeAnswered \/ OpenedAgain
  \/ SocketOpens \/ Judge \/ SocketLost \/ SocketFails \/ Retry \/ Receive
  \/ \E s \in Session : Expire(s)

Spec == Init /\ [][Next]_vars

-----------------------------------------------------------------------------
(* The dialog tells the truth: the session was revoked, unless the answer  *)
(* that opened it belonged to an earlier session (http.ts hands every 401  *)
(* of a revoked session to notifySessionReplaced).                         *)
ReplacedIsTrue == replaced /\ session # None => session \notin alive \/ stale

(* What is sent while the page says online has a socket of this session to *)
(* go through: no status outlives its socket, over pages and logins.  And  *)
(* a page that says otherwise while its socket is accepted does so after a *)
(* REST call that failed since the socket opened (chat.store and           *)
(* serverHealth set 'reconnecting', and only the socket sets 'online').    *)
StatusIsTheSockets ==
  page = "main" =>
    /\ status = "online" => sock.token = session /\ sock.state \in {"open", "accepted", "refused"}
    /\ status # "online" /\ sock.state = "accepted" => blamed

(* Once the list taken last is this session's, what is left in it of an    *)
(* earlier login is only what was selected when this session began, or has *)
(* been selected in it before, or what an earlier session asked to be      *)
(* opened or changed and was answered since (upsertOpenedConversation does *)
(* not ask who is logged in); until the cache is shown.                    *)
ShownIsOwn ==
  session # None /\ taken /\ ~fromCache => shown \subseteq {owner[session]} \cup opened \cup late
=============================================================================
