------------------------------ MODULE ClientStores ------------------------------
(* What a client shows: the messages of a conversation (ChatPages), the    *)
(* session, the connection and the list that it has (ClientSession), and   *)
(* what it is to another user (Contacts).  They share no state here.       *)
EXTENDS ChatPages

CONSTANTS
  Account,
  Presses,   \* kinds of logout call
  MaxLogins, MaxCalls, MaxFaults,
  Looks, MaxActs, MaxVisits  \* of Contacts

ASSUME AccountAssumption == None \notin Account
ASSUME PressesAssumption == {"login", "list", "change", "opened"} \cap Presses = {}
ASSUME LoginsAssumption  == MaxLogins \in Nat
ASSUME LooksAssumption ==
  \A look \in Looks : look.acts \in Nat /\ look.at \subseteq {"page", "count", "list"}

VARIABLES
  owner, alive, expired, session, replaced, page, status, seen, sock, wire, requests, list, opened,
  cached, fromCache, faults, stale, taken, visited, belated, blamed

client == <<owner, alive, expired, session, replaced, page, status, seen, sock, wire, requests, list,
            opened, cached, fromCache, faults, stale, taken, visited, belated, blamed>>

C == INSTANCE ClientSession WITH
       calls <- requests, shown <- list, selected <- opened, opened <- visited, late <- belated

VARIABLES
  followed, request, friendship, line, hints, online, mounted, onPage, busy, count, friend, loaded,
  fetches, actions, fresh, lost, vouched, acts, visits, mishaps

contacts == <<followed, request, friendship, line, hints, online, mounted, onPage, busy, count, friend, loaded,
              fetches, actions, fresh, lost, vouched, acts, visits, mishaps>>

K == INSTANCE Contacts WITH
       sock <- line, shown <- onPage, calls <- actions, faults <- mishaps

(* The dialog, the network status and the list tell the truth of the       *)
(* session: see ClientSession.                                             *)
ReplacedIsTrue     == C!ReplacedIsTrue
StatusIsTheSockets == C!StatusIsTheSockets
ShownIsOwn         == C!ShownIsOwn

(* What a client shows of its contacts once it is quiet: see Contacts. *)
QuietContactsAreRight == K!QuietContactsAreRight
=============================================================================
