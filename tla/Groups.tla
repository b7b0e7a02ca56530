-------------------------------- MODULE Groups --------------------------------
(***************************************************************************)
(* One group conversation: who is a member, what ConversationsService does *)
(* with it, and what the client of one user, Me, makes of the events, the  *)
(* answers to its own requests and the lists that it loads.                *)
(*                                                                         *)
(* A handler checks what it may do, writes, reads the conversation again   *)
(* and tells the members: each is an await, and handlers interleave.  The  *)
(* socket keeps events in order, answers of the REST interface come when   *)
(* they come.  All users are each other's friends.  Title, intro, avatar   *)
(* and announcement are one value, the request that wrote them; nicknames  *)
(* and remarks are left out, not the events and answers about them.        *)
(***************************************************************************)
EXTENDS Naturals, Sequences, FiniteSets

CONSTANTS
  User, Me, None,
  MaxRequests,     \* bound: requests that change the group
  MaxLoads,        \* bound: loads of the list
  MaxDisconnects   \* bound: losses of Me's connection

ASSUME UserAssumption == Me \in User /\ None \notin User /\ None \notin Nat
ASSUME BoundAssumption == MaxRequests \in Nat /\ MaxLoads \in Nat /\ MaxDisconnects \in Nat

VARIABLES
  role,      \* of a user's row in conversation_members, None for no row
  left,      \* the users whose row has a leftAt
  info,      \* the request that last wrote the group's information
  requests,  \* how many there have been
  handlers,  \* requests that have been checked
  online,    \* Me has a socket
  inbox,     \* its events, in order
  loads,     \* loadConversations under way, and how many there have been
  view,      \* the group in Me's list of conversations
  selected,  \* it is selected
  dropped,   \* history: how often the connection was lost
  raced,     \* history: requests, loads or answers have overlapped
  kept       \* history: the list was without the group, which stayed as it was selected

rows   == <<role, left, info>>
client == <<view, selected>>
vars == <<rows, requests, handlers, online, inbox, loads, client, dropped, raced, kept>>

Op    == {"add", "remove", "leave", "update", "nickname", "remark"}
Info  == 0 .. MaxRequests
Group == [members : SUBSET User, gone : SUBSET User, info : Info]
ASSUME GroupAssumption == None \notin Group /\ None \notin {"OWNER", "MEMBER"}
Handler == [id : Info, op : Op, by : User, whom : User, row : BOOLEAN, saw : SUBSET User,
            at : {"checked", "written", "read", "told"}, group : Group \cup {None}]
Event == [kind : {"group"}, group : Group] \cup [kind : {"gone", "member"}, whom : User]

Active == {u \in User : role[u] # None} \ left
Owners == {u \in Active : role[u] = "OWNER"}

(* conversationInclude: only members who have not left. *)
Current == [members |-> Active, gone |-> {}, info |-> info]

-----------------------------------------------------------------------------
(* Requests                                                                *)

(* What the service asks for before it writes. *)
Allowed(op, by, whom) ==
  /\ by \in Active
  /\ op = "add"    => whom \notin Active
  /\ op = "remove" => by \in Owners /\ whom \in Active \ Owners
  /\ op = "update" => by \in Owners
  /\ op \in {"leave", "update", "nickname", "remark"} => whom = by

Check(op, by, whom) ==
  /\ requests < MaxRequests
  /\ Allowed(op, by, whom)
  /\ requests' = requests + 1
  /\ handlers' = handlers \cup {[id |-> requests + 1, op |-> op, by |-> by, whom |-> whom,
                                 row |-> role[whom] # None, saw |-> Active,
                                 at |-> "checked", group |-> None]}
  /\ raced' = (raced \/ handlers # {} \/ loads.at # "none")
  /\ UNCHANGED <<rows, online, inbox, loads, client, dropped, kept>>

Proceed(h, at, group) == handlers' = (handlers \ {h}) \cup {[h EXCEPT !.at = at, !.group = group]}

(* Mutant: who comes back is what he was. *)
AddKeepsRole(h) ==
  /\ role' = [role EXCEPT ![h.whom] = IF h.row THEN @ ELSE "MEMBER"]
  /\ left' = left \ {h.whom}

(* A row that was there is revived, as a plain member. *)
Add(h) ==
  /\ role' = [role EXCEPT ![h.whom] = "MEMBER"]
  /\ left' = left \ {h.whom}

(* removeGroupMember and leaveGroup *)
Leave(h) ==
  /\ left' = left \cup {h.whom}
  /\ UNCHANGED role

Write(h) ==
  /\ h \in handlers /\ h.at = "checked"
  /\ CASE h.op = "add" -> (h.row \/ role[h.whom] = None) /\ Add(h) /\ UNCHANGED info
       [] h.op \in {"remove", "leave"} -> Leave(h) /\ UNCHANGED info
       [] h.op = "update" -> info' = h.id /\ UNCHANGED <<role, left>>
       [] OTHER -> UNCHANGED rows
  /\ Proceed(h, "written", None)
  /\ UNCHANGED <<requests, online, inbox, loads, client, dropped, raced, kept>>

(* Another request has created the row: the unique index refuses a second. *)
AddRefused(h) ==
  /\ h \in handlers /\ h.at = "checked" /\ h.op = "add"
  /\ ~h.row /\ role[h.whom] # None
  /\ handlers' = handlers \ {h}
  /\ UNCHANGED <<rows, requests, online, inbox, loads, client, dropped, raced, kept>>

(* findAccessibleConversation *)
Reread(h) ==
  /\ h \in handlers /\ h.at = "written" /\ h.op # "leave"
  /\ h.by \in Active
  /\ Proceed(h, "read", Current)
  /\ UNCHANGED <<rows, requests, online, inbox, loads, client, dropped, raced, kept>>

(* The caller has left meanwhile: what was written stays, and nobody is told. *)
RereadFails(h) ==
  /\ h \in handlers /\ h.at = "written" /\ h.op # "leave"
  /\ h.by \notin Active
  /\ handlers' = handlers \ {h}
  /\ UNCHANGED <<rows, requests, online, inbox, loads, client, dropped, raced, kept>>

(* Mutant: who is removed is not told. *)
ToldOthers(h) ==
  CASE h.op = "add"                   -> h.saw \cup {h.whom}
    [] h.op \in {"remove", "leave"}   -> h.saw \ {h.whom}
    [] h.op \in {"update", "nickname"} -> h.group.members
    [] OTHER                          -> {}

(* Who hears of it: as checked, or as read again. *)
Told(h) ==
  CASE h.op = "add"                   -> h.saw \cup {h.whom}
    [] h.op = "remove"                -> h.saw
    [] h.op = "leave"                 -> h.saw \ {h.whom}
    [] h.op \in {"update", "nickname"} -> h.group.members
    [] OTHER                          -> {}

EventOf(h) ==
  IF h.op \in {"add", "update"} THEN [kind |-> "group", group |-> h.group]
  ELSE [kind |-> IF h.op = "nickname" THEN "member" ELSE "gone", whom |-> h.whom]

Tell(h) ==
  /\ h \in handlers
  /\ h.at = "read" \/ (h.at = "written" /\ h.op = "leave")
  /\ inbox' = IF online /\ Me \in Told(h) THEN Append(inbox, EventOf(h)) ELSE inbox
  /\ IF h.by = Me THEN Proceed(h, "told", h.group) ELSE handlers' = handlers \ {h}
  /\ UNCHANGED <<rows, requests, online, loads, client, dropped, raced, kept>>

-----------------------------------------------------------------------------
(* Me's client                                                             *)

Shown(group) == view' = group /\ UNCHANGED selected
Hidden       == view' = None /\ selected' = FALSE

(* patchConversationMember *)
Patched(e) ==
  CASE e.kind = "gone" /\ e.whom \notin view.members \cup view.gone -> view
    [] e.kind = "gone"   -> [view EXCEPT !.members = @ \ {e.whom}, !.gone = @ \cup {e.whom}]
    [] e.kind = "member" -> [view EXCEPT !.members = @ \cup {e.whom}, !.gone = @ \ {e.whom}]

(* handleConversationUpdated, handleConversationMemberUpdated *)
HandleEvent ==
  /\ inbox # <<>>
  /\ LET e == Head(inbox)
     IN  \/ e.kind = "group" /\ Me \in e.group.members /\ Shown(e.group)
         \/ e.kind = "group" /\ Me \notin e.group.members /\ UNCHANGED client
         \/ e.kind = "gone" /\ e.whom = Me /\ Hidden
         \/ e.kind # "group" /\ (e.kind = "gone" => e.whom # Me)
            /\ IF view = None THEN UNCHANGED client ELSE Shown(Patched(e))
  /\ inbox' = Tail(inbox)
  /\ UNCHANGED <<rows, requests, handlers, online, loads, dropped, raced, kept>>

(* The answer to Me's own request; upsertOpenedConversation does not ask   *)
(* whether Me is among the members.                                        *)
HandleAnswer(h) ==
  /\ h \in handlers /\ h.at = "told"
  /\ IF h.op = "leave" THEN Hidden ELSE Shown(h.group)
  /\ handlers' = handlers \ {h}
  /\ raced' = (raced \/ inbox # <<>> \/ loads.at # "none")
  /\ UNCHANGED <<rows, requests, online, inbox, loads, dropped, kept>>

Select   == view # None /\ selected' = TRUE /\ UNCHANGED view
Deselect == selected' = FALSE /\ UNCHANGED view

Click ==
  /\ IF selected THEN Deselect ELSE Select
  /\ UNCHANGED <<rows, requests, handlers, online, inbox, loads, dropped, raced, kept>>

AskList == loads' = [n |-> loads.n + 1, at |-> "asked", group |-> None]

(* A message of a conversation that the client does not know. *)
LoadConversations ==
  /\ loads.n < MaxLoads /\ loads.at = "none" /\ online
  /\ AskList
  /\ raced' = (raced \/ handlers # {})
  /\ UNCHANGED <<rows, requests, handlers, online, inbox, client, dropped, kept>>

ListConversations ==
  /\ loads.at = "asked"
  /\ loads' = [loads EXCEPT !.at = "read", !.group = IF Me \in Active THEN Current ELSE None]
  /\ UNCHANGED <<rows, requests, handlers, online, inbox, client, dropped, raced, kept>>

(* A conversation that is selected stays when the list is without it. *)
Listed(group) == Shown(IF group = None /\ selected THEN view ELSE group)

HandleList ==
  /\ loads.at = "read"
  /\ Listed(loads.group) /\ kept' = (loads.group = None /\ selected)
  /\ loads' = [loads EXCEPT !.at = "none", !.group = None]
  /\ UNCHANGED <<rows, requests, handlers, online, inbox, dropped, raced>>

Disconnect ==
  /\ online /\ dropped < MaxDisconnects
  /\ online' = FALSE /\ inbox' = <<>> /\ dropped' = dropped + 1
  /\ UNCHANGED <<rows, requests, handlers, loads, client, raced, kept>>

(* The effect of MainLayout loads the list again. *)
Reconnect ==
  /\ ~online /\ loads.at = "none"
  /\ online' = TRUE
  /\ AskList
  /\ raced' = (raced \/ handlers # {})
  /\ UNCHANGED <<rows, requests, handlers, inbox, client, dropped, kept>>

-----------------------------------------------------------------------------
(* Specification                                                           *)

(* createGroupConversation: its creator is the owner, the others are       *)
(* members; nobody is told, so that Me has loaded the list since.          *)
Init ==
  /\ \E o \in User, S \in SUBSET User :
       /\ o \notin S /\ S # {} /\ Me \in S \cup {o}
       /\ role = [u \in User |-> IF u = o THEN "OWNER" ELSE IF u \in S THEN "MEMBER" ELSE None]
  /\ left = {} /\ info = 0 /\ requests = 0 /\ handlers = {}
  /\ online = TRUE /\ inbox = <<>> /\ loads = [n |-> 0, at |-> "none", group |-> None]
  /\ view = Current /\ selected = FALSE /\ dropped = 0 /\ raced = FALSE /\ kept = FALSE

HandlerNext(h) == \/ Write(h) \/ AddRefused(h) \/ Reread(h) \/ RereadFails(h)
                  \/ Tell(h) \/ HandleAnswer(h)

Next ==
  \/ \E op \in Op, by, whom \in User : Check(op, by, whom)
  \/ \E h \in handlers : HandlerNext(h)
  \/ HandleEvent \/ Click \/ LoadConversations \/ ListConversations \/ HandleList
  \/ Disconnect \/ Reconnect

Spec == Init /\ [][Next]_vars

-----------------------------------------------------------------------------
(* Properties                                                              *)

(* Every variable has its type, only a user with a row can have left, and  *)
(* no conversation is selected that is not in the list.                    *)
TypeOK ==
  /\ role \in [User -> {"OWNER", "MEMBER", None}]
  /\ left \subseteq {u \in User : role[u] # None}
  /\ info \in Info /\ requests \in Info
  /\ handlers \subseteq Handler
  /\ {online, selected, raced, kept} \subseteq BOOLEAN
  /\ inbox \in Seq(Event)
  /\ loads \in [n : Nat, at : {"none", "asked", "read"}, group : Group \cup {None}]
  /\ view \in Group \cup {None} /\ (selected => view # None)
  /\ dropped \in 0 .. MaxDisconnects

Quiet == online /\ handlers = {} /\ inbox = <<>> /\ loads.at = "none"

(* As long as the requests of the members, and the loads and the answers   *)
(* of Me's client, have come one after the other, the client has the group *)
(* as it is whenever all is quiet: with its members and its information,   *)
(* and not at all when Me is no member, whatever it heard as an event, as  *)
(* an answer or, after it was away, from the list.  Only a group that Me   *)
(* had open when the list came without it stays, open or not, until the    *)
(* next list.                                                              *)
QuietViewIsRight ==
  Quiet /\ ~raced =>
    IF Me \in Active THEN view # None /\ view.members = Active /\ view.info = info
                     ELSE view = None \/ kept

(* The owner's leaving is final: leaveGroup appoints nobody, and when the  *)
(* former owner is added again addGroupMembers makes a plain member of     *)
(* him, so that nobody can ever remove a member or rename the group.       *)
NobodyInheritsTheGroup == [][Owners = {} => Owners' = {}]_vars
=============================================================================
