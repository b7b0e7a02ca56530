----------------------------- MODULE GroupsProofs -----------------------------
(***************************************************************************)
(* Proofs about a group and its forms, for any users, groups and texts and *)
(* any number of requests, loads, saves, failures and lost connections.    *)
(***************************************************************************)
EXTENDS GroupForms, SequenceTheorems, TLAPS

(* The group                                                               *)

(* A request knows the group once it has read it again; who leaves never   *)
(* does.                                                                   *)
HandlersKnow ==
  \A h \in handlers :
    h.at = "read" \/ (h.at = "told" /\ h.op # "leave") => h.group \in Group

(* Whoever is about to leave, or to be removed, has a row. *)
LeaversHaveRows == \A h \in handlers : h.op \in {"remove", "leave"} => role[h.whom] # None

IInv == TypeOK /\ HandlersKnow /\ LeaversHaveRows

-----------------------------------------------------------------------------
(* Type correctness                                                        *)

(* conversationInclude yields a group.                                     *)
LEMMA CurrentIsGroup == ASSUME TypeOK PROVE Current \in Group
  BY DEF TypeOK, Current, Active, Group

(* A handler that goes on is a handler.                                    *)
LEMMA GoingOnIsTyped ==
  ASSUME IInv, NEW h \in handlers, NEW at \in {"written", "read", "told"},
         NEW STATE group, group \in Group \cup {None}, Proceed(h, at, group),
         at = "read" \/ (at = "told" /\ h.op # "leave") => group \in Group,
         \A u \in User : role[u] # None => role'[u] # None
  PROVE  handlers' \subseteq Handler /\ HandlersKnow' /\ LeaversHaveRows'
<1>1. h \in Handler
  BY DEF IInv, TypeOK
<1> DEFINE n == [h EXCEPT !.at = at, !.group = group]
<1>2. n \in Handler /\ n.at = at /\ n.op = h.op /\ n.whom = h.whom /\ n.group = group
  BY <1>1 DEF Handler
<1>3. handlers' = (handlers \ {h}) \cup {n}
  BY DEF Proceed
<1> HIDE DEF n
<1>4. \A x \in Handler : x.whom \in User
  BY DEF Handler
<1>5. QED BY <1>2, <1>3, <1>4 DEF IInv, TypeOK, HandlersKnow, LeaversHaveRows

(* A step of Next keeps the types and what handlers know.                  *)
LEMMA TypesAreKept == IInv /\ [Next]_vars => IInv'
<1> SUFFICES ASSUME IInv, [Next]_vars PROVE IInv'
  OBVIOUS
<1> USE UserAssumption, BoundAssumption
<1>1. TypeOK /\ HandlersKnow /\ LeaversHaveRows /\ inbox \in Seq(Event)
  BY DEF IInv, TypeOK
<1>2. Current \in Group
  BY <1>1, CurrentIsGroup
<1>3. ASSUME handlers' \subseteq handlers,
             UNCHANGED <<rows, requests, online, inbox, loads, client, dropped, raced, kept>>
      PROVE  IInv'
  BY <1>1, <1>3 DEF IInv, TypeOK, HandlersKnow, LeaversHaveRows, rows, client
<1>4. ASSUME NEW op \in Op, NEW by \in User, NEW whom \in User, Check(op, by, whom) PROVE IInv'
  <2> DEFINE n == [id |-> requests + 1, op |-> op, by |-> by, whom |-> whom,
                   row |-> role[whom] # None, saw |-> Active,
                   at |-> "checked", group |-> None]
  <2>1. requests + 1 \in Info
    BY <1>1, <1>4 DEF Check, TypeOK, Info
  <2>2. n \in Handler /\ n.at = "checked" /\ n.op = op /\ n.whom = whom
    BY <2>1 DEF Handler, Active
  <2>3. handlers' = handlers \cup {n} /\ requests' = requests + 1 /\ raced' \in BOOLEAN
    BY <1>1, <1>4 DEF Check, TypeOK
  <2> HIDE DEF n
  <2>4. handlers' \subseteq Handler /\ HandlersKnow' /\ LeaversHaveRows'
    BY <1>1, <1>4, <2>2, <2>3
    DEF TypeOK, HandlersKnow, LeaversHaveRows, Check, Allowed, Active, Owners, rows
  <2>5. QED BY <1>1, <1>4, <2>1, <2>3, <2>4
    DEF Check, IInv, TypeOK, HandlersKnow, LeaversHaveRows, rows, client
<1>5. ASSUME NEW h \in handlers, Write(h) PROVE IInv'
  <2>1. h \in Handler
    BY <1>1 DEF TypeOK
  <2>3. /\ role' \in [User -> {"OWNER", "MEMBER", None}]
        /\ left' \subseteq {u \in User : role'[u] # None}
        /\ info' \in Info
        /\ \A u \in User : role[u] # None => role'[u] # None
    <3>1. /\ role \in [User -> {"OWNER", "MEMBER", None}]
          /\ left \subseteq {u \in User : role[u] # None}
          /\ info \in Info /\ (h.op \in {"remove", "leave"} => role[h.whom] # None)
      BY <1>1 DEF TypeOK, LeaversHaveRows
    <3>2. CASE h.op = "add"
      <4>1. /\ role' = [role EXCEPT ![h.whom] = "MEMBER"]
            /\ left' = left \ {h.whom} /\ info' = info
        BY <1>5, <3>2 DEF Write, Add
      <4>2. h.whom \in User /\ None # "MEMBER" /\ None # "OWNER"
        BY <2>1, GroupAssumption DEF Handler
      <4>3. QED BY <3>1, <4>1, <4>2
    <3>3. CASE h.op \in {"remove", "leave"}
      BY <1>5, <2>1, <3>1, <3>3 DEF Write, Leave, Handler
    <3>4. CASE h.op = "update"
      BY <1>5, <2>1, <3>1, <3>4 DEF Write, Handler
    <3>5. CASE h.op \in {"nickname", "remark"}
      BY <1>5, <2>1, <3>1, <3>5 DEF Write, rows
    <3>6. QED BY <2>1, <3>2, <3>3, <3>4, <3>5 DEF Handler, Op
  <2>4. handlers' \subseteq Handler /\ HandlersKnow' /\ LeaversHaveRows'
    BY <1>5, <2>3, GoingOnIsTyped DEF Write
  <2>5. QED BY <1>1, <1>5, <2>3, <2>4 DEF Write, IInv, TypeOK, client
<1>6. ASSUME NEW h \in handlers, AddRefused(h) \/ RereadFails(h) PROVE IInv'
  BY <1>3, <1>6 DEF AddRefused, RereadFails
<1>7. ASSUME NEW h \in handlers, Reread(h) PROVE IInv'
  <2>1. handlers' \subseteq Handler /\ HandlersKnow' /\ LeaversHaveRows'
    BY <1>2, <1>7, GoingOnIsTyped DEF Reread, rows
  <2>2. QED BY <1>1, <1>7, <2>1
    DEF Reread, IInv, TypeOK, HandlersKnow, LeaversHaveRows, rows, client
<1>8. ASSUME NEW h \in handlers, Tell(h) PROVE IInv'
  <2>1. h \in Handler /\ (h.at = "read" => h.group \in Group) /\ (h.op # "leave" => h.at = "read")
    BY <1>1, <1>8 DEF TypeOK, HandlersKnow, Tell
  <2>2. handlers' \subseteq Handler /\ HandlersKnow' /\ LeaversHaveRows'
    <3>1. CASE h.by = Me
      BY <1>8, <2>1, <3>1, GoingOnIsTyped DEF Tell, Handler, rows
    <3>2. CASE h.by # Me
      BY <1>1, <1>8, <3>2 DEF Tell, TypeOK, HandlersKnow, LeaversHaveRows, rows
    <3>3. QED BY <3>1, <3>2
  <2>3. EventOf(h) \in Event
    BY <2>1 DEF EventOf, Event, Handler
  <2>4. Append(inbox, EventOf(h)) \in Seq(Event)
    BY <1>1, <2>3, AppendProperties
  <2>5. inbox' \in Seq(Event)
    BY <1>1, <1>8, <2>4 DEF Tell
  <2>6. QED BY <1>1, <1>8, <2>2, <2>5
    DEF Tell, IInv, TypeOK, HandlersKnow, LeaversHaveRows, rows, client
<1>9. ASSUME NEW h \in handlers, HandleAnswer(h) PROVE IInv'
  <2>1. h.op # "leave" => h.group \in Group
    BY <1>1, <1>9 DEF HandleAnswer, HandlersKnow
  <2>2. view' \in Group \cup {None} /\ selected' \in BOOLEAN /\ (selected' => view' # None)
    <3>1. CASE h.op = "leave"
      BY <1>9, <3>1 DEF HandleAnswer, Hidden
    <3>2. CASE h.op # "leave"
      BY <1>1, <1>9, <2>1, <3>2, GroupAssumption DEF HandleAnswer, Shown, TypeOK
    <3>3. QED BY <3>1, <3>2
  <2>3. QED BY <1>1, <1>9, <2>2
    DEF HandleAnswer, IInv, TypeOK, HandlersKnow, LeaversHaveRows, rows
<1>10. CASE HandleEvent
  <2> DEFINE e == Head(inbox)
  <2>1. e \in Event /\ inbox' \in Seq(Event)
    <3>1. inbox # <<>> /\ inbox' = Tail(inbox)
      BY <1>10 DEF HandleEvent
    <3>2. QED BY <1>1, <3>1, HeadTailProperties
  <2>2. e.kind \in {"group", "gone", "member"} /\ (e.kind = "group" => e.group \in Group)
        /\ (e.kind # "group" => e.whom \in User)
    BY <2>1 DEF Event
  <2>3. /\ \/ UNCHANGED client \/ Hidden
           \/ e.kind = "group" /\ Shown(e.group)
           \/ e.kind # "group" /\ view # None /\ Shown(Patched(e))
        /\ UNCHANGED <<rows, requests, handlers, online, loads, dropped, raced, kept>>
    BY <1>10 DEF HandleEvent
  <2> HIDE DEF e
  <2>4. view \in Group \cup {None} /\ selected \in BOOLEAN /\ (selected => view # None)
    BY <1>1 DEF TypeOK
  <2>5. e.kind # "group" /\ view # None => Patched(e) \in Group
    BY <2>2, <2>4 DEF Patched, Group
  <2>6. view' \in Group \cup {None} /\ selected' \in BOOLEAN /\ (selected' => view' # None)
    <3>1. CASE UNCHANGED client
      BY <2>4, <3>1 DEF client
    <3>2. CASE Hidden
      BY <3>2 DEF Hidden
    <3>3. CASE e.kind = "group" /\ Shown(e.group)
      BY <2>2, <2>4, <3>3, GroupAssumption DEF Shown
    <3>4. CASE e.kind # "group" /\ view # None /\ Shown(Patched(e))
      BY <2>4, <2>5, <3>4, GroupAssumption DEF Shown
    <3>5. QED BY <2>3, <3>1, <3>2, <3>3, <3>4
  <2>7. QED BY <1>1, <2>1, <2>3, <2>6 DEF IInv, TypeOK, HandlersKnow, LeaversHaveRows, rows
<1>11. CASE Click
  <2>1. view' \in Group \cup {None} /\ selected' \in BOOLEAN /\ (selected' => view' # None)
    BY <1>1, <1>11 DEF Click, Select, Deselect, TypeOK
  <2>2. QED BY <1>1, <1>11, <2>1 DEF Click, IInv, TypeOK, HandlersKnow, LeaversHaveRows, rows
<1>12. CASE LoadConversations
  BY <1>1, <1>12
    DEF LoadConversations, AskList, IInv, TypeOK, HandlersKnow, LeaversHaveRows, rows, client
<1>13. CASE ListConversations
  BY <1>1, <1>2, <1>13
    DEF ListConversations, IInv, TypeOK, HandlersKnow, LeaversHaveRows, rows, client
<1>14. CASE HandleList
  <2>1. view' \in Group \cup {None} /\ selected' \in BOOLEAN /\ (selected' => view' # None)
        /\ kept' \in BOOLEAN
    BY <1>1, <1>14, GroupAssumption DEF HandleList, Listed, Shown, TypeOK
  <2>2. QED BY <1>1, <1>14, <2>1 DEF HandleList, IInv, TypeOK, HandlersKnow, LeaversHaveRows, rows
<1>15. CASE Disconnect
  <2>1. inbox' \in Seq(Event) /\ dropped' \in 0 .. MaxDisconnects
    BY <1>1, <1>15 DEF Disconnect, TypeOK
  <2>2. QED BY <1>1, <1>15, <2>1
    DEF Disconnect, IInv, TypeOK, HandlersKnow, LeaversHaveRows, rows, client
<1>16. CASE Reconnect
  BY <1>1, <1>16 DEF Reconnect, AskList, IInv, TypeOK, HandlersKnow, LeaversHaveRows, rows, client
<1>17. CASE UNCHANGED vars
  BY <1>3, <1>17 DEF vars, rows, client
<1>18. QED
  <2>1. ASSUME NEW h \in handlers, HandlerNext(h) PROVE IInv'
    BY <2>1, <1>5, <1>6, <1>7, <1>8, <1>9 DEF HandlerNext
  <2>2. QED BY <2>1, <1>4, <1>10, <1>11, <1>12, <1>13, <1>14, <1>15, <1>16, <1>17
    DEF Next, HandlerNext

(* In the initial state Me has the group as it is.                         *)
LEMMA InitEstablishes == Init => IInv
<1> SUFFICES ASSUME Init PROVE IInv
  OBVIOUS
<1>1. role \in [User -> {"OWNER", "MEMBER", None}] /\ 0 \in Info
  BY BoundAssumption DEF Init, Info
<1>2. Current \in Group
  BY <1>1 DEF Init, Current, Active, Group
<1>3. inbox \in Seq(Event)
  BY DEF Init
<1>4. loads \in [n : Nat, at : {"none", "asked", "read"}, group : Group \cup {None}]
  BY DEF Init
<1>5. /\ view \in Group \cup {None} /\ (selected => view # None)
      /\ {online, selected, raced, kept} \subseteq BOOLEAN
  BY <1>2 DEF Init
<1>6. dropped \in 0 .. MaxDisconnects /\ info \in Info /\ requests \in Info
  BY <1>1, BoundAssumption DEF Init
<1>7. left \subseteq {u \in User : role[u] # None} /\ handlers = {}
  BY DEF Init
<1>8. QED BY <1>1, <1>3, <1>4, <1>5, <1>6, <1>7 DEF IInv, TypeOK, HandlersKnow, LeaversHaveRows

(* The inductive invariant holds in every reachable state. *)
THEOREM Invariance == Spec => []IInv
  BY InitEstablishes, TypesAreKept, PTL DEF Spec

(* Every variable of Groups has its type. *)
THEOREM TypeCorrect == Spec => []TypeOK
<1>1. IInv => TypeOK
  BY DEF IInv
<1>2. QED BY <1>1, Invariance, PTL

-----------------------------------------------------------------------------
(* Ownership                                                               *)

(* No step makes an owner of someone who is none.                          *)
LEMMA OwnersAreNotMade == IInv /\ [Next]_vars => Owners' \subseteq Owners
<1> SUFFICES ASSUME IInv, [Next]_vars PROVE Owners' \subseteq Owners
  OBVIOUS
<1>1. role \in [User -> {"OWNER", "MEMBER", None}]
  BY DEF IInv, TypeOK
<1>2. CASE UNCHANGED rows
  BY <1>2 DEF rows, Owners, Active
<1>3. ASSUME NEW h \in handlers, Write(h) PROVE Owners' \subseteq Owners
  <2>1. h.whom \in User /\ h.op \in Op
    BY DEF IInv, TypeOK, Handler
  <2>2. CASE h.op = "add"
    BY <1>1, <1>3, <2>1, <2>2 DEF Write, Add, Owners, Active
  <2>3. CASE h.op \in {"remove", "leave"}
    BY <1>1, <1>3, <2>3 DEF Write, Leave, Owners, Active
  <2>4. CASE h.op \in {"update", "nickname", "remark"}
    BY <1>3, <2>4 DEF Write, Owners, Active, rows
  <2>5. QED BY <2>1, <2>2, <2>3, <2>4 DEF Op
<1>4. ASSUME NEW h \in handlers, HandlerNext(h) PROVE Owners' \subseteq Owners
  BY <1>2, <1>3, <1>4 DEF HandlerNext, AddRefused, Reread, RereadFails, Tell, HandleAnswer
<1>5. QED BY <1>2, <1>4 DEF Next, Check, HandleEvent, Click, LoadConversations, ListConversations,
             HandleList, Disconnect, Reconnect, vars

(* Once the owner has left nobody is ever the owner again, not even the    *)
(* former owner when addGroupMembers brings him back.                      *)
THEOREM OwnershipIsNotInherited == Spec => NobodyInheritsTheGroup
<1>1. IInv /\ [Next]_vars => [Owners = {} => Owners' = {}]_vars
  BY OwnersAreNotMade
<1>2. QED BY <1>1, Invariance, PTL DEF Spec, NobodyInheritsTheGroup

-----------------------------------------------------------------------------
(* Me's view                                                               *)

Says(e, u)  == e.kind = "group" \/ e.whom = u
Tells(e, u) == IF e.kind = "group" THEN u \in e.group.members ELSE e.kind = "member"

(* The event i is the last one in the inbox that says something of u. *)
Last(i, u) == Says(inbox[i], u) /\ \A j \in DOMAIN inbox : j > i => ~Says(inbox[j], u)
Unsaid(u)  == \A j \in DOMAIN inbox : ~Says(inbox[j], u)

NoGroupAfter(i) == \A j \in DOMAIN inbox : j > i => inbox[j].kind # "group"
Farewell(i) == inbox[i].kind = "gone" /\ inbox[i].whom = Me

(* What a request has written and Me is still to be told of *)
Untold(h, ops) == h.op \in ops /\ h.at \in {"written", "read"}
Moving(u) == \E h \in handlers : h.whom = u /\ Untold(h, {"add", "remove", "leave"})
Renaming  == \E h \in handlers : Untold(h, {"update"})

(* Me's own membership is changing. *)
Changing == Moving(Me) \/ \E h \in handlers : h.by = Me /\ h.op = "leave" /\ h.at = "told"

(* One request at a time, and none beside a load *)
OneByOne ==
  /\ \A h, k \in handlers : h = k
  /\ handlers # {} => loads.at = "none"

(* What a request has seen is as it was when it was checked, but for what  *)
(* it has written itself.                                                  *)
SeenIsTrue ==
  \A h \in handlers :
    /\ h.at = "checked" => h.saw = Active /\ Allowed(h.op, h.by, h.whom)
    /\ Untold(h, {"add"}) => Active = h.saw \cup {h.whom}
    /\ Untold(h, {"remove", "leave"}) => Active = h.saw \ {h.whom} /\ h.whom \in h.saw
    /\ Untold(h, {"nickname"}) => h.whom \in Active
    /\ h.op = "leave" => h.by = h.whom /\ (h.at # "checked" => h.by \notin Active)
    /\ h.op # "leave" => h.by \in Active
    /\ h.at = "read" \/ (h.at = "told" /\ h.op # "leave") => h.group = Current
    /\ h.at = "told" => h.by = Me
    /\ h.at = "read" => h.op # "leave"

(* The list that was read is true. *)
ListIsTrue == loads.at = "read" => loads.group = IF Me \in Active THEN Current ELSE None

(* Me is told of groups that Me is in. *)
GroupsHaveMe == \A i \in DOMAIN inbox : inbox[i].kind = "group" => Me \in inbox[i].group.members

(* A member who has no group to show is going to be told of it. *)
GroupIsComing ==
  Me \in Active /\ ~Changing =>
    /\ \A i \in DOMAIN inbox : Farewell(i) => ~NoGroupAfter(i)
    /\ view = None /\ loads.at = "none" => ~NoGroupAfter(0)

(* What was last said of a user is true; what is unsaid is in the view. *)
MembersAreTrue ==
  Me \in Active /\ ~Changing =>
    \A u \in User : ~Moving(u) =>
      /\ \A i \in DOMAIN inbox : Last(i, u) => (Tells(inbox[i], u) <=> u \in Active)
      /\ Unsaid(u) /\ view # None /\ loads.at = "none" => (u \in view.members <=> u \in Active)

(* The same of the group's information. *)
InfoIsTrue ==
  Me \in Active /\ ~Changing /\ ~Renaming =>
    /\ \A i \in DOMAIN inbox : inbox[i].kind = "group" /\ NoGroupAfter(i) => inbox[i].group.info = info
    /\ NoGroupAfter(0) /\ view # None /\ loads.at = "none" => view.info = info

(* Who is no member has no group, or is going to be told of it. *)
GoneIsComing ==
  Me \notin Active /\ ~Changing =>
    \/ \E i \in DOMAIN inbox : Farewell(i) /\ NoGroupAfter(i)
    \/ NoGroupAfter(0) /\ (view = None \/ kept \/ loads.at # "none")

TrueInv == OneByOne /\ SeenIsTrue /\ ListIsTrue
ViewInv == GroupsHaveMe /\ GroupIsComing /\ MembersAreTrue /\ InfoIsTrue /\ GoneIsComing

RInv ==
  /\ online \/ inbox = <<>>
  /\ ~raced => TrueInv /\ (online => ViewInv)

-----------------------------------------------------------------------------
(* Me's view: what handlers and loads know                                 *)

(* Where one request is handled, nothing else is under way.                *)
LEMMA OneHandler ==
  ASSUME IInv, TrueInv, NEW h \in handlers
  PROVE  handlers = {h} /\ loads.at = "none" /\ h \in Handler
  BY DEF IInv, TypeOK, TrueInv, OneByOne

(* It is the same request when it goes on.                                 *)
LEMMA SameRequest ==
  ASSUME IInv, TrueInv, NEW h \in handlers, NEW at, NEW group, Proceed(h, at, group)
  PROVE  \E n : /\ handlers' = {n} /\ n.at = at /\ n.group = group
                /\ n.id = h.id /\ n.op = h.op /\ n.by = h.by /\ n.whom = h.whom /\ n.saw = h.saw
<1>1. handlers = {h} /\ h \in Handler
  BY OneHandler
<1> DEFINE n == [h EXCEPT !.at = at, !.group = group]
<1>2. /\ n.at = at /\ n.group = group
      /\ n.id = h.id /\ n.op = h.op /\ n.by = h.by /\ n.whom = h.whom /\ n.saw = h.saw
  BY <1>1 DEF Handler
<1>3. handlers' = {n}
  BY <1>1 DEF Proceed
<1> HIDE DEF n
<1>4. QED BY <1>2, <1>3

(* What a request's write does to the members.                             *)
LEMMA Written ==
  ASSUME IInv, NEW h \in handlers, Write(h)
  PROVE  /\ h.op = "add" => Active' = Active \cup {h.whom}
         /\ h.op \in {"remove", "leave"} => Active' = Active \ {h.whom}
         /\ h.op \in {"update", "nickname", "remark"} => Active' = Active
         /\ h.op # "update" => info' = info
<1>1. /\ role \in [User -> {"OWNER", "MEMBER", None}]
      /\ left \subseteq {u \in User : role[u] # None}
      /\ h.whom \in User /\ h.op \in Op
  BY DEF IInv, TypeOK, Handler
<1>2. CASE h.op = "add"
  <2>1. /\ role' = [role EXCEPT ![h.whom] = "MEMBER"]
        /\ left' = left \ {h.whom} /\ info' = info
    BY <1>2 DEF Write, Add
  <2>2. None # "MEMBER"
    BY GroupAssumption
  <2>3. QED BY <1>1, <1>2, <2>1, <2>2 DEF Active
<1>3. CASE h.op \in {"remove", "leave"}
  BY <1>1, <1>3 DEF Write, Leave, Active
<1>4. CASE h.op \in {"update", "nickname", "remark"}
  BY <1>4 DEF Write, Active, rows
<1>5. QED BY <1>1, <1>2, <1>3, <1>4 DEF Op

(* A step after which nothing has raced keeps what handlers know.          *)
LEMMA TrueStays ==
  ASSUME IInv, TrueInv, [Next]_vars, ~raced'
  PROVE  TrueInv'
<1> USE UserAssumption
<1>1. ASSUME UNCHANGED <<rows, handlers>>, loads' = loads \/ (loads'.at # "read" /\ handlers = {})
      PROVE  TrueInv'
  BY <1>1 DEF TrueInv, OneByOne, SeenIsTrue, ListIsTrue, rows, Active, Current, Allowed, Owners
<1>2. ASSUME handlers' = {}, loads'.at = "none" PROVE TrueInv'
  BY <1>2 DEF TrueInv, OneByOne, SeenIsTrue, ListIsTrue
<1>3. ASSUME NEW n, handlers' = {n}, loads'.at = "none",
             /\ n.at = "checked" => n.saw = Active' /\ Allowed(n.op, n.by, n.whom)'
             /\ Untold(n, {"add"}) => Active' = n.saw \cup {n.whom}
             /\ Untold(n, {"remove", "leave"}) => Active' = n.saw \ {n.whom} /\ n.whom \in n.saw
             /\ Untold(n, {"nickname"}) => n.whom \in Active'
             /\ n.op = "leave" => n.by = n.whom /\ (n.at # "checked" => n.by \notin Active')
             /\ n.op # "leave" => n.by \in Active'
             /\ n.at = "read" \/ (n.at = "told" /\ n.op # "leave") => n.group = Current'
             /\ n.at = "told" => n.by = Me
             /\ n.at = "read" => n.op # "leave"
      PROVE  TrueInv'
  <2>1. SeenIsTrue'
    <3> SUFFICES ASSUME NEW h \in handlers'
                 PROVE  (/\ h.at = "checked" => h.saw = Active /\ Allowed(h.op, h.by, h.whom)
                         /\ Untold(h, {"add"}) => Active = h.saw \cup {h.whom}
                         /\ Untold(h, {"remove", "leave"}) => Active = h.saw \ {h.whom} /\ h.whom \in h.saw
                         /\ Untold(h, {"nickname"}) => h.whom \in Active
                         /\ h.op = "leave" => h.by = h.whom /\ (h.at # "checked" => h.by \notin Active)
                         /\ h.op # "leave" => h.by \in Active
                         /\ h.at = "read" \/ (h.at = "told" /\ h.op # "leave") => h.group = Current
                         /\ h.at = "told" => h.by = Me
                         /\ h.at = "read" => h.op # "leave")'
      BY DEF SeenIsTrue
    <3>1. h = n
      BY <1>3
    <3>2. QED BY <3>1, <1>3 DEF Untold
  <2>2. OneByOne' /\ ListIsTrue'
    BY <1>3 DEF OneByOne, ListIsTrue
  <2>3. QED BY <2>1, <2>2 DEF TrueInv
<1>4. ASSUME NEW op \in Op, NEW by \in User, NEW whom \in User, Check(op, by, whom) PROVE TrueInv'
  <2> DEFINE n == [id |-> requests + 1, op |-> op, by |-> by, whom |-> whom,
                   row |-> role[whom] # None, saw |-> Active,
                   at |-> "checked", group |-> None]
  <2>1. n.op = op /\ n.by = by /\ n.whom = whom /\ n.saw = Active /\ n.at = "checked"
    OBVIOUS
  <2>2. handlers' = handlers \cup {n} /\ handlers = {} /\ loads.at = "none" /\ loads' = loads
        /\ Allowed(op, by, whom) /\ UNCHANGED <<role, left, info>>
    BY <1>4 DEF Check, rows
  <2> HIDE DEF n
  <2>3. Active' = Active /\ Owners' = Owners
    BY <2>2 DEF Active, Owners
  <2>4. Allowed(op, by, whom)' /\ by \in Active' /\ (op = "leave" => by = whom)
    BY <2>2, <2>3 DEF Allowed
  <2>5. QED BY <1>3, <2>1, <2>2, <2>3, <2>4 DEF Untold
<1>5. ASSUME NEW h \in handlers, Write(h) PROVE TrueInv'
  <2>1. PICK n : /\ handlers' = {n} /\ n.at = "written"
                 /\ n.op = h.op /\ n.by = h.by /\ n.whom = h.whom /\ n.saw = h.saw
    BY <1>5, SameRequest DEF Write
  <2>2. loads'.at = "none" /\ h.at = "checked" /\ h.op \in Op
    BY <1>5, OneHandler DEF Write, Handler
  <2>3. h.saw = Active /\ Allowed(h.op, h.by, h.whom)
    BY <2>2 DEF TrueInv, SeenIsTrue
  <2>4. /\ h.op = "leave" => h.by = h.whom
        /\ h.op = "remove" => h.by # h.whom /\ h.whom \in Active
        /\ h.op = "nickname" => h.whom = h.by
        /\ h.by \in Active
    BY <2>3 DEF Allowed
  <2>5. /\ h.op = "add" => Active' = Active \cup {h.whom}
        /\ h.op \in {"remove", "leave"} => Active' = Active \ {h.whom}
        /\ h.op \in {"update", "nickname", "remark"} => Active' = Active
    BY <1>5, Written
  <2>6. QED BY <1>3, <2>1, <2>2, <2>3, <2>4, <2>5 DEF Untold, Op
<1>6. ASSUME NEW h \in handlers, AddRefused(h) \/ RereadFails(h) PROVE TrueInv'
  BY <1>2, <1>6, OneHandler DEF AddRefused, RereadFails
<1>7. ASSUME NEW h \in handlers, Reread(h) PROVE TrueInv'
  <2>1. PICK n : /\ handlers' = {n} /\ n.at = "read" /\ n.group = Current
                 /\ n.op = h.op /\ n.by = h.by /\ n.whom = h.whom /\ n.saw = h.saw
    BY <1>7, SameRequest DEF Reread
  <2>2. /\ loads'.at = "none" /\ h.at = "written" /\ h.op # "leave"
        /\ Active' = Active /\ Current' = Current
    BY <1>7, OneHandler DEF Reread, rows, Active, Current
  <2>3. QED BY <1>3, <2>1, <2>2 DEF TrueInv, SeenIsTrue, Untold
<1>8. ASSUME NEW h \in handlers, Tell(h) PROVE TrueInv'
  <2>1. CASE h.by = Me
    <3>1. PICK n : /\ handlers' = {n} /\ n.at = "told" /\ n.group = h.group
                   /\ n.op = h.op /\ n.by = h.by /\ n.whom = h.whom /\ n.saw = h.saw
      BY <1>8, <2>1, SameRequest DEF Tell
    <3>2. /\ loads'.at = "none"
          /\ h.at = "read" \/ (h.at = "written" /\ h.op = "leave")
          /\ Active' = Active /\ Current' = Current
      BY <1>8, OneHandler DEF Tell, rows, Active, Current
    <3>3. /\ h.op = "leave" => h.by = h.whom /\ h.by \notin Active
          /\ h.op # "leave" => h.by \in Active /\ h.group = Current
      BY <3>2 DEF TrueInv, SeenIsTrue
    <3>4. QED BY <1>3, <2>1, <3>1, <3>2, <3>3 DEF Untold
  <2>2. CASE h.by # Me
    BY <1>2, <1>8, <2>2, OneHandler DEF Tell
  <2>3. QED BY <2>1, <2>2
<1>9. ASSUME NEW h \in handlers, HandleAnswer(h) PROVE TrueInv'
  BY <1>2, <1>9, OneHandler DEF HandleAnswer
<1>10. CASE HandleEvent \/ Click \/ Disconnect
  BY <1>1, <1>10 DEF HandleEvent, Click, Disconnect
<1>11. CASE LoadConversations \/ Reconnect
  <2>1. /\ loads' = [n |-> loads.n + 1, at |-> "asked", group |-> None]
        /\ raced' = (raced \/ handlers # {}) /\ UNCHANGED <<rows, handlers>>
    BY <1>11 DEF LoadConversations, Reconnect, AskList
  <2>2. handlers = {} /\ loads'.at = "asked"
    BY <2>1
  <2>3. QED BY <1>1, <2>1, <2>2
<1>12. CASE ListConversations
  <2>1. handlers = {} /\ handlers' = {} /\ Active' = Active /\ Current' = Current
    BY <1>12 DEF ListConversations, TrueInv, OneByOne, rows, Active, Current
  <2>2. loads'.group = IF Me \in Active THEN Current ELSE None
    BY <1>12 DEF ListConversations, IInv, TypeOK
  <2>3. QED BY <2>1, <2>2 DEF TrueInv, OneByOne, SeenIsTrue, ListIsTrue
<1>13. CASE HandleList
  <2>1. handlers = {} /\ handlers' = {} /\ loads'.at = "none"
    BY <1>13 DEF HandleList, TrueInv, OneByOne, IInv, TypeOK
  <2>2. QED BY <1>2, <2>1
<1>14. CASE UNCHANGED vars
  BY <1>1, <1>14 DEF vars
<1>15. QED
  BY <1>4, <1>5, <1>6, <1>7, <1>8, <1>9, <1>10, <1>11, <1>12, <1>13, <1>14 DEF Next, HandlerNext

-----------------------------------------------------------------------------
(* Me's view: what events do to it                                         *)

(* A step that leaves the inbox and the view alone, and changes only what  *)
(* Me is still to be told of.                                              *)
LEMMA Still ==
  ASSUME ViewInv, UNCHANGED <<inbox, view, kept>>,
         loads'.at = "none" => loads.at = "none",
         ~Changing' => ~Changing /\ (Me \in Active' <=> Me \in Active),
         \A u \in User : ~Moving(u)' => ~Moving(u) /\ (u \in Active' <=> u \in Active),
         ~Renaming' => ~Renaming /\ info' = info
  PROVE  ViewInv'
<1>1. /\ \A i : NoGroupAfter(i)' <=> NoGroupAfter(i)
      /\ \A i : Farewell(i)' <=> Farewell(i)
      /\ \A u, i : Last(i, u)' <=> Last(i, u)
      /\ \A u : Unsaid(u)' <=> Unsaid(u)
  BY DEF NoGroupAfter, Farewell, Last, Unsaid
<1>2. GroupsHaveMe'
  BY DEF ViewInv, GroupsHaveMe
<1>3. GroupIsComing'
  BY <1>1 DEF ViewInv, GroupIsComing
<1>4. MembersAreTrue'
  BY <1>1 DEF ViewInv, MembersAreTrue
<1>5. InfoIsTrue'
  BY <1>1 DEF ViewInv, InfoIsTrue
<1>6. GoneIsComing'
  BY <1>1 DEF ViewInv, GoneIsComing
<1>7. QED BY <1>2, <1>3, <1>4, <1>5, <1>6 DEF ViewInv

(* A step after which there is no event to come.                           *)
LEMMA Fresh ==
  ASSUME inbox' = <<>>,
         Me \in Active' /\ ~Changing' /\ loads'.at = "none" =>
           /\ view' # None
           /\ \A u \in User : u \in view'.members <=> u \in Active'
           /\ view'.info = info',
         Me \notin Active' /\ ~Changing' => view' = None \/ kept' \/ loads'.at # "none"
  PROVE  ViewInv'
<1>1. DOMAIN inbox' = {}
  OBVIOUS
<1>2. GroupsHaveMe'
  BY <1>1 DEF GroupsHaveMe
<1>3. GroupIsComing'
  BY <1>1 DEF GroupIsComing
<1>4. MembersAreTrue'
  BY <1>1 DEF MembersAreTrue
<1>5. InfoIsTrue'
  BY <1>1 DEF InfoIsTrue
<1>6. GoneIsComing'
  BY <1>1 DEF GoneIsComing, NoGroupAfter
<1>7. QED BY <1>2, <1>3, <1>4, <1>5, <1>6 DEF ViewInv

(* An event is told: it is the last one.                                   *)
LEMMA Appended ==
  ASSUME inbox \in Seq(Event), NEW e \in Event, inbox' = Append(inbox, e)
  PROVE  LET n == Len(inbox) + 1
         IN  /\ DOMAIN inbox' = DOMAIN inbox \cup {n} /\ DOMAIN inbox \subseteq Nat /\ n \in Nat
             /\ \A i \in DOMAIN inbox : i < n
             /\ inbox'[n] = e /\ \A i \in DOMAIN inbox : inbox'[i] = inbox[i]
  OBVIOUS

(* The first event is handled: the others move up.                         *)
LEMMA Handled ==
  ASSUME inbox \in Seq(Event), inbox # <<>>, inbox' = Tail(inbox)
  PROVE  /\ 1 \in DOMAIN inbox /\ Head(inbox) = inbox[1]
         /\ DOMAIN inbox \subseteq Nat \ {0} /\ DOMAIN inbox' \subseteq Nat \ {0}
         /\ \A i \in Nat : i \in DOMAIN inbox' <=> i + 1 \in DOMAIN inbox /\ i # 0
         /\ \A i \in DOMAIN inbox' : inbox'[i] = inbox[i + 1]
  OBVIOUS

LEMMA HandledSays ==
  ASSUME inbox \in Seq(Event), inbox # <<>>, inbox' = Tail(inbox)
  PROVE  /\ \A i \in Nat : NoGroupAfter(i)' <=> NoGroupAfter(i + 1)
         /\ NoGroupAfter(0) <=> inbox[1].kind # "group" /\ NoGroupAfter(0)'
         /\ \A i \in DOMAIN inbox' : Farewell(i)' <=> Farewell(i + 1)
         /\ \A u, i : i \in DOMAIN inbox' => (Last(i, u)' <=> Last(i + 1, u))
         /\ \A u : Unsaid(u) <=> ~Says(inbox[1], u) /\ Unsaid(u)'
         /\ \A u : Last(1, u) <=> Says(inbox[1], u) /\ Unsaid(u)'
<1>1. /\ 1 \in DOMAIN inbox
      /\ DOMAIN inbox \subseteq Nat \ {0} /\ DOMAIN inbox' \subseteq Nat \ {0}
      /\ \A i \in Nat : i \in DOMAIN inbox' <=> i + 1 \in DOMAIN inbox /\ i # 0
      /\ \A i \in DOMAIN inbox' : inbox'[i] = inbox[i + 1]
  BY Handled
<1>2. /\ \A j \in DOMAIN inbox : j # 1 => j - 1 \in DOMAIN inbox' /\ inbox[j] = inbox'[j - 1]
      /\ \A j \in DOMAIN inbox' : j \in Nat /\ j > 0 /\ j + 1 \in DOMAIN inbox
      /\ \A j \in DOMAIN inbox : j \in Nat /\ j > 0
  BY <1>1
<1>3. ASSUME NEW i \in Nat PROVE NoGroupAfter(i)' <=> NoGroupAfter(i + 1)
  <2>1. ASSUME NoGroupAfter(i)', NEW j \in DOMAIN inbox, j > i + 1 PROVE inbox[j].kind # "group"
    <3>1. j - 1 \in DOMAIN inbox' /\ inbox[j] = inbox'[j - 1] /\ j - 1 > i
      BY <1>2, <2>1
    <3>2. QED BY <2>1, <3>1 DEF NoGroupAfter
  <2>2. ASSUME NoGroupAfter(i + 1), NEW j \in DOMAIN inbox', j > i PROVE inbox'[j].kind # "group"
    <3>1. j + 1 \in DOMAIN inbox /\ inbox'[j] = inbox[j + 1] /\ j + 1 > i + 1
      BY <1>1, <1>2, <2>2
    <3>2. QED BY <2>2, <3>1 DEF NoGroupAfter
  <2>3. QED BY <2>1, <2>2 DEF NoGroupAfter
<1>4. NoGroupAfter(0) <=> inbox[1].kind # "group" /\ NoGroupAfter(0)'
  <2>1. NoGroupAfter(0)' <=> NoGroupAfter(1)
    BY <1>3
  <2>2. NoGroupAfter(0) <=> inbox[1].kind # "group" /\ NoGroupAfter(1)
    <3>1. \A j \in DOMAIN inbox : j > 0 /\ (j = 1 \/ j > 1)
      BY <1>2
    <3>2. 1 > 0 /\ 1 \in DOMAIN inbox /\ \A j \in DOMAIN inbox : j > 1 => j > 0
      BY <1>1, <1>2
    <3>3. QED BY <3>1, <3>2 DEF NoGroupAfter
  <2>3. QED BY <2>1, <2>2
<1>5. \A i \in DOMAIN inbox' : Farewell(i)' <=> Farewell(i + 1)
  BY <1>1 DEF Farewell
<1>6. ASSUME NEW u, NEW i \in DOMAIN inbox' PROVE Last(i, u)' <=> Last(i + 1, u)
  <2>1. inbox'[i] = inbox[i + 1] /\ i \in Nat
    BY <1>1, <1>2
  <2>2. ASSUME Last(i, u)', NEW j \in DOMAIN inbox, j > i + 1 PROVE ~Says(inbox[j], u)
    <3>1. j - 1 \in DOMAIN inbox' /\ inbox[j] = inbox'[j - 1] /\ j - 1 > i
      BY <1>2, <2>1, <2>2
    <3>2. QED BY <2>2, <3>1 DEF Last, Says
  <2>3. ASSUME Last(i + 1, u), NEW j \in DOMAIN inbox', j > i PROVE ~Says(inbox'[j], u)
    <3>1. j + 1 \in DOMAIN inbox /\ inbox'[j] = inbox[j + 1] /\ j + 1 > i + 1
      BY <1>1, <1>2, <2>1, <2>3
    <3>2. QED BY <2>3, <3>1 DEF Last
  <2>4. Says(inbox[i + 1], u) <=> Says(inbox'[i], u)
    BY <2>1
  <2>5. QED BY <2>2, <2>3, <2>4 DEF Last, Says
<1>7. \A u : Unsaid(u) <=> ~Says(inbox[1], u) /\ Unsaid(u)'
  BY <1>1, <1>2 DEF Unsaid
<1>8. \A u : Last(1, u) <=> Says(inbox[1], u) /\ Unsaid(u)'
  <2>1. \A j \in DOMAIN inbox : j > 1 <=> j # 1
    BY <1>2
  <2>2. \A j \in DOMAIN inbox' : j + 1 \in DOMAIN inbox /\ j + 1 # 1 /\ inbox'[j] = inbox[j + 1]
    BY <1>1, <1>2
  <2>3. \A u : Unsaid(u)' <=> \A j \in DOMAIN inbox : j # 1 => ~Says(inbox[j], u)
    BY <1>2, <2>2 DEF Unsaid
  <2>4. QED BY <2>1, <2>3 DEF Last
<1>9. QED BY <1>3, <1>4, <1>5, <1>6, <1>7, <1>8

(* The client makes of its first event what the event says.                *)
LEMMA EventIsTaken ==
  ASSUME IInv, ViewInv, HandleEvent
  PROVE  ViewInv'
<1> DEFINE e == inbox[1]
<1>1. /\ inbox \in Seq(Event) /\ inbox # <<>> /\ inbox' = Tail(inbox)
      /\ UNCHANGED <<rows, handlers, loads, kept>>
  BY DEF HandleEvent, IInv, TypeOK
<1>2. /\ 1 \in DOMAIN inbox /\ Head(inbox) = e
      /\ DOMAIN inbox \subseteq Nat \ {0} /\ DOMAIN inbox' \subseteq Nat \ {0}
      /\ \A i \in Nat : i \in DOMAIN inbox' <=> i + 1 \in DOMAIN inbox /\ i # 0
      /\ \A i \in DOMAIN inbox' : inbox'[i] = inbox[i + 1]
  BY <1>1, Handled
<1>3. /\ \A i \in Nat : NoGroupAfter(i)' <=> NoGroupAfter(i + 1)
      /\ NoGroupAfter(0) <=> e.kind # "group" /\ NoGroupAfter(0)'
      /\ \A i \in DOMAIN inbox' : Farewell(i)' <=> Farewell(i + 1)
      /\ \A u, i : i \in DOMAIN inbox' => (Last(i, u)' <=> Last(i + 1, u))
      /\ \A u : Unsaid(u) <=> ~Says(e, u) /\ Unsaid(u)'
      /\ \A u : Last(1, u) <=> Says(e, u) /\ Unsaid(u)'
  BY <1>1, HandledSays
<1>4. /\ e \in Event
      /\ e.kind \in {"group", "gone", "member"} /\ (e.kind = "group" => e.group \in Group)
      /\ view \in Group \cup {None} /\ loads'.at = loads.at /\ kept' = kept
  <2>1. e \in Event
    BY <1>1, <1>2
  <2>2. QED BY <1>1, <2>1 DEF Event, IInv, TypeOK
<1>5. /\ Active' = Active /\ info' = info /\ Changing' = Changing /\ Renaming' = Renaming
      /\ \A u : Moving(u)' = Moving(u)
  BY <1>1 DEF rows, Active, Changing, Moving, Renaming
<1>6. GroupsHaveMe'
  BY <1>2 DEF ViewInv, GroupsHaveMe
<1>7. /\ e.kind = "group" => Me \in e.group.members /\ view' = e.group /\ view' # None
      /\ e.kind = "gone" /\ e.whom = Me => view' = None
      /\ (e.kind = "gone" /\ e.whom # Me) \/ e.kind = "member" =>
           IF view = None THEN view' = None ELSE view' = Patched(e) /\ view' # None
  <2>1. e.kind = "group" => Me \in e.group.members
    BY <1>2 DEF ViewInv, GroupsHaveMe
  <2>2. CASE e.kind = "group"
    BY <1>2, <1>4, <2>1, <2>2, GroupAssumption DEF HandleEvent, Shown
  <2>3. CASE e.kind = "gone" /\ e.whom = Me
    BY <1>2, <2>3 DEF HandleEvent, Hidden
  <2>4. CASE (e.kind = "gone" /\ e.whom # Me) \/ e.kind = "member"
    <3>1. IF view = None THEN view' = None ELSE view' = Patched(e)
      BY <1>2, <2>4 DEF HandleEvent, Shown, client
    <3>2. view # None => Patched(e) \in Group
      BY <1>4, <2>4 DEF Patched, Group, Event
    <3>3. QED BY <2>4, <3>1, <3>2, GroupAssumption
  <2>5. QED BY <2>1, <2>2, <2>3, <2>4
<1>8. GroupIsComing'
  <2>1. ASSUME Me \in Active, ~Changing, NEW i \in DOMAIN inbox', Farewell(i)' PROVE ~NoGroupAfter(i)'
    <3>1. i + 1 \in DOMAIN inbox /\ i \in Nat
      BY <1>2
    <3>2. QED BY <1>3, <2>1, <3>1 DEF ViewInv, GroupIsComing
  <2>2. ASSUME Me \in Active, ~Changing, view' = None, loads.at = "none" PROVE ~NoGroupAfter(0)'
    <3>1. CASE view = None
      BY <1>3, <1>4, <1>7, <2>2, <3>1 DEF ViewInv, GroupIsComing
    <3>2. CASE view # None
      <4>1. Farewell(1)
        BY <1>4, <1>7, <2>2, <3>2 DEF Farewell
      <4>2. ~NoGroupAfter(1)
        BY <1>2, <2>2, <4>1 DEF ViewInv, GroupIsComing
      <4>3. QED BY <1>3, <4>2
    <3>3. QED BY <3>1, <3>2
  <2>3. QED BY <1>4, <1>5, <2>1, <2>2 DEF GroupIsComing
<1>9. MembersAreTrue'
  <2> SUFFICES ASSUME Me \in Active, ~Changing, NEW u \in User, ~Moving(u)
               PROVE  /\ \A i \in DOMAIN inbox' : Last(i, u)' => (Tells(inbox'[i], u) <=> u \in Active)
                      /\ Unsaid(u)' /\ view' # None /\ loads.at = "none"
                           => (u \in view'.members <=> u \in Active)
    BY <1>4, <1>5 DEF MembersAreTrue, Tells
  <2>1. /\ \A i \in DOMAIN inbox : Last(i, u) => (Tells(inbox[i], u) <=> u \in Active)
        /\ Unsaid(u) /\ view # None /\ loads.at = "none" => (u \in view.members <=> u \in Active)
    BY DEF ViewInv, MembersAreTrue
  <2>2. ASSUME NEW i \in DOMAIN inbox', Last(i, u)' PROVE Tells(inbox'[i], u) <=> u \in Active
    <3>1. i + 1 \in DOMAIN inbox /\ inbox'[i] = inbox[i + 1] /\ Last(i + 1, u)
      BY <1>2, <1>3, <2>2
    <3>2. QED BY <2>1, <3>1
  <2>3. ASSUME Unsaid(u)', view' # None, loads.at = "none"
        PROVE  u \in view'.members <=> u \in Active
    <3>1. CASE e.kind = "group"
      <4>1. Tells(e, u) <=> u \in Active
        BY <1>2, <1>3, <2>1, <2>3, <3>1 DEF Says
      <4>2. QED BY <1>7, <3>1, <4>1 DEF Tells
    <3>2. CASE e.kind # "group"
      <4>1. view # None /\ view' = Patched(e) /\ view \in Group
        BY <1>4, <1>7, <2>3, <3>2
      <4>2. CASE e.whom = u
        <5>1. Tells(e, u) <=> u \in Active
          BY <1>2, <1>3, <2>1, <2>3, <4>2 DEF Says
        <5>2. u \in view'.members <=> e.kind = "member"
          BY <1>4, <3>2, <4>1, <4>2 DEF Patched, Group
        <5>3. QED BY <3>2, <5>1, <5>2 DEF Tells
      <4>3. CASE e.whom # u
        <5>1. u \in view.members <=> u \in Active
          BY <1>3, <2>1, <2>3, <3>2, <4>1, <4>3 DEF Says
        <5>2. u \in view'.members <=> u \in view.members
          BY <1>4, <3>2, <4>1, <4>3 DEF Patched, Group
        <5>3. QED BY <5>1, <5>2
      <4>4. QED BY <4>2, <4>3
    <3>3. QED BY <3>1, <3>2
  <2>4. QED BY <2>2, <2>3
<1>10. InfoIsTrue'
  <2> SUFFICES ASSUME Me \in Active, ~Changing, ~Renaming
               PROVE  /\ \A i \in DOMAIN inbox' :
                           inbox'[i].kind = "group" /\ NoGroupAfter(i)' => inbox'[i].group.info = info
                      /\ NoGroupAfter(0)' /\ view' # None /\ loads.at = "none" => view'.info = info
    BY <1>4, <1>5 DEF InfoIsTrue
  <2>1. /\ \A i \in DOMAIN inbox : inbox[i].kind = "group" /\ NoGroupAfter(i) => inbox[i].group.info = info
        /\ NoGroupAfter(0) /\ view # None /\ loads.at = "none" => view.info = info
    BY DEF ViewInv, InfoIsTrue
  <2>2. ASSUME NEW i \in DOMAIN inbox', inbox'[i].kind = "group", NoGroupAfter(i)'
        PROVE  inbox'[i].group.info = info
    <3>1. i \in Nat /\ i + 1 \in DOMAIN inbox /\ inbox'[i] = inbox[i + 1]
      BY <1>2
    <3>2. NoGroupAfter(i + 1)
      BY <1>3, <2>2, <3>1
    <3>3. QED BY <2>1, <2>2, <3>1, <3>2
  <2>3. ASSUME NoGroupAfter(0)', view' # None, loads.at = "none" PROVE view'.info = info
    <3>1. CASE e.kind = "group"
      <4>1. NoGroupAfter(1)
        BY <1>3, <2>3
      <4>2. QED BY <1>2, <1>7, <2>1, <3>1, <4>1
    <3>2. CASE e.kind # "group"
      <4>1. view # None /\ view' = Patched(e) /\ view \in Group
        BY <1>4, <1>7, <2>3, <3>2
      <4>2. view'.info = view.info
        BY <1>4, <3>2, <4>1 DEF Patched, Group
      <4>3. QED BY <1>3, <2>1, <2>3, <3>2, <4>1, <4>2
    <3>3. QED BY <3>1, <3>2
  <2>4. QED BY <2>2, <2>3
<1>11. GoneIsComing'
  <2> SUFFICES ASSUME Me \notin Active, ~Changing
               PROVE  \/ \E i \in DOMAIN inbox' : Farewell(i)' /\ NoGroupAfter(i)'
                      \/ NoGroupAfter(0)' /\ (view' = None \/ kept \/ loads.at # "none")
    BY <1>4, <1>5 DEF GoneIsComing
  <2>1. ASSUME NEW i \in DOMAIN inbox, Farewell(i), NoGroupAfter(i), i # 1
        PROVE  \E j \in DOMAIN inbox' : Farewell(j)' /\ NoGroupAfter(j)'
    <3>1. i - 1 \in Nat /\ (i - 1) + 1 = i /\ i - 1 # 0
      BY <1>2, <2>1
    <3>2. i - 1 \in DOMAIN inbox'
      BY <1>2, <3>1
    <3>3. QED BY <1>3, <2>1, <3>1, <3>2
  <2>2. CASE Farewell(1) /\ NoGroupAfter(1)
    BY <1>3, <1>7, <2>2 DEF Farewell
  <2>3. CASE NoGroupAfter(0) /\ (view = None \/ kept \/ loads.at # "none")
    BY <1>3, <1>4, <1>7, <2>3
  <2>4. QED BY <2>1, <2>2, <2>3 DEF ViewInv, GoneIsComing
<1>12. QED BY <1>6, <1>8, <1>9, <1>10, <1>11 DEF ViewInv

(* A request is at most what Me is still to be told of.                    *)
LEMMA TheRequest ==
  ASSUME NEW h, handlers = {h}
  PROVE  /\ \A u : Moving(u) <=> h.whom = u /\ Untold(h, {"add", "remove", "leave"})
         /\ Renaming <=> Untold(h, {"update"})
         /\ Changing <=> \/ h.whom = Me /\ Untold(h, {"add", "remove", "leave"})
                         \/ h.by = Me /\ h.op = "leave" /\ h.at = "told"
  BY DEF Moving, Renaming, Changing

LEMMA NoRequest ==
  ASSUME handlers = {}
  PROVE  (\A u : ~Moving(u)) /\ ~Renaming /\ ~Changing
  BY DEF Moving, Renaming, Changing

(* When a request is done, or Me has been told, nothing is left to tell.   *)
LEMMA ToldIsNotUntold ==
  ASSUME IInv, TrueInv, NEW h \in handlers, Tell(h)
  PROVE  /\ \A u : ~Moving(u)'
         /\ ~Renaming'
         /\ Changing' <=> h.by = Me /\ h.op = "leave"
<1>1. CASE h.by = Me
  <2>1. PICK n : handlers' = {n} /\ n.at = "told" /\ n.op = h.op /\ n.by = h.by
    BY <1>1, SameRequest DEF Tell
  <2>2. ~Untold(n, {"add", "remove", "leave"}) /\ ~Untold(n, {"update"})
    BY <2>1 DEF Untold
  <2>3. (\A u : ~Moving(u)') /\ ~Renaming'
    BY <2>1, <2>2 DEF Moving, Renaming, Untold
  <2>4. Changing' <=> n.by = Me /\ n.op = "leave" /\ n.at = "told"
    BY <2>1, <2>3 DEF Changing
  <2>5. QED BY <1>1, <2>1, <2>3, <2>4
<1>2. CASE h.by # Me
  <2>1. handlers' = {}
    BY <1>2, OneHandler DEF Tell
  <2>2. QED BY <1>2, <2>1 DEF Moving, Renaming, Changing
<1>3. QED BY <1>1, <1>2

(* The members hear of what a request has done.                            *)
LEMMA EventIsTrue ==
  ASSUME IInv, TrueInv, ViewInv, NEW h \in handlers, Tell(h), inbox' = Append(inbox, EventOf(h)),
         Me \in Told(h), EventOf(h) \in Event
  PROVE  ViewInv'
<1> DEFINE e == EventOf(h)
<1>0. PICK n : n = Len(inbox) + 1
  OBVIOUS
<1>1. /\ handlers = {h} /\ loads.at = "none" /\ loads' = loads
      /\ h.op \in Op /\ h.whom \in User /\ h.at \in {"written", "read"} /\ (h.op # "leave" => h.at = "read")
      /\ view' = view /\ kept' = kept
  BY OneHandler DEF Tell, Handler, client
<1>2. Active' = Active /\ info' = info /\ Current' = Current
  BY DEF Tell, rows, Active, Current
<1>3. /\ h.op = "add" => Active = h.saw \cup {h.whom} /\ h.group = Current
      /\ h.op \in {"remove", "leave"} => Active = h.saw \ {h.whom} /\ h.whom \in h.saw
      /\ h.op = "update" => h.group = Current
      /\ h.op = "nickname" => h.group = Current /\ h.whom \in Active
      /\ h.op # "leave" => h.by \in Active
      /\ h.op = "leave" => h.by = h.whom
  BY <1>1 DEF TrueInv, SeenIsTrue, Untold
<1>4. /\ h.op \in {"add", "update"} => Me \in Active
      /\ h.op = "nickname" => Me \in Active
      /\ h.op = "leave" => Me \in Active /\ h.whom # Me
      /\ h.op = "remove" => Me \in Active \/ h.whom = Me
      /\ h.op # "remark"
  BY <1>1, <1>3 DEF Told, Current
<1>5. /\ h.op \in {"add", "update"} => e.kind = "group" /\ e.group = Current
      /\ h.op \in {"remove", "leave"} => e.kind = "gone" /\ e.whom = h.whom
      /\ h.op = "nickname" => e.kind = "member" /\ e.whom = h.whom
  BY <1>3 DEF EventOf
<1>6. /\ \A u : ~Moving(u)'
      /\ ~Renaming'
      /\ Changing' <=> h.by = Me /\ h.op = "leave"
  BY ToldIsNotUntold
<1>7. /\ \A u : Moving(u) <=> h.whom = u /\ h.op \in {"add", "remove", "leave"}
      /\ Renaming <=> h.op = "update"
      /\ Changing <=> h.whom = Me /\ h.op \in {"add", "remove", "leave"}
  BY <1>1, TheRequest DEF Untold
<1>8. /\ DOMAIN inbox' = DOMAIN inbox \cup {n} /\ DOMAIN inbox \subseteq Nat /\ n \in Nat
      /\ \A i \in DOMAIN inbox : i < n
      /\ inbox'[n] = e /\ \A i \in DOMAIN inbox : inbox'[i] = inbox[i]
  BY <1>0, Appended DEF IInv, TypeOK
<1> HIDE DEF e
<1>9. /\ \A i \in DOMAIN inbox : Farewell(i)' <=> Farewell(i)
      /\ Farewell(n)' <=> e.kind = "gone" /\ e.whom = Me
  BY <1>8 DEF Farewell
<1>10. /\ \A i \in DOMAIN inbox : NoGroupAfter(i)' <=> NoGroupAfter(i) /\ e.kind # "group"
       /\ NoGroupAfter(n)'
       /\ NoGroupAfter(0)' <=> NoGroupAfter(0) /\ e.kind # "group"
  <2>1. \A i \in Nat : i < n => (NoGroupAfter(i)' <=> NoGroupAfter(i) /\ e.kind # "group")
    BY <1>8 DEF NoGroupAfter
  <2>2. NoGroupAfter(n)'
    <3>1. \A j \in DOMAIN inbox' : ~(j > n)
      BY <1>8
    <3>2. QED BY <3>1 DEF NoGroupAfter
  <2>3. 0 < n
    BY <1>0 DEF IInv, TypeOK
  <2>4. QED BY <1>8, <2>1, <2>2, <2>3
<1>11. /\ \A u : \A i \in DOMAIN inbox : Last(i, u)' <=> Last(i, u) /\ ~Says(e, u)
       /\ \A u : Last(n, u)' => Says(e, u)
       /\ \A u : Unsaid(u)' <=> Unsaid(u) /\ ~Says(e, u)
  <2>1. \A u : \A i \in DOMAIN inbox : Last(i, u)' <=> Last(i, u) /\ ~Says(e, u)
    BY <1>8 DEF Last, Says
  <2>2. \A u : Last(n, u)' => Says(e, u)
    BY <1>8 DEF Last, Says
  <2>3. \A u : Unsaid(u)' <=> Unsaid(u) /\ ~Says(e, u)
    BY <1>8 DEF Unsaid, Says
  <2>4. QED BY <2>1, <2>2, <2>3
<1>12. GroupsHaveMe'
  <2>1. e.kind = "group" => Me \in e.group.members
    BY <1>1, <1>4, <1>5 DEF Current, Op
  <2>2. QED BY <1>8, <2>1 DEF ViewInv, GroupsHaveMe
<1>13. GroupIsComing'
  <2> SUFFICES ASSUME Me \in Active
               PROVE  /\ \A i \in DOMAIN inbox' : Farewell(i)' => ~NoGroupAfter(i)'
                      /\ view = None => ~NoGroupAfter(0)'
    BY <1>1, <1>2 DEF GroupIsComing
  <2>1. CASE e.kind = "group"
    BY <1>8, <1>9, <1>10, <2>1
  <2>2. CASE e.kind # "group"
    <3>1. ~Changing /\ ~Farewell(n)'
      BY <1>1, <1>3, <1>4, <1>5, <1>7, <1>9, <2>2 DEF Op
    <3>2. QED BY <1>1, <1>8, <1>9, <1>10, <3>1 DEF ViewInv, GroupIsComing
  <2>3. QED BY <2>1, <2>2
<1>14. MembersAreTrue'
  <2> SUFFICES ASSUME Me \in Active, NEW u \in User
               PROVE  /\ \A i \in DOMAIN inbox' : Last(i, u)' => (Tells(inbox'[i], u) <=> u \in Active)
                      /\ Unsaid(u)' /\ view # None => (u \in view.members <=> u \in Active)
    BY <1>1, <1>2 DEF MembersAreTrue, Tells
  <2>1. CASE Says(e, u)
    <3>1. Tells(e, u) <=> u \in Active
      BY <1>1, <1>3, <1>4, <1>5, <2>1 DEF Op, Tells, Says, Current
    <3>2. QED BY <1>8, <1>11, <2>1, <3>1
  <2>2. CASE ~Says(e, u)
    <3>1. ~Changing /\ ~Moving(u)
      BY <1>1, <1>3, <1>4, <1>5, <1>7, <2>2 DEF Op, Says
    <3>2. /\ \A i \in DOMAIN inbox : Last(i, u) => (Tells(inbox[i], u) <=> u \in Active)
          /\ Unsaid(u) /\ view # None => (u \in view.members <=> u \in Active)
      BY <1>1, <3>1 DEF ViewInv, MembersAreTrue
    <3>3. QED BY <1>8, <1>11, <2>2, <3>2
  <2>3. QED BY <2>1, <2>2
<1>15. InfoIsTrue'
  <2> SUFFICES ASSUME Me \in Active
               PROVE  /\ \A i \in DOMAIN inbox' :
                           inbox'[i].kind = "group" /\ NoGroupAfter(i)' => inbox'[i].group.info = info
                      /\ NoGroupAfter(0)' /\ view # None => view.info = info
    BY <1>1, <1>2 DEF InfoIsTrue
  <2>1. CASE e.kind = "group"
    <3>1. e.group.info = info
      BY <1>1, <1>4, <1>5, <2>1 DEF Op, Current
    <3>2. QED BY <1>8, <1>10, <2>1, <3>1
  <2>2. CASE e.kind # "group"
    <3>1. ~Changing /\ ~Renaming
      BY <1>1, <1>3, <1>5, <1>7, <2>2 DEF Op
    <3>2. /\ \A i \in DOMAIN inbox :
                inbox[i].kind = "group" /\ NoGroupAfter(i) => inbox[i].group.info = info
          /\ NoGroupAfter(0) /\ view # None => view.info = info
      BY <1>1, <3>1 DEF ViewInv, InfoIsTrue
    <3>3. QED BY <1>8, <1>10, <2>2, <3>2
  <2>3. QED BY <2>1, <2>2
<1>16. GoneIsComing'
  <2>1. Me \notin Active => Farewell(n)'
    BY <1>1, <1>4, <1>5, <1>9 DEF Op
  <2>2. QED BY <1>2, <1>8, <1>10, <2>1 DEF GoneIsComing
<1>17. QED BY <1>12, <1>13, <1>14, <1>15, <1>16 DEF ViewInv

(* Every other step of a request.                                          *)
LEMMA RequestsKeepView ==
  ASSUME IInv, TrueInv, ViewInv, online, ~raced', NEW h \in handlers, HandlerNext(h)
  PROVE  ViewInv'
<1>1. handlers = {h} /\ loads.at = "none" /\ h \in Handler
  BY OneHandler
<1>2. /\ \A u : Moving(u) <=> h.whom = u /\ Untold(h, {"add", "remove", "leave"})
      /\ Renaming <=> Untold(h, {"update"})
      /\ Changing <=> \/ h.whom = Me /\ Untold(h, {"add", "remove", "leave"})
                      \/ h.by = Me /\ h.op = "leave" /\ h.at = "told"
  BY <1>1, TheRequest
<1>3. CASE Write(h)
  <2>1. PICK k : /\ handlers' = {k} /\ k.at = "written"
                 /\ k.op = h.op /\ k.by = h.by /\ k.whom = h.whom
    BY <1>3, SameRequest DEF Write
  <2>2. /\ \A u : Moving(u)' <=> h.whom = u /\ h.op \in {"add", "remove", "leave"}
        /\ Renaming' <=> h.op = "update"
        /\ Changing' <=> h.whom = Me /\ h.op \in {"add", "remove", "leave"}
    <3>1. /\ \A u : Moving(u)' <=> k.whom = u /\ Untold(k, {"add", "remove", "leave"})
          /\ Renaming' <=> Untold(k, {"update"})
      BY <2>1 DEF Moving, Renaming, Untold
    <3>2. Changing' <=> \/ k.whom = Me /\ Untold(k, {"add", "remove", "leave"})
                        \/ k.by = Me /\ k.op = "leave" /\ k.at = "told"
      BY <2>1, <3>1 DEF Changing
    <3>3. QED BY <2>1, <3>1, <3>2 DEF Untold
  <2>3. h.at = "checked" /\ UNCHANGED <<inbox, view, kept, loads>> /\ h.op \in Op
    BY <1>1, <1>3 DEF Write, client, Handler
  <2>4. ~Changing /\ ~Renaming /\ \A u : ~Moving(u)
    BY <1>2, <2>3 DEF Untold
  <2>5. /\ h.op = "add" => Active' = Active \cup {h.whom}
        /\ h.op \in {"remove", "leave"} => Active' = Active \ {h.whom}
        /\ h.op \in {"update", "nickname", "remark"} => Active' = Active
        /\ h.op # "update" => info' = info
    BY <1>3, Written
  <2>6. \A u \in User : ~Moving(u)' => (u \in Active' <=> u \in Active)
    BY <2>2, <2>3, <2>5 DEF Op
  <2>7. ~Changing' => (Me \in Active' <=> Me \in Active)
    BY <2>2, <2>3, <2>5 DEF Op
  <2>8. QED BY <2>2, <2>3, <2>4, <2>5, <2>6, <2>7, Still
<1>4. CASE AddRefused(h) \/ RereadFails(h)
  <2>1. handlers' = {} /\ UNCHANGED <<inbox, view, kept, loads>> /\ Active' = Active /\ info' = info
    BY <1>1, <1>4 DEF AddRefused, RereadFails, client, rows, Active
  <2>2. ~Changing /\ ~Renaming /\ \A u : ~Moving(u)
    <3>1. h.at = "checked" \/ (h.at = "written" /\ h.op # "leave" /\ h.by \notin Active)
      BY <1>4 DEF AddRefused, RereadFails
    <3>2. h.at = "checked"
      BY <3>1 DEF TrueInv, SeenIsTrue
    <3>3. QED BY <1>2, <3>2 DEF Untold
  <2>3. QED BY <2>1, <2>2, Still
<1>5. CASE Reread(h)
  <2>1. PICK k : /\ handlers' = {k} /\ k.at = "read"
                 /\ k.op = h.op /\ k.by = h.by /\ k.whom = h.whom
    BY <1>5, SameRequest DEF Reread
  <2>2. /\ \A u : Moving(u)' <=> Moving(u)
        /\ Renaming' <=> Renaming
    BY <1>1, <1>5, <2>1 DEF Moving, Renaming, Untold, Reread
  <2>3. Changing' <=> Changing
    BY <1>1, <1>5, <2>1, <2>2, <1>2 DEF Changing, Reread
  <2>4. UNCHANGED <<inbox, view, kept, loads>> /\ Active' = Active /\ info' = info
    BY <1>5 DEF Reread, client, rows, Active
  <2>5. QED BY <2>2, <2>3, <2>4, Still
<1>6. CASE Tell(h)
  <2>1. /\ Active' = Active /\ info' = info /\ UNCHANGED <<view, kept, loads>>
        /\ h.op \in Op /\ h.at \in {"read", "written"} /\ (h.op # "leave" => h.at = "read")
    BY <1>1, <1>6 DEF Tell, rows, client, Active, Handler
  <2>2. CASE Me \in Told(h)
    <3>1. inbox' = Append(inbox, EventOf(h))
      BY <1>6, <2>2 DEF Tell
    <3>2. EventOf(h) \in Event
      <4>1. h.op # "leave" => h.group \in Group
        BY <2>1 DEF IInv, HandlersKnow
      <4>2. QED BY <1>1, <2>1, <4>1 DEF EventOf, Event, Handler, Op
    <3>3. QED BY <1>6, <2>2, <3>1, <3>2, EventIsTrue
  <2>3. CASE Me \notin Told(h)
    <3>1. inbox' = inbox
      BY <1>6, <2>3 DEF Tell
    <3>2. /\ \A u : ~Moving(u)'
          /\ ~Renaming'
          /\ Changing' <=> h.by = Me /\ h.op = "leave"
      BY <1>6, ToldIsNotUntold
    <3>3. CASE h.op = "leave" /\ h.by = Me
      <4>1. Changing' /\ GroupsHaveMe' /\ Me \notin Active
        <5>1. Me \notin Active
          BY <2>1, <3>3 DEF TrueInv, SeenIsTrue
        <5>2. GroupsHaveMe'
          BY <3>1 DEF ViewInv, GroupsHaveMe
        <5>3. QED BY <3>2, <3>3, <5>1, <5>2
      <4>2. QED BY <2>1, <4>1 DEF ViewInv, GroupIsComing, MembersAreTrue, InfoIsTrue, GoneIsComing
    <3>4. CASE h.op = "remark"
      <4>1. ~Changing /\ ~Renaming /\ \A u : ~Moving(u)
        BY <1>2, <3>4 DEF Untold
      <4>2. QED BY <2>1, <3>1, <4>1, Still
    <3>5. CASE h.op # "remark" /\ ~(h.op = "leave" /\ h.by = Me)
      <4>1. /\ h.op = "add" => Active = h.saw \cup {h.whom}
            /\ h.op \in {"remove", "leave"} => Active = h.saw \ {h.whom} /\ h.whom \in h.saw
            /\ h.op \in {"update", "nickname"} => h.group = Current
            /\ h.op = "leave" => h.by = h.whom
        BY <2>1 DEF TrueInv, SeenIsTrue, Untold
      <4>2. Me \notin Active /\ (h.op \in {"add", "remove", "leave"} => h.whom # Me)
        BY <2>1, <2>3, <3>5, <4>1 DEF Told, Current, Op
      <4>3. ~Changing
        BY <1>2, <2>1, <3>5, <4>2 DEF Untold
      <4>4. GroupsHaveMe'
        BY <3>1 DEF ViewInv, GroupsHaveMe
      <4>5. GoneIsComing'
        BY <2>1, <3>1, <4>2, <4>3 DEF ViewInv, GoneIsComing, Farewell, NoGroupAfter
      <4>6. QED BY <2>1, <4>2, <4>4, <4>5 DEF ViewInv, GroupIsComing, MembersAreTrue, InfoIsTrue
    <3>6. QED BY <3>3, <3>4, <3>5
  <2>4. QED BY <2>2, <2>3
<1>7. CASE HandleAnswer(h)
  <2>1. /\ handlers' = {} /\ Active' = Active /\ info' = info /\ Current' = Current
        /\ loads' = loads /\ h.at = "told" /\ h.by = Me
    BY <1>1, <1>7 DEF HandleAnswer, rows, Active, Current, TrueInv, SeenIsTrue
  <2>2. inbox' = <<>>
    <3>1. raced' = (raced \/ inbox # <<>> \/ loads.at # "none") /\ inbox' = inbox
      BY <1>7 DEF HandleAnswer
    <3>2. QED BY <3>1
  <2>3. CASE h.op = "leave"
    <3>1. view' = None /\ Me \notin Active
      BY <1>7, <2>1, <2>3 DEF HandleAnswer, Hidden, TrueInv, SeenIsTrue
    <3>2. QED BY <2>1, <2>2, <3>1, Fresh
  <2>4. CASE h.op # "leave"
    <3>1. view' = Current /\ Me \in Active
      BY <1>7, <2>1, <2>4 DEF HandleAnswer, Shown, TrueInv, SeenIsTrue
    <3>2. Current # None /\ Current.members = Active /\ Current.info = info
      BY CurrentIsGroup, GroupAssumption DEF IInv, Current
    <3>3. QED BY <2>1, <2>2, <3>1, <3>2, Fresh
  <2>5. QED BY <2>3, <2>4
<1>8. QED BY <1>3, <1>4, <1>5, <1>6, <1>7 DEF HandlerNext

(* The list that comes is as the rows are.                                 *)
LEMMA ListIsTaken ==
  ASSUME IInv, TrueInv, ViewInv, HandleList
  PROVE  ViewInv'
<1>1. /\ loads.at = "read" /\ loads'.at = "none" /\ UNCHANGED <<rows, handlers, inbox>>
      /\ view' = (IF loads.group = None /\ selected THEN view ELSE loads.group)
      /\ kept' = (loads.group = None /\ selected)
  BY DEF HandleList, Listed, Shown, IInv, TypeOK
<1>2. /\ Me \in Active => loads.group = Current
      /\ Me \notin Active => loads.group = None
  BY <1>1 DEF TrueInv, ListIsTrue
<1>3. Current # None /\ Current.members = Active /\ Current.info = info
  BY CurrentIsGroup, GroupAssumption DEF IInv, Current
<1>4. /\ Active' = Active /\ info' = info /\ Changing' = Changing /\ Renaming' = Renaming
      /\ \A u : Moving(u)' = Moving(u)
  BY <1>1 DEF rows, Active, Changing, Moving, Renaming
<1>5. /\ \A i : NoGroupAfter(i)' <=> NoGroupAfter(i)
      /\ \A i : Farewell(i)' <=> Farewell(i)
      /\ \A u, i : Last(i, u)' <=> Last(i, u)
  BY <1>1 DEF NoGroupAfter, Farewell, Last
<1>6. Me \in Active => view' # None /\ view'.members = Active /\ view'.info = info
  BY <1>1, <1>2, <1>3
<1>7. Me \notin Active => view' = None \/ kept'
  BY <1>1, <1>2
<1>8. GroupsHaveMe'
  BY <1>1 DEF ViewInv, GroupsHaveMe
<1>9. GroupIsComing'
  BY <1>1, <1>4, <1>5, <1>6 DEF ViewInv, GroupIsComing
<1>10. MembersAreTrue'
  BY <1>1, <1>4, <1>5, <1>6 DEF ViewInv, MembersAreTrue
<1>11. InfoIsTrue'
  BY <1>1, <1>4, <1>5, <1>6 DEF ViewInv, InfoIsTrue
<1>12. GoneIsComing'
  BY <1>1, <1>4, <1>5, <1>7 DEF ViewInv, GoneIsComing
<1>13. QED BY <1>8, <1>9, <1>10, <1>11, <1>12 DEF ViewInv

(* Every step keeps Me's view, as long as nothing has raced.               *)
LEMMA ViewStays ==
  ASSUME IInv, RInv, [Next]_vars
  PROVE  RInv'
<1>1. online' \/ inbox' = <<>>
  <2>1. ASSUME NEW h \in handlers, HandlerNext(h) PROVE online' \/ inbox' = <<>>
    BY <2>1 DEF HandlerNext, Write, AddRefused, Reread, RereadFails, Tell, HandleAnswer, RInv
  <2>2. CASE UNCHANGED <<online, inbox>> \/ online' \/ inbox' = <<>>
    BY <2>2 DEF RInv
  <2>3. QED BY <2>1, <2>2 DEF RInv, Next, Check, HandleEvent, Click, LoadConversations,
               ListConversations, HandleList, Disconnect, Reconnect, vars
<1>2. SUFFICES ASSUME ~raced' PROVE TrueInv' /\ (online' => ViewInv')
  BY <1>1 DEF RInv
<1>3. ~raced
  <2>1. raced \in BOOLEAN
    BY DEF IInv, TypeOK
  <2>2. CASE raced' = raced
    BY <2>2, <1>2
  <2>3. ASSUME NEW x \in BOOLEAN, raced' = (raced \/ x) PROVE ~raced
    BY <2>1, <2>3, <1>2
  <2>4. ASSUME NEW h \in handlers, HandlerNext(h) PROVE ~raced
    BY <2>2, <2>3, <2>4 DEF HandlerNext, Write, AddRefused, Reread, RereadFails, Tell, HandleAnswer
  <2>5. QED BY <2>2, <2>3, <2>4 DEF Next, Check, HandleEvent, Click, LoadConversations,
               ListConversations, HandleList, Disconnect, Reconnect, vars
<1>4. TrueInv /\ TrueInv'
  BY <1>2, <1>3, TrueStays DEF RInv
<1>5. SUFFICES ASSUME online' PROVE ViewInv'
  BY <1>4
<1>6. CASE Reconnect
  <2>1. inbox' = <<>> /\ loads'.at # "none"
    BY <1>6 DEF Reconnect, AskList, RInv
  <2>2. QED BY <2>1, Fresh
<1>7. CASE ~Reconnect
  <2>1. online /\ ViewInv
    <3>1. CASE online
      BY <1>3, <3>1 DEF RInv
    <3>2. CASE ~online
      <4>1. online' = online \/ Reconnect \/ Disconnect
        <5>1. ASSUME NEW h \in handlers, HandlerNext(h) PROVE online' = online
          BY <5>1 DEF HandlerNext, Write, AddRefused, Reread, RereadFails, Tell, HandleAnswer
        <5>2. QED BY <5>1 DEF Next, Check, HandleEvent, Click, LoadConversations,
                     ListConversations, HandleList, vars
      <4>2. QED BY <1>5, <1>7, <3>2, <4>1 DEF Disconnect
    <3>3. QED BY <3>1, <3>2
  <2>2. ASSUME UNCHANGED <<rows, handlers, inbox, view, kept>>, loads'.at = "none" => loads.at = "none"
        PROVE  ViewInv'
    <3>1. /\ Active' = Active /\ info' = info /\ Changing' = Changing /\ Renaming' = Renaming
          /\ \A u : Moving(u)' = Moving(u)
      BY <2>2 DEF rows, Active, Changing, Moving, Renaming
    <3>2. QED BY <2>1, <2>2, <3>1, Still
  <2>3. ASSUME NEW op \in Op, NEW by \in User, NEW whom \in User, Check(op, by, whom) PROVE ViewInv'
    <3> DEFINE n == [id |-> requests + 1, op |-> op, by |-> by, whom |-> whom,
                     row |-> role[whom] # None, saw |-> Active,
                     at |-> "checked", group |-> None]
    <3>1. handlers' = handlers \cup {n} /\ n.at = "checked"
      BY <2>3 DEF Check
    <3>2. UNCHANGED <<rows, inbox, view, kept, loads>>
      BY <2>3 DEF Check, client
    <3> HIDE DEF n
    <3>3. (\A u : Moving(u)' <=> Moving(u)) /\ (Renaming' <=> Renaming)
      BY <3>1 DEF Moving, Renaming, Untold
    <3>4. Changing' <=> Changing
      BY <3>1, <3>3 DEF Changing
    <3>5. Active' = Active /\ info' = info
      BY <3>2 DEF rows, Active
    <3>6. QED BY <2>1, <3>2, <3>3, <3>4, <3>5, Still
  <2>4. ASSUME NEW h \in handlers, HandlerNext(h) PROVE ViewInv'
    BY <1>2, <1>4, <2>1, <2>4, RequestsKeepView
  <2>5. CASE HandleEvent
    BY <2>1, <2>5, EventIsTaken
  <2>6. CASE HandleList
    BY <1>4, <2>1, <2>6, ListIsTaken
  <2>7. CASE Click
    BY <2>2, <2>7 DEF Click, Select, Deselect
  <2>8. CASE LoadConversations
    <3>1. loads'.at = "asked"
      BY <2>8 DEF LoadConversations, AskList
    <3>2. QED BY <2>2, <2>8, <3>1 DEF LoadConversations, client
  <2>9. CASE ListConversations
    <3>1. loads'.at = "read"
      BY <2>9 DEF ListConversations, IInv, TypeOK
    <3>2. QED BY <2>2, <2>9, <3>1 DEF ListConversations, client
  <2>10. CASE Disconnect
    BY <1>5, <2>10 DEF Disconnect
  <2>11. CASE UNCHANGED vars
    BY <2>2, <2>11 DEF vars, client
  <2>12. QED BY <1>7, <2>3, <2>4, <2>5, <2>6, <2>7, <2>8, <2>9, <2>10, <2>11 DEF Next
<1>8. QED BY <1>6, <1>7

LEMMA ViewIsRightFirst == ASSUME Init PROVE RInv
<1>1. inbox = <<>> /\ handlers = {} /\ loads.at = "none" /\ view = Current /\ left = {}
      /\ \E o \in User, others \in SUBSET User :
           /\ Me \in others \cup {o}
           /\ role = [u \in User |-> IF u = o THEN "OWNER" ELSE IF u \in others THEN "MEMBER" ELSE None]
  BY DEF Init
<1>2. Me \in Active
  BY <1>1, UserAssumption, GroupAssumption DEF Active
<1>3. Current # None /\ Current.members = Active /\ Current.info = info
  BY InitEstablishes, CurrentIsGroup, GroupAssumption DEF IInv, Current
<1>4. TrueInv
  BY <1>1 DEF TrueInv, OneByOne, SeenIsTrue, ListIsTrue
<1>5. ViewInv
  BY <1>1, <1>2, <1>3
  DEF ViewInv, GroupsHaveMe, GroupIsComing, MembersAreTrue, InfoIsTrue, GoneIsComing
<1>6. QED BY <1>1, <1>4, <1>5 DEF RInv

(* As long as requests, loads and answers come one after the other, Me's   *)
(* client has the group as it is whenever all is quiet, however many there *)
(* have been, and however often the connection was lost in between.        *)
THEOREM ViewIsRight == Spec => []QuietViewIsRight
<1>1. IInv /\ RInv => QuietViewIsRight
  <2> SUFFICES ASSUME IInv, RInv, Quiet, ~raced
               PROVE  IF Me \in Active THEN view # None /\ view.members = Active /\ view.info = info
                                       ELSE view = None \/ kept
    BY DEF QuietViewIsRight
  <2>1. ViewInv /\ handlers = {} /\ inbox = <<>> /\ loads.at = "none" /\ view \in Group \cup {None}
    BY DEF Quiet, RInv, IInv, TypeOK
  <2>2. ~Changing /\ ~Renaming /\ (\A u : ~Moving(u)) /\ DOMAIN inbox = {}
    BY <2>1, NoRequest
  <2>3. NoGroupAfter(0) /\ \A u : Unsaid(u)
    BY <2>2 DEF NoGroupAfter, Unsaid
  <2>4. CASE Me \in Active
    <3>1. view # None /\ view \in Group
      BY <2>1, <2>2, <2>3, <2>4 DEF ViewInv, GroupIsComing
    <3>2. \A u \in User : u \in view.members <=> u \in Active
      BY <2>1, <2>2, <2>3, <2>4, <3>1 DEF ViewInv, MembersAreTrue
    <3>3. view.members \subseteq User /\ Active \subseteq User
      BY <3>1 DEF Group, Active
    <3>4. view.info = info
      BY <2>1, <2>2, <2>3, <2>4, <3>1 DEF ViewInv, InfoIsTrue
    <3>5. QED BY <2>4, <3>1, <3>2, <3>3, <3>4
  <2>5. CASE Me \notin Active
    BY <2>1, <2>2, <2>5 DEF ViewInv, GoneIsComing
  <2>6. QED BY <2>4, <2>5
<1>2. Init => RInv
  BY ViewIsRightFirst
<1>3. IInv /\ RInv /\ [Next]_vars => RInv'
  BY ViewStays
<1>4. QED BY <1>1, <1>2, <1>3, Invariance, PTL DEF Spec

-----------------------------------------------------------------------------
(* The settings                                                            *)

(* Only an answered call has an answer to go on with. *)
AnswersAreTexts == \A c \in calls : c.at = "answered" => c.answer \in S!Texts

(* What differs from the text that was saved last was typed here. *)
UnsavedIsTyped == \A f \in S!Field : draft[f] # saved[f] => draft[f] \in typed[room][f]

(* What is on its way to the server was typed for its group. *)
CallsAreTyped == \A c \in calls : c.value \in typed[c.group][c.field]

SettingsTyped == S!TypeOK /\ AnswersAreTexts
SettingsInv == UnsavedIsTyped /\ CallsAreTyped /\ OnlyTypedIsSaved

-----------------------------------------------------------------------------
(* Type correctness                                                        *)

(* A step of Next keeps the types.                                         *)
LEMMA SettingsStayTyped == SettingsTyped /\ [S!Next]_(S!vars) => SettingsTyped'
<1> SUFFICES ASSUME SettingsTyped, [S!Next]_(S!vars) PROVE SettingsTyped'
  OBVIOUS
<1> USE DEF SettingsTyped, S!TypeOK, AnswersAreTexts, S!Texts, S!Field, S!Call
<1>1. ASSUME NEW f \in S!Field, NEW t \in Word, S!Type(f, t) PROVE SettingsTyped'
  BY <1>1 DEF S!Type, S!AtRisk
<1>2. ASSUME NEW f \in S!Field, S!Flush(f) PROVE SettingsTyped'
  BY <1>2 DEF S!Flush, S!AtRisk, S!Unsaved, S!Loose, S!UnderWay
<1>3. ASSUME NEW g \in Room, S!Select(g) PROVE SettingsTyped'
  BY <1>3 DEF S!Select, S!AtRisk, S!Reset, S!counts, S!Loose, S!Unsaved
<1>4. CASE S!Touch
  BY <1>4 DEF S!Touch, S!Unsaved, S!past, S!counts
<1>5. ASSUME NEW c \in calls, S!Store(c) PROVE SettingsTyped'
  BY <1>5 DEF S!Store, S!Move, S!form, S!past, S!counts
<1>6. ASSUME NEW c \in calls, S!Reread(c) PROVE SettingsTyped'
  <2>1. c \in S!Call /\ row[c.group] \in S!Texts /\ row[c.group]["nickname"] \in Word
    OBVIOUS
  <2>2. news' \in Seq([group : Room, nickname : Word])
    <3> DEFINE m == [group |-> c.group, nickname |-> row[c.group]["nickname"]]
               M == [group : Room, nickname : Word]
    <3>1. m \in M /\ news \in Seq(M) /\ news' \in {news, Append(news, m)}
      BY <1>6, <2>1 DEF S!Reread
    <3> HIDE DEF m, M
    <3>2. Append(news, m) \in Seq(M)
      BY <3>1, AppendProperties
    <3>3. QED BY <3>1, <3>2 DEF M
  <2>3. calls' \subseteq S!Call /\ AnswersAreTexts'
    BY <1>6, <2>1 DEF S!Reread, S!Move
  <2>4. QED BY <1>6, <2>2, <2>3 DEF S!Reread, S!form, S!past, S!counts
<1>7. CASE S!ListRead
  BY <1>7 DEF S!ListRead, S!AtRisk, S!Loose, S!Unsaved, S!form
<1>8. ASSUME NEW c \in calls, S!Answered(c) PROVE SettingsTyped'
  <2>1. c \in S!Call /\ c.answer \in S!Texts
    BY <1>8 DEF S!Answered
  <2>2. copy' \in [Room -> S!Texts] /\ calls' \subseteq calls
    BY <1>8, <2>1 DEF S!Answered
  <2>3. ASSUME NEW drafts \in S!Texts, NEW refs \in S!Texts, NEW timers \in SUBSET S!Field,
               S!Continue(c, drafts, refs, timers)
        PROVE  draft' \in S!Texts /\ saved' \in S!Texts /\ timer' \subseteq S!Field
    BY <2>1, <2>3 DEF S!Continue
  <2>4. \/ S!Continue(c, draft, saved, timer) \/ S!Continue(c, c.answer, c.answer, {})
        \/ S!Continue(c, draft, saved, S!Unsaved)
    BY <1>8 DEF S!Answered
  <2>5. draft' \in S!Texts /\ saved' \in S!Texts /\ timer' \subseteq S!Field
    <3>1. draft \in S!Texts /\ saved \in S!Texts /\ S!Unsaved \subseteq S!Field
      BY DEF S!Unsaved
    <3>2. QED BY <2>1, <2>3, <2>4, <3>1
  <2>6. hurried' \subseteq Room \X S!Field
    <3>1. S!Outdated(c.group, c.answer) \subseteq Room \X S!Field
      BY <2>1 DEF S!Outdated
    <3>2. QED BY <1>8, <2>1, <3>1 DEF S!Answered
  <2>7. QED BY <1>8, <2>2, <2>5, <2>6 DEF S!Answered, S!counts
<1>9. ASSUME NEW c \in calls, S!Fails(c) PROVE SettingsTyped'
  BY <1>9 DEF S!Fails, S!form
<1>10. CASE S!NewsTaken
  <2> DEFINE m == Head(news)
             values == [copy[m.group] EXCEPT !["nickname"] = m.nickname]
  <2>1. m \in [group : Room, nickname : Word] /\ news' \in Seq([group : Room, nickname : Word])
    <3>1. news # <<>> /\ news' = Tail(news)
      BY <1>10 DEF S!NewsTaken
    <3>2. QED BY <3>1, HeadTailProperties
  <2>2. values \in S!Texts
    BY <2>1
  <2>3. S!Taken(m.group, values) /\ hurried' = hurried \cup S!Outdated(m.group, values)
    BY <1>10 DEF S!NewsTaken
  <2> HIDE DEF m, values
  <2>4. copy' \in [Room -> S!Texts]
    BY <2>1, <2>2, <2>3 DEF S!Taken
  <2>5. draft' \in S!Texts /\ saved' \in S!Texts /\ timer' \subseteq S!Field
    BY <2>1, <2>2, <2>3 DEF S!Taken, S!Reset, S!Unsaved
  <2>6. hurried' \subseteq Room \X S!Field
    BY <2>1, <2>3 DEF S!Outdated
  <2>7. QED BY <1>10, <2>1, <2>4, <2>5, <2>6 DEF S!NewsTaken, S!counts
<1>11. CASE S!ListTaken
  BY <1>11 DEF S!ListTaken, S!Reset, S!Outdated, S!Unsaved, S!counts
<1>12. CASE UNCHANGED S!vars
  BY <1>12 DEF S!vars, S!form, S!past, S!counts
<1>13. QED
  BY <1>1, <1>2, <1>3, <1>4, <1>5, <1>6, <1>7, <1>8, <1>9, <1>10, <1>11, <1>12 DEF S!Next

-----------------------------------------------------------------------------
(* Texts                                                                   *)

(* A step of Next keeps what is known about the texts.                     *)
LEMMA TextsStayTyped == SettingsTyped /\ SettingsInv /\ [S!Next]_(S!vars) => SettingsInv'
<1> SUFFICES ASSUME SettingsTyped, SettingsInv, [S!Next]_(S!vars) PROVE SettingsInv'
  OBVIOUS
<1> USE DEF SettingsTyped, S!TypeOK, AnswersAreTexts, S!Texts, S!Call,
            SettingsInv, UnsavedIsTyped, CallsAreTyped, OnlyTypedIsSaved, S!OnlyTypedIsSaved
<1>1. ASSUME NEW f \in S!Field, NEW t \in Word, S!Type(f, t) PROVE SettingsInv'
  BY <1>1 DEF S!Type
<1>2. ASSUME NEW f \in S!Field, S!Flush(f) PROVE SettingsInv'
  BY <1>2 DEF S!Flush, S!Unsaved
<1>3. ASSUME NEW g \in Room, S!Select(g) PROVE SettingsInv'
  BY <1>3 DEF S!Select, S!Reset
<1>4. CASE S!Touch
  BY <1>4 DEF S!Touch, S!past
<1>5. ASSUME NEW c \in calls, S!Store(c) PROVE SettingsInv'
  BY <1>5 DEF S!Store, S!Move, S!form, S!past
<1>6. ASSUME NEW c \in calls, S!Reread(c) PROVE SettingsInv'
  BY <1>6 DEF S!Reread, S!Move, S!form, S!past
<1>7. CASE S!ListRead
  BY <1>7 DEF S!ListRead, S!form
<1>8. ASSUME NEW c \in calls, S!Answered(c) PROVE SettingsInv'
  <2>1. c \in S!Call /\ c.answer \in S!Texts
    BY <1>8 DEF S!Answered
  <2>2. ASSUME NEW drafts \in S!Texts, NEW refs \in S!Texts, NEW timers,
               S!Continue(c, drafts, refs, timers)
        PROVE  \A f \in S!Field :
                 draft'[f] # saved'[f] => draft'[f] = drafts[f] /\ drafts[f] # refs[f]
    BY <2>1, <2>2 DEF S!Continue
  <2>3. \/ S!Continue(c, draft, saved, timer) \/ S!Continue(c, c.answer, c.answer, {})
        \/ S!Continue(c, draft, saved, S!Unsaved)
    BY <1>8 DEF S!Answered
  <2>4. UnsavedIsTyped'
    <3>1. draft \in S!Texts /\ saved \in S!Texts
      OBVIOUS
    <3>2. \A f \in S!Field : draft'[f] # saved'[f] => draft'[f] = draft[f] /\ draft[f] # saved[f]
      BY <2>1, <2>2, <2>3, <3>1
    <3>3. QED BY <1>8, <3>2 DEF S!Answered
  <2>5. CallsAreTyped' /\ OnlyTypedIsSaved'
    BY <1>8 DEF S!Answered
  <2>6. QED BY <2>4, <2>5
<1>9. ASSUME NEW c \in calls, S!Fails(c) PROVE SettingsInv'
  BY <1>9 DEF S!Fails, S!form
<1>10. CASE S!NewsTaken
  BY <1>10 DEF S!NewsTaken, S!Taken, S!Reset
<1>11. CASE S!ListTaken
  BY <1>11 DEF S!ListTaken, S!Reset
<1>12. CASE UNCHANGED S!vars
  BY <1>12 DEF S!vars, S!form, S!past
<1>13. QED
  BY <1>1, <1>2, <1>3, <1>4, <1>5, <1>6, <1>7, <1>8, <1>9, <1>10, <1>11, <1>12 DEF S!Next

(* In the initial state nothing has been typed.                            *)
LEMMA SettingsInit == S!Init => SettingsTyped /\ SettingsInv
<1> SUFFICES ASSUME S!Init PROVE SettingsTyped /\ SettingsInv
  OBVIOUS
<1>1. SettingsTyped
  BY NoTextAssumption DEF S!Init, SettingsTyped, S!TypeOK, AnswersAreTexts, S!Initially, S!Texts
<1>2. SettingsInv
  BY DEF S!Init, SettingsInv, UnsavedIsTyped, CallsAreTyped, OnlyTypedIsSaved, S!OnlyTypedIsSaved, S!Initially
<1>3. QED BY <1>1, <1>2

-----------------------------------------------------------------------------
(* Saves                                                                   *)

(* A save brings what was typed last, and leaves it in the row. *)
CallsAreWanted ==
  \A c \in calls : <<c.group, c.field>> \notin hurried =>
    /\ c.value = wanted[c.group][c.field]
    /\ c.at # "sent" => row[c.group][c.field] = c.value

(* What the store has is on the server, or a save is. *)
CopyIsTrue ==
  \A g \in Room, f \in S!Field : <<g, f>> \notin hurried =>
    copy[g][f] = row[g][f] \/ \E c \in calls : c.group = g /\ c.field = f

(* The same of what the form was set to. *)
SavedIsTrue ==
  \A f \in S!Field : <<room, f>> \notin hurried =>
    saved[f] = row[room][f] \/ \E c \in calls : c.group = room /\ c.field = f

(* What the form has was typed last. *)
DraftIsWanted ==
  \A f \in S!Unsaved : <<room, f>> \notin hurried => draft[f] = wanted[room][f]

(* What is not on its way when something else is may be lost. *)
LooseIsHurried == S!Busy => \A f \in S!Loose : <<room, f>> \in hurried

(* What was typed last is stored, due, or on its way. *)
WantedIsDue ==
  \A g \in Room, f \in S!Field : <<g, f>> \notin hurried =>
    \/ row[g][f] = wanted[g][f]
    \/ g = room /\ f \in timer /\ f \in S!Unsaved
    \/ \E c \in calls : c.group = g /\ c.field = f /\ c.at = "sent"

SavesInv == /\ CallsAreWanted /\ CopyIsTrue /\ SavedIsTrue /\ DraftIsWanted /\ LooseIsHurried
            /\ WantedIsDue

(* A step of the settings keeps what is known about saves.                 *)
LEMMA SavesStayWanted == SettingsTyped /\ SettingsTyped' /\ SavesInv /\ [S!Next]_(S!vars) => SavesInv'
<1> SUFFICES ASSUME SettingsTyped, SettingsTyped', SavesInv, [S!Next]_(S!vars) PROVE SavesInv'
  OBVIOUS
<1>1. CallsAreWanted /\ CopyIsTrue /\ SavedIsTrue /\ DraftIsWanted /\ LooseIsHurried /\ WantedIsDue
  BY DEF SavesInv
<1>2. /\ row \in [Room -> [S!Field -> Word]] /\ copy \in [Room -> [S!Field -> Word]]
      /\ wanted \in [Room -> [S!Field -> Word]] /\ draft \in [S!Field -> Word] /\ saved \in [S!Field -> Word]
      /\ room \in Room /\ timer \subseteq S!Field
      /\ \A c \in calls : c \in S!Call /\ c.group \in Room /\ c.field \in S!Field /\ c.value \in Word
  BY DEF SettingsTyped, S!TypeOK, S!Texts, S!Call
<1>3. ASSUME NEW g \in Room, NEW f \in S!Field, <<g, f>> \notin hurried,
             g = room /\ f \in S!Unsaved => f \notin S!Loose
      PROVE  \/ row[g][f] = wanted[g][f]
             \/ \E c \in calls : c.group = g /\ c.field = f /\ c.at = "sent"
  <2>1. CASE g = room /\ f \in S!Unsaved
    <3>1. PICK c \in calls : c.group = room /\ c.field = f
      BY <1>3, <2>1 DEF S!Loose, S!UnderWay
    <3>2. QED BY <1>1, <1>3, <2>1, <3>1 DEF CallsAreWanted
  <2>2. CASE ~(g = room /\ f \in S!Unsaved)
    BY <1>1, <1>3, <2>2 DEF WantedIsDue
  <2>3. QED BY <2>1, <2>2
<1>4. ASSUME NEW g \in Room, NEW f \in S!Field, <<g, f>> \notin hurried, S!Busy
      PROVE  \/ row[g][f] = wanted[g][f]
             \/ \E c \in calls : c.group = g /\ c.field = f /\ c.at = "sent"
  BY <1>1, <1>3, <1>4 DEF LooseIsHurried
<1>5. ASSUME NEW f \in S!Field, NEW t \in Word, S!Type(f, t) PROVE SavesInv'
  <2>1. /\ \A g \in Room, e \in S!Field :
             wanted'[g][e] = IF g = room /\ e = f THEN t ELSE wanted[g][e]
        /\ \A e \in S!Field : draft'[e] = IF e = f THEN t ELSE draft[e]
    BY <1>2, <1>5 DEF S!Type
  <2>2. /\ timer' = IF t = saved[f] THEN timer \ {f} ELSE timer \cup {f}
        /\ hurried \subseteq hurried' /\ (S!Busy => <<room, f>> \in hurried')
        /\ UNCHANGED <<row, copy, room, saved, calls, news, list>>
    BY <1>5 DEF S!Type, S!AtRisk
  <2>3. calls # {} => <<room, f>> \in hurried'
    BY <2>2 DEF S!Busy
  <2>4. CallsAreWanted'
    <3> SUFFICES ASSUME NEW c \in calls, <<c.group, c.field>> \notin hurried'
                 PROVE  wanted'[c.group][c.field] = wanted[c.group][c.field]
      BY <1>1, <2>2 DEF CallsAreWanted
    <3>1. ~(c.group = room /\ c.field = f)
      BY <2>3
    <3>2. QED BY <1>2, <2>1, <3>1
  <2>5. CopyIsTrue'
    BY <1>1, <1>2, <2>1, <2>2, <2>3 DEF CopyIsTrue
  <2>6. SavedIsTrue'
    BY <1>1, <1>2, <2>1, <2>2, <2>3 DEF SavedIsTrue
  <2>7. DraftIsWanted'
    BY <1>1, <1>2, <2>1, <2>2, <2>3 DEF DraftIsWanted, S!Unsaved
  <2>8. LooseIsHurried'
    BY <1>1, <1>2, <2>1, <2>2, <2>3 DEF LooseIsHurried, S!Busy, S!Loose, S!Unsaved, S!UnderWay
  <2>9. WantedIsDue'
    <3> SUFFICES ASSUME NEW g \in Room, NEW e \in S!Field, <<g, e>> \notin hurried'
                 PROVE  \/ row[g][e] = wanted'[g][e]
                        \/ g = room /\ e \in timer' /\ e \in S!Unsaved'
                        \/ \E c \in calls : c.group = g /\ c.field = e /\ c.at = "sent"
      BY <2>2 DEF WantedIsDue
    <3>1. CASE g = room /\ e = f
      <4>1. saved[f] = row[room][f]
        BY <1>1, <2>2, <2>3, <3>1 DEF SavedIsTrue
      <4>2. QED BY <1>2, <2>1, <2>2, <3>1, <4>1 DEF S!Unsaved
    <3>2. CASE ~(g = room /\ e = f)
      <4>1. e \in timer /\ e \in S!Unsaved /\ g = room => e \in timer' /\ e \in S!Unsaved'
        BY <2>1, <2>2, <3>2 DEF S!Unsaved
      <4>2. <<g, e>> \notin hurried /\ wanted'[g][e] = wanted[g][e]
        BY <2>1, <2>2, <3>2
      <4>3. QED BY <1>1, <4>1, <4>2 DEF WantedIsDue
    <3>3. QED BY <3>1, <3>2
  <2>10. QED BY <2>4, <2>5, <2>6, <2>7, <2>8, <2>9 DEF SavesInv
<1>6. ASSUME NEW f \in S!Field, S!Flush(f) PROVE SavesInv'
  <2> DEFINE d == [n |-> saves, group |-> room, field |-> f, value |-> draft[f], answer |-> None,
                   at |-> "sent"]
  <2>1. /\ calls' = calls \cup {d} /\ f \in S!Unsaved /\ timer' = timer \ {f}
        /\ hurried' = hurried \cup ({room} \X (S!Loose \ {f}))
        /\ UNCHANGED <<row, copy, room, draft, saved, news, list, typed, wanted>>
    BY <1>6 DEF S!Flush, S!AtRisk
  <2>2. d.group = room /\ d.field = f /\ d.value = draft[f] /\ d.at = "sent"
    OBVIOUS
  <2> HIDE DEF d
  <2>3. CallsAreWanted'
    BY <1>1, <1>2, <2>1, <2>2 DEF CallsAreWanted, DraftIsWanted
  <2>4. CopyIsTrue'
    BY <1>1, <1>2, <2>1, <2>2 DEF CopyIsTrue
  <2>5. SavedIsTrue'
    BY <1>1, <1>2, <2>1, <2>2 DEF SavedIsTrue
  <2>6. DraftIsWanted'
    BY <1>1, <1>2, <2>1, <2>2 DEF DraftIsWanted, S!Unsaved
  <2>7. LooseIsHurried'
    BY <1>1, <1>2, <2>1, <2>2 DEF LooseIsHurried, S!Busy, S!Loose, S!Unsaved, S!UnderWay
  <2>8. WantedIsDue'
    BY <1>1, <1>2, <2>1, <2>2 DEF WantedIsDue, S!Unsaved
  <2>9. QED BY <2>3, <2>4, <2>5, <2>6, <2>7, <2>8 DEF SavesInv
<1>7. ASSUME NEW g \in Room, S!Select(g) PROVE SavesInv'
  <2>1. /\ room' = g /\ draft' = copy[g] /\ saved' = copy[g] /\ timer' = {}
        /\ hurried' = hurried \cup ({room} \X S!Loose)
        /\ UNCHANGED <<row, copy, calls, news, list, typed, wanted>>
    BY <1>7 DEF S!Select, S!Reset, S!AtRisk
  <2>2. CallsAreWanted'
    BY <1>1, <1>2, <2>1 DEF CallsAreWanted
  <2>3. CopyIsTrue'
    BY <1>1, <1>2, <2>1 DEF CopyIsTrue
  <2>4. SavedIsTrue'
    BY <1>1, <1>2, <2>1 DEF SavedIsTrue, CopyIsTrue
  <2>5. DraftIsWanted'
    BY <1>1, <1>2, <2>1 DEF DraftIsWanted, S!Unsaved
  <2>6. LooseIsHurried'
    BY <1>1, <1>2, <2>1 DEF LooseIsHurried, S!Busy, S!Loose, S!Unsaved, S!UnderWay
  <2>7. WantedIsDue'
    BY <1>3, <2>1 DEF WantedIsDue
  <2>8. QED BY <2>2, <2>3, <2>4, <2>5, <2>6, <2>7 DEF SavesInv
<1>8. CASE S!Touch
  <2>1. CallsAreWanted'
    BY <1>1, <1>2, <1>8 DEF CallsAreWanted, S!Touch, S!past
  <2>2. CopyIsTrue'
    BY <1>1, <1>2, <1>8 DEF CopyIsTrue, S!Touch, S!past
  <2>3. SavedIsTrue'
    BY <1>1, <1>2, <1>8 DEF SavedIsTrue, S!Touch, S!past
  <2>4. DraftIsWanted'
    BY <1>1, <1>2, <1>8 DEF DraftIsWanted, S!Unsaved, S!Touch, S!past
  <2>5. LooseIsHurried'
    BY <1>1, <1>2, <1>8 DEF LooseIsHurried, S!Busy, S!Loose, S!Unsaved, S!UnderWay, S!Touch, S!past
  <2>6. WantedIsDue'
    BY <1>1, <1>2, <1>8 DEF WantedIsDue, S!Unsaved, S!Touch, S!past
  <2>7. QED BY <2>1, <2>2, <2>3, <2>4, <2>5, <2>6 DEF SavesInv
<1>9. ASSUME NEW c \in calls, S!Store(c) PROVE SavesInv'
  <2> DEFINE d == [c EXCEPT !.at = "stored"]
  <2>1. /\ calls' = (calls \ {c}) \cup {d} /\ c \in S!Call /\ c.at = "sent"
        /\ UNCHANGED <<copy, room, draft, saved, timer, list, typed, wanted, hurried>>
    BY <1>2, <1>9 DEF S!Store, S!Move, S!form, S!past
  <2>2. d.group = c.group /\ d.field = c.field /\ d.value = c.value /\ d.at = "stored"
    BY <2>1 DEF S!Call
  <2> HIDE DEF d
  <2>3. \A g \in Room, f \in S!Field :
          (\E e \in calls' : e.group = g /\ e.field = f) <=> \E e \in calls : e.group = g /\ e.field = f
    BY <2>1, <2>2
  <2>4. S!Busy /\ S!Unsaved' = S!Unsaved /\ \A f \in S!Field : S!UnderWay(f)' <=> S!UnderWay(f)
    <3>1. S!Busy /\ S!Unsaved' = S!Unsaved
      BY <2>1 DEF S!Busy, S!Unsaved
    <3>2. \A f \in S!Field : S!UnderWay(f)' <=> S!UnderWay(f)
      BY <2>1, <2>2 DEF S!UnderWay
    <3>3. QED BY <3>1, <3>2
  <2>5. S!Loose' = S!Loose
    BY <2>4 DEF S!Loose, S!Unsaved
  <2>6. \A g \in Room, f \in S!Field :
          row'[g][f] = IF g = c.group /\ f = c.field THEN c.value ELSE row[g][f]
    BY <1>2, <1>9 DEF S!Store
  <2>7. CallsAreWanted'
    BY <1>1, <1>2, <2>1, <2>2, <2>3, <2>4, <2>5, <2>6 DEF CallsAreWanted
  <2>8. CopyIsTrue'
    BY <1>1, <2>1, <2>3, <2>6 DEF CopyIsTrue
  <2>9. SavedIsTrue'
    <3> SUFFICES ASSUME NEW f \in S!Field, <<room, f>> \notin hurried, saved[f] # row'[room][f]
                 PROVE  \E e \in calls' : e.group = room /\ e.field = f
      BY <2>1 DEF SavedIsTrue
    <3>1. CASE c.group = room /\ c.field = f
      BY <1>2, <2>1, <2>3, <3>1
    <3>2. CASE ~(c.group = room /\ c.field = f)
      <4>1. \E e \in calls : e.group = room /\ e.field = f
        BY <1>1, <1>2, <2>6, <3>2 DEF SavedIsTrue
      <4>2. QED BY <1>2, <2>3, <4>1
    <3>3. QED BY <3>1, <3>2
  <2>10. DraftIsWanted'
    BY <1>1, <1>2, <2>1, <2>2, <2>3, <2>4, <2>5, <2>6 DEF DraftIsWanted
  <2>11. LooseIsHurried'
    BY <1>1, <1>2, <2>1, <2>2, <2>3, <2>4, <2>5, <2>6 DEF LooseIsHurried
  <2>12. WantedIsDue'
    <3> SUFFICES ASSUME NEW g \in Room, NEW f \in S!Field, <<g, f>> \notin hurried
                 PROVE  \/ row'[g][f] = wanted[g][f]
                        \/ \E e \in calls' : e.group = g /\ e.field = f /\ e.at = "sent"
      BY <2>1 DEF WantedIsDue
    <3>1. CASE g = c.group /\ f = c.field
      BY <1>1, <2>6, <3>1 DEF CallsAreWanted
    <3>2. CASE ~(g = c.group /\ f = c.field)
      BY <1>4, <2>1, <2>4, <2>6, <3>2
    <3>3. QED BY <3>1, <3>2
  <2>13. QED BY <2>7, <2>8, <2>9, <2>10, <2>11, <2>12 DEF SavesInv
<1>10. ASSUME NEW c \in calls, S!Reread(c) PROVE SavesInv'
  <2> DEFINE d == [c EXCEPT !.at = "answered", !.answer = row[c.group]]
  <2>1. /\ calls' = (calls \ {c}) \cup {d} /\ c \in S!Call /\ c.at = "stored"
        /\ UNCHANGED <<row, copy, room, draft, saved, timer, list, typed, wanted, hurried>>
    BY <1>2, <1>10 DEF S!Reread, S!Move, S!form, S!past
  <2>2. d.group = c.group /\ d.field = c.field /\ d.value = c.value /\ d.at = "answered"
    BY <2>1 DEF S!Call
  <2> HIDE DEF d
  <2>3. \A g \in Room, f \in S!Field :
          (\E e \in calls' : e.group = g /\ e.field = f) <=> \E e \in calls : e.group = g /\ e.field = f
    BY <2>1, <2>2
  <2>4. S!Busy /\ S!Unsaved' = S!Unsaved /\ \A f \in S!Field : S!UnderWay(f)' <=> S!UnderWay(f)
    <3>1. S!Busy /\ S!Unsaved' = S!Unsaved
      BY <2>1 DEF S!Busy, S!Unsaved
    <3>2. \A f \in S!Field : S!UnderWay(f)' <=> S!UnderWay(f)
      BY <2>1, <2>2 DEF S!UnderWay
    <3>3. QED BY <3>1, <3>2
  <2>5. S!Loose' = S!Loose
    BY <2>4 DEF S!Loose, S!Unsaved
  <2>6. \A g \in Room, f \in S!Field :
          (\E e \in calls : e.group = g /\ e.field = f /\ e.at = "sent") =>
            \E e \in calls' : e.group = g /\ e.field = f /\ e.at = "sent"
    BY <2>1, <2>2
  <2>7. CallsAreWanted'
    <3> SUFFICES ASSUME NEW e \in calls', <<e.group, e.field>> \notin hurried
                 PROVE  /\ e.value = wanted[e.group][e.field]
                        /\ e.at # "sent" => row[e.group][e.field] = e.value
      BY <2>1 DEF CallsAreWanted
    <3>1. CASE e \in calls
      BY <1>1, <3>1 DEF CallsAreWanted
    <3>2. CASE e = d
      <4>1. c.value = wanted[c.group][c.field] /\ row[c.group][c.field] = c.value
        BY <1>1, <2>1, <2>2, <3>2 DEF CallsAreWanted
      <4>2. QED BY <2>2, <3>2, <4>1
    <3>3. QED BY <2>1, <3>1, <3>2
  <2>8. CopyIsTrue'
    BY <1>1, <2>1, <2>3 DEF CopyIsTrue
  <2>9. SavedIsTrue'
    BY <1>1, <1>2, <2>1, <2>3 DEF SavedIsTrue
  <2>10. DraftIsWanted'
    BY <1>1, <1>2, <2>1, <2>2, <2>3, <2>4, <2>5, <2>6 DEF DraftIsWanted
  <2>11. LooseIsHurried'
    BY <1>1, <1>2, <2>1, <2>2, <2>3, <2>4, <2>5, <2>6 DEF LooseIsHurried
  <2>12. WantedIsDue'
    BY <1>4, <2>1, <2>4, <2>6 DEF WantedIsDue
  <2>13. QED BY <2>7, <2>8, <2>9, <2>10, <2>11, <2>12 DEF SavesInv
<1>11. CASE S!ListRead
  <2>1. /\ hurried' = hurried \cup ({room} \X S!Loose)
        /\ UNCHANGED <<row, copy, room, draft, saved, timer, calls, news, typed, wanted>>
    BY <1>11 DEF S!ListRead, S!AtRisk, S!form
  <2>2. CallsAreWanted'
    BY <1>1, <1>2, <2>1 DEF CallsAreWanted
  <2>3. CopyIsTrue'
    BY <1>1, <1>2, <2>1 DEF CopyIsTrue
  <2>4. SavedIsTrue'
    BY <1>1, <1>2, <2>1 DEF SavedIsTrue
  <2>5. DraftIsWanted'
    BY <1>1, <1>2, <2>1 DEF DraftIsWanted, S!Unsaved
  <2>6. LooseIsHurried'
    BY <1>1, <1>2, <2>1 DEF LooseIsHurried, S!Busy, S!Loose, S!Unsaved, S!UnderWay
  <2>7. WantedIsDue'
    BY <1>1, <1>2, <2>1 DEF WantedIsDue, S!Unsaved
  <2>8. QED BY <2>2, <2>3, <2>4, <2>5, <2>6, <2>7 DEF SavesInv
<1>12. ASSUME NEW c \in calls, S!Answered(c) PROVE SavesInv'
  <2>1. /\ c.at = "answered" /\ c.answer \in [S!Field -> Word] /\ calls' = calls \ {c}
        /\ copy' = [copy EXCEPT ![c.group] = c.answer]
        /\ UNCHANGED <<row, room, news, list, typed, wanted>>
    BY <1>12 DEF S!Answered, SettingsTyped, AnswersAreTexts, S!Texts
  <2>2. /\ hurried \subseteq hurried'
        /\ c.group # room => <<room, c.field>> \in hurried'
        /\ \A f \in S!Field : c.answer[f] # row[c.group][f] => <<c.group, f>> \in hurried'
    BY <1>12 DEF S!Answered, S!Outdated
  <2>3. /\ draft'[c.field] = c.value /\ saved'[c.field] = c.value
        /\ \/ \A f \in S!Field \ {c.field} : draft'[f] = draft[f] /\ saved'[f] = saved[f]
           \/ /\ c.group = room
              /\ \A f \in S!Field \ {c.field} : draft'[f] = c.answer[f] /\ saved'[f] = c.answer[f]
    BY <1>2, <2>1, <1>12 DEF S!Answered, S!Continue
  <2>4. S!Busy /\ S!Unsaved' \subseteq S!Unsaved \ {c.field}
    BY <2>3 DEF S!Busy, S!Unsaved
  <2>5. <<c.group, c.field>> \notin hurried =>
          row[c.group][c.field] = wanted[c.group][c.field] /\ row[c.group][c.field] = c.value
    BY <1>1, <2>1 DEF CallsAreWanted
  <2>6. CallsAreWanted'
    BY <1>1, <1>2, <2>1, <2>2, <2>3, <2>4, <2>5 DEF CallsAreWanted
  <2>7. CopyIsTrue'
    <3> SUFFICES ASSUME NEW g \in Room, NEW f \in S!Field, <<g, f>> \notin hurried', copy'[g][f] # row[g][f]
                 PROVE  \E e \in calls \ {c} : e.group = g /\ e.field = f
      BY <2>1 DEF CopyIsTrue
    <3>1. g # c.group
      BY <1>2, <2>1, <2>2
    <3>2. copy'[g] = copy[g] /\ <<g, f>> \notin hurried
      BY <2>1, <2>2, <3>1
    <3>3. QED BY <1>1, <3>1, <3>2 DEF CopyIsTrue
  <2>8. SavedIsTrue'
    BY <1>1, <1>2, <2>1, <2>2, <2>3, <2>4, <2>5 DEF SavedIsTrue
  <2>9. DraftIsWanted'
    BY <1>1, <1>2, <2>1, <2>2, <2>3, <2>4, <2>5 DEF DraftIsWanted, S!Unsaved
  <2>10. LooseIsHurried'
    <3> SUFFICES ASSUME NEW f \in S!Loose' PROVE <<room, f>> \in hurried'
      BY <2>1 DEF LooseIsHurried
    <3>1. f \in S!Unsaved /\ f # c.field /\ draft'[f] = draft[f]
      BY <2>3, <2>4 DEF S!Loose, S!Unsaved
    <3>2. f \in S!Loose
      BY <1>2, <2>1, <3>1 DEF S!Loose, S!UnderWay
    <3>3. QED BY <1>1, <2>2, <2>4, <3>2 DEF LooseIsHurried
  <2>11. WantedIsDue'
    BY <1>2, <1>4, <2>1, <2>2, <2>4, <2>5 DEF WantedIsDue
  <2>12. QED BY <2>6, <2>7, <2>8, <2>9, <2>10, <2>11 DEF SavesInv
<1>13. ASSUME NEW c \in calls, S!Fails(c) PROVE SavesInv'
  <2>1. CallsAreWanted'
    BY <1>1, <1>2, <1>13 DEF CallsAreWanted, S!Fails, S!form
  <2>2. CopyIsTrue'
    BY <1>1, <1>2, <1>13 DEF CopyIsTrue, S!Fails, S!form
  <2>3. SavedIsTrue'
    BY <1>1, <1>2, <1>13 DEF SavedIsTrue, S!Fails, S!form
  <2>4. DraftIsWanted'
    BY <1>1, <1>2, <1>13 DEF DraftIsWanted, S!Unsaved, S!Fails, S!form
  <2>5. LooseIsHurried'
    BY <1>1, <1>2, <1>13 DEF LooseIsHurried, S!Busy, S!Loose, S!Unsaved, S!UnderWay, S!Fails, S!form
  <2>6. WantedIsDue'
    BY <1>1, <1>2, <1>13 DEF WantedIsDue, S!Unsaved, S!Fails, S!form
  <2>7. QED BY <2>1, <2>2, <2>3, <2>4, <2>5, <2>6 DEF SavesInv
<1>14. CASE S!NewsTaken
  <2> DEFINE m == Head(news)
             values == [copy[m.group] EXCEPT !["nickname"] = m.nickname]
  <2>1. S!Busy /\ m \in [group : Room, nickname : Word]
    <3>1. news # <<>> /\ news \in Seq([group : Room, nickname : Word])
      BY <1>14 DEF S!NewsTaken, SettingsTyped, S!TypeOK
    <3>2. QED BY <3>1, HeadTailProperties DEF S!Busy
  <2>2. m.group \in Room /\ values \in [S!Field -> Word]
    BY <1>2, <2>1
  <2>3. /\ copy' = [copy EXCEPT ![m.group] = values]
        /\ \/ UNCHANGED <<draft, saved>>
           \/ m.group = room /\ draft' = values /\ saved' = values
        /\ hurried' = hurried \cup S!Outdated(m.group, values)
        /\ UNCHANGED <<row, room, calls, list, typed, wanted>>
    BY <1>14 DEF S!NewsTaken, S!Taken, S!Reset
  <2> HIDE DEF m, values
  <2>4. hurried \subseteq hurried' /\ \A f \in S!Field : values[f] # row[m.group][f] => <<m.group, f>> \in hurried'
    BY <2>3 DEF S!Outdated
  <2>5. CallsAreWanted'
    BY <1>1, <1>2, <2>1, <2>2, <2>3, <2>4 DEF CallsAreWanted
  <2>6. CopyIsTrue'
    BY <1>1, <1>2, <2>1, <2>2, <2>3, <2>4 DEF CopyIsTrue
  <2>7. SavedIsTrue'
    BY <1>1, <1>2, <2>1, <2>2, <2>3, <2>4 DEF SavedIsTrue
  <2>8. DraftIsWanted'
    BY <1>1, <1>2, <2>1, <2>2, <2>3, <2>4 DEF DraftIsWanted, S!Unsaved
  <2>9. LooseIsHurried'
    BY <1>1, <1>2, <2>1, <2>2, <2>3, <2>4 DEF LooseIsHurried, S!Busy, S!Loose, S!Unsaved, S!UnderWay
  <2>10. WantedIsDue'
    BY <1>4, <2>1, <2>3, <2>4 DEF WantedIsDue
  <2>11. QED BY <2>5, <2>6, <2>7, <2>8, <2>9, <2>10 DEF SavesInv
<1>15. CASE S!ListTaken
  <2>1. S!Busy /\ list \in [Room -> [S!Field -> Word]]
    BY <1>15 DEF S!ListTaken, S!Busy, SettingsTyped, S!TypeOK, S!Texts
  <2>2. /\ copy' = list /\ UNCHANGED <<row, room, calls, news, typed, wanted>>
        /\ \/ draft' = draft /\ saved' = saved
           \/ draft' = list[room] /\ saved' = list[room]
    BY <1>15 DEF S!ListTaken, S!Reset
  <2>3. hurried \subseteq hurried' /\ \A g \in Room, f \in S!Field : list[g][f] # row[g][f] => <<g, f>> \in hurried'
    BY <1>15 DEF S!ListTaken, S!Outdated
  <2>4. CallsAreWanted'
    BY <1>1, <1>2, <2>1, <2>2, <2>3 DEF CallsAreWanted
  <2>5. CopyIsTrue'
    BY <1>1, <1>2, <2>1, <2>2, <2>3 DEF CopyIsTrue
  <2>6. SavedIsTrue'
    BY <1>1, <1>2, <2>1, <2>2, <2>3 DEF SavedIsTrue
  <2>7. DraftIsWanted'
    BY <1>1, <1>2, <2>1, <2>2, <2>3 DEF DraftIsWanted, S!Unsaved
  <2>8. LooseIsHurried'
    BY <1>1, <1>2, <2>1, <2>2, <2>3 DEF LooseIsHurried, S!Busy, S!Loose, S!Unsaved, S!UnderWay
  <2>9. WantedIsDue'
    BY <1>4, <2>1, <2>2, <2>3 DEF WantedIsDue
  <2>10. QED BY <2>4, <2>5, <2>6, <2>7, <2>8, <2>9 DEF SavesInv
<1>16. CASE UNCHANGED S!vars
  <2>1. CallsAreWanted'
    BY <1>1, <1>2, <1>16 DEF CallsAreWanted, S!vars, S!form, S!past
  <2>2. CopyIsTrue'
    BY <1>1, <1>2, <1>16 DEF CopyIsTrue, S!vars, S!form, S!past
  <2>3. SavedIsTrue'
    BY <1>1, <1>2, <1>16 DEF SavedIsTrue, S!vars, S!form, S!past
  <2>4. DraftIsWanted'
    BY <1>1, <1>2, <1>16 DEF DraftIsWanted, S!Unsaved, S!vars, S!form, S!past
  <2>5. LooseIsHurried'
    BY <1>1, <1>2, <1>16 DEF LooseIsHurried, S!Busy, S!Loose, S!Unsaved, S!UnderWay, S!vars, S!form, S!past
  <2>6. WantedIsDue'
    BY <1>1, <1>2, <1>16 DEF WantedIsDue, S!Unsaved, S!vars, S!form, S!past
  <2>7. QED BY <2>1, <2>2, <2>3, <2>4, <2>5, <2>6 DEF SavesInv
<1>17. QED
  BY <1>5, <1>6, <1>7, <1>8, <1>9, <1>10, <1>11, <1>12, <1>13, <1>14, <1>15, <1>16 DEF S!Next

-----------------------------------------------------------------------------
(* Theorems                                                                *)

(* Every variable of GroupSettings has its type. *)
THEOREM SettingsTypeCorrect == S!Spec => []S!TypeOK
<1>1. S!Init => SettingsTyped
  BY SettingsInit
<1>2. SettingsTyped /\ [S!Next]_(S!vars) => SettingsTyped'
  BY SettingsStayTyped
<1>3. SettingsTyped => S!TypeOK
  BY DEF SettingsTyped
<1>4. QED BY <1>1, <1>2, <1>3, PTL DEF S!Spec

(* The server's nickname and remark of a group were typed for that group,  *)
(* although handleSaveGroupNickname sets the input, when the answer comes, *)
(* of whichever group is selected by then.                                 *)
THEOREM GroupsKeepTheirOwn == S!Spec => []OnlyTypedIsSaved
<1>1. S!Init => SettingsTyped /\ SettingsInv
  BY SettingsInit
<1>2. SettingsTyped /\ SettingsInv /\ [S!Next]_(S!vars) => (SettingsTyped /\ SettingsInv)'
  BY SettingsStayTyped, TextsStayTyped
<1>3. SettingsTyped /\ SettingsInv => OnlyTypedIsSaved
  BY DEF SettingsInv
<1>4. QED BY <1>1, <1>2, <1>3, PTL DEF S!Spec

(* A text that was typed last is stored in the end, unless it was at risk:  *)
(* while it is not, a save that is due or on its way will bring it.        *)
THEOREM TypedLastIsSaved == S!Spec => []UnhurriedIsSaved
<1>1. S!Init => SettingsTyped /\ SavesInv
  BY SettingsInit
  DEF S!Init, SavesInv, CallsAreWanted, CopyIsTrue, SavedIsTrue, DraftIsWanted, LooseIsHurried,
      WantedIsDue, S!Busy, S!Unsaved, S!Initially
<1>2. SettingsTyped /\ SavesInv /\ [S!Next]_(S!vars) => (SettingsTyped /\ SavesInv)'
  BY SettingsStayTyped, SavesStayWanted
<1>3. SettingsTyped /\ SavesInv => UnhurriedIsSaved
  BY DEF SavesInv, WantedIsDue, UnhurriedIsSaved, S!UnhurriedIsSaved, S!Quiet, S!Busy
<1>4. QED BY <1>1, <1>2, <1>3, PTL DEF S!Spec

-----------------------------------------------------------------------------
(* The dialog                                                              *)

Order == [n : Nat, group : Room, values : D!Texts, edited : SUBSET D!Field,
          answer : D!Texts \cup {None}, at : {"sent", "stored", "answered"}]
News  == [group : Room, values : D!Texts]

DialogTyped ==
  /\ texts \in [Room -> D!Texts] /\ known \in [Room -> D!Texts] /\ room \in Room
  /\ isOpen \in BOOLEAN /\ saving \in BOOLEAN
  /\ form \in D!Texts /\ synced \in D!Texts
  /\ orders \subseteq Order /\ \A c \in orders : c.at = "answered" => c.answer \in D!Texts
  /\ notices \in Seq(News)
  /\ titles \in [Room -> D!Texts] \cup {None}
  /\ edited \subseteq D!Field
  /\ saves \in Nat

(* One save at a time is under way. *)
OneOrder == (orders # {} => saving) /\ \A c, d \in orders : c = d

(* The store has what the server has, but for what a save has stored. *)
KnownIsTrue ==
  \A g \in Room \ outdated :
    known[g] = texts[g] \/ \E c \in orders : c.group = g /\ c.at # "sent"

(* An input of the open dialog has what the store has, or was edited. *)
FormFollows == isOpen => synced = known[room] /\ \A f \in D!Field \ edited : form[f] = synced[f]

(* A save that is going to be stored changes what was edited. *)
OrdersAreEdited ==
  \A c \in orders : c.at = "sent" /\ c.group \notin outdated =>
    \A f \in D!Field \ c.edited : c.values[f] = texts[c.group][f]

DialogInv == OneOrder /\ KnownIsTrue /\ FormFollows /\ OrdersAreEdited

(* A step of the dialog keeps the types.                                   *)
LEMMA DialogStaysTyped == DialogTyped /\ [D!Next]_(D!vars) => DialogTyped'
<1> SUFFICES ASSUME DialogTyped, [D!Next]_(D!vars) PROVE DialogTyped'
  OBVIOUS
<1> USE NoTextAssumption DEF DialogTyped, Order, News, D!Texts, D!Field
<1>1. CASE D!Open
  BY <1>1 DEF D!Open, D!counts
<1>2. CASE D!Close
  BY <1>2 DEF D!Close, D!Blank, D!counts
<1>3. CASE D!Save
  <2> DEFINE d == [n |-> saves, group |-> room, values |-> form, edited |-> edited,
                   answer |-> None, at |-> "sent"]
  <2>1. /\ orders' = orders \cup {d} /\ saving' = TRUE /\ saves' = saves + 1
        /\ UNCHANGED <<texts, known, room, isOpen, form, synced, notices, titles, edited>>
    BY <1>3 DEF D!Save, D!dialog, D!past
  <2>2. d \in Order /\ d.at = "sent"
    OBVIOUS
  <2> HIDE DEF d
  <2>3. QED BY <2>1, <2>2
<1>4. ASSUME NEW f \in D!Field, NEW t \in Title, D!Type(f, t) PROVE DialogTyped'
  BY <1>4 DEF D!Type
<1>5. ASSUME NEW g \in Room, D!Select(g) PROVE DialogTyped'
  BY <1>5 DEF D!Select, D!counts
<1>6. ASSUME NEW c \in orders, D!Store(c) PROVE DialogTyped'
  <2> DEFINE d == [c EXCEPT !.at = "stored"]
  <2>1. /\ orders' = (orders \ {c}) \cup {d} /\ texts' = [texts EXCEPT ![c.group] = c.values]
        /\ UNCHANGED <<known, room, isOpen, saving, form, synced, notices, titles, edited, saves>>
    BY <1>6 DEF D!Store, D!Move, D!dialog, D!past, D!counts
  <2>2. d \in Order /\ d.at = "stored" /\ c.group \in Room /\ c.values \in D!Texts
    OBVIOUS
  <2> HIDE DEF d
  <2>3. QED BY <2>1, <2>2
<1>7. ASSUME NEW c \in orders, D!Reread(c) PROVE DialogTyped'
  <2> DEFINE m == [group |-> c.group, values |-> texts[c.group]]
             d == [c EXCEPT !.at = "answered", !.answer = texts[c.group]]
  <2>1. /\ orders' = (orders \ {c}) \cup {d} /\ notices' = Append(notices, m)
        /\ UNCHANGED <<texts, known, room, isOpen, saving, form, synced, titles, edited, saves>>
    BY <1>7 DEF D!Reread, D!Move, D!dialog, D!past, D!counts
  <2>2. d \in Order /\ d.answer \in D!Texts /\ m \in News
    OBVIOUS
  <2> HIDE DEF m, d
  <2>3. notices' \in Seq(News)
    BY <2>1, <2>2, AppendProperties
  <2>4. QED BY <2>1, <2>2, <2>3
<1>8. ASSUME NEW c \in orders, D!Answered(c) PROVE DialogTyped'
  <2> DEFINE shown == IF isOpen THEN known'[room] ELSE c.values
  <2>1. /\ orders' = orders \ {c} /\ saving' = FALSE /\ known' = [known EXCEPT ![c.group] = c.answer]
        /\ form' = shown /\ synced' = shown /\ edited' = {}
        /\ UNCHANGED <<texts, room, isOpen, notices, titles, saves>>
    BY <1>8 DEF D!Answered, D!counts
  <2>2. c \in Order /\ c.answer \in D!Texts /\ c.values \in D!Texts
    BY <1>8 DEF D!Answered
  <2>3. known' \in [Room -> D!Texts] /\ shown \in D!Texts
    BY <2>1, <2>2
  <2> HIDE DEF shown
  <2>4. QED BY <2>1, <2>3
<1>9. ASSUME NEW c \in orders, D!Fails(c) PROVE DialogTyped'
  BY <1>9 DEF D!Fails, D!dialog
<1>10. CASE D!ListRead
  BY <1>10 DEF D!ListRead, D!dialog, D!past
<1>11. CASE D!NewsTaken
  <2> DEFINE m == Head(notices)
             values == [known EXCEPT ![m.group] = m.values]
  <2>1. m \in News /\ notices' \in Seq(News)
    <3>1. notices # <<>> /\ notices' = Tail(notices)
      BY <1>11 DEF D!NewsTaken
    <3>2. QED BY <3>1, HeadTailProperties
  <2>2. D!Taken(values) /\ titles' = titles
    BY <1>11 DEF D!NewsTaken
  <2>3. values \in [Room -> D!Texts]
    BY <2>1
  <2> HIDE DEF m, values
  <2>4. QED BY <2>1, <2>2, <2>3 DEF D!Taken, D!Follow, D!counts
<1>12. CASE D!ListTaken
  BY <1>12 DEF D!ListTaken, D!Taken, D!Follow, D!counts
<1>13. CASE UNCHANGED D!vars
  BY <1>13 DEF D!vars, D!dialog, D!past, D!counts
<1>14. QED
  BY <1>1, <1>2, <1>3, <1>4, <1>5, <1>6, <1>7, <1>8, <1>9, <1>10, <1>11, <1>12, <1>13
  DEF D!Next

(* A step of the dialog keeps what is known about saves.                   *)
LEMMA DialogIsKept == DialogTyped /\ DialogInv /\ [D!Next]_(D!vars) => DialogInv'
<1> SUFFICES ASSUME DialogTyped, DialogInv, [D!Next]_(D!vars) PROVE DialogInv'
  OBVIOUS
<1>1. OneOrder /\ KnownIsTrue /\ FormFollows /\ OrdersAreEdited
  BY DEF DialogInv
<1>2. /\ texts \in [Room -> D!Texts] /\ known \in [Room -> D!Texts] /\ room \in Room
      /\ form \in D!Texts /\ \A c \in orders : c \in Order /\ c.group \in Room
  BY DEF DialogTyped, Order
<1>3. ASSUME NEW values, D!Taken(values) PROVE DialogInv'
  <2>1. known' = values /\ UNCHANGED <<texts, room, isOpen, saving, orders>>
    BY <1>3 DEF D!Taken
  <2>2. outdated \subseteq outdated' /\ \A g \in Room : values[g] # texts[g] => g \in outdated'
    BY <1>3 DEF D!Taken, D!Stale
  <2>3. /\ isOpen /\ values[room] # known[room] =>
           /\ form' = [f \in D!Field |-> IF form[f] = synced[f] THEN values[room][f] ELSE form[f]]
           /\ synced' = values[room] /\ edited' = {f \in edited : form[f] # synced[f]}
        /\ ~(isOpen /\ values[room] # known[room]) => UNCHANGED <<form, synced, edited>>
    BY <1>3 DEF D!Taken, D!Follow
  <2>4. OneOrder'
    BY <1>1, <1>2, <2>1, <2>2, <2>3 DEF OneOrder
  <2>5. KnownIsTrue'
    BY <1>1, <1>2, <2>1, <2>2, <2>3 DEF KnownIsTrue
  <2>6. FormFollows'
    BY <1>1, <1>2, <2>1, <2>2, <2>3 DEF FormFollows
  <2>7. OrdersAreEdited'
    BY <1>1, <1>2, <2>1, <2>2, <2>3 DEF OrdersAreEdited
  <2>8. QED BY <2>4, <2>5, <2>6, <2>7 DEF DialogInv
<1>4. CASE D!Open
  <2>1. /\ isOpen' = TRUE /\ form' = known[room] /\ synced' = known[room] /\ edited' = {}
        /\ UNCHANGED <<texts, known, room, saving, orders, outdated>>
    BY <1>4 DEF D!Open
  <2>2. OneOrder'
    BY <1>1, <1>2, <2>1 DEF OneOrder
  <2>3. KnownIsTrue'
    BY <1>1, <1>2, <2>1 DEF KnownIsTrue
  <2>4. FormFollows'
    BY <1>1, <1>2, <2>1 DEF FormFollows
  <2>5. OrdersAreEdited'
    BY <1>1, <1>2, <2>1 DEF OrdersAreEdited
  <2>6. QED BY <2>2, <2>3, <2>4, <2>5 DEF DialogInv
<1>5. CASE D!Close
  <2>1. isOpen' = FALSE /\ UNCHANGED <<texts, known, room, saving, orders, outdated>>
    BY <1>5 DEF D!Close
  <2>2. OneOrder'
    BY <1>1, <1>2, <2>1 DEF OneOrder
  <2>3. KnownIsTrue'
    BY <1>1, <1>2, <2>1 DEF KnownIsTrue
  <2>4. FormFollows'
    BY <1>1, <1>2, <2>1 DEF FormFollows
  <2>5. OrdersAreEdited'
    BY <1>1, <1>2, <2>1 DEF OrdersAreEdited
  <2>6. QED BY <2>2, <2>3, <2>4, <2>5 DEF DialogInv
<1>6. CASE D!Save
  <2> DEFINE d == [n |-> saves, group |-> room, values |-> form, edited |-> edited,
                   answer |-> None, at |-> "sent"]
  <2>1. /\ orders' = orders \cup {d} /\ saving' = TRUE /\ isOpen /\ ~saving
        /\ UNCHANGED <<texts, known, room, isOpen, form, synced, edited, outdated>>
    BY <1>6 DEF D!Save, D!dialog, D!past
  <2>2. d.group = room /\ d.values = form /\ d.edited = edited /\ d.at = "sent"
    OBVIOUS
  <2>3. orders' = {d}
    BY <1>1, <2>1 DEF OneOrder
  <2> HIDE DEF d
  <2>4. OneOrder'
    BY <1>1, <1>2, <2>1, <2>2, <2>3 DEF OneOrder
  <2>5. KnownIsTrue'
    BY <1>1, <1>2, <2>1, <2>2, <2>3 DEF KnownIsTrue
  <2>6. FormFollows'
    BY <1>1, <1>2, <2>1, <2>2, <2>3 DEF FormFollows
  <2>7. OrdersAreEdited'
    <3>1. room \notin outdated => form = texts[room] \/ \A f \in D!Field \ edited : form[f] = texts[room][f]
      BY <1>1, <1>2, <2>1 DEF OneOrder, KnownIsTrue, FormFollows
    <3>2. QED BY <2>1, <2>2, <2>3, <3>1 DEF OrdersAreEdited
  <2>8. QED BY <2>4, <2>5, <2>6, <2>7 DEF DialogInv
<1>7. ASSUME NEW f \in D!Field, NEW t \in Title, D!Type(f, t) PROVE DialogInv'
  <2>1. /\ \A e \in D!Field \ {f} : form'[e] = form[e]
        /\ edited' = edited \cup {f} /\ UNCHANGED <<texts, known, room, isOpen, synced, saving, orders, outdated>>
    BY <1>2, <1>7 DEF D!Type, D!Texts
  <2>2. OneOrder'
    BY <1>1, <1>2, <2>1 DEF OneOrder
  <2>3. KnownIsTrue'
    BY <1>1, <1>2, <2>1 DEF KnownIsTrue
  <2>4. FormFollows'
    BY <1>1, <1>2, <2>1 DEF FormFollows
  <2>5. OrdersAreEdited'
    BY <1>1, <1>2, <2>1 DEF OrdersAreEdited
  <2>6. QED BY <2>2, <2>3, <2>4, <2>5 DEF DialogInv
<1>8. ASSUME NEW g \in Room, D!Select(g) PROVE DialogInv'
  <2>1. isOpen' = FALSE /\ UNCHANGED <<texts, known, saving, orders, outdated>>
    BY <1>8 DEF D!Select
  <2>2. OneOrder'
    BY <1>1, <1>2, <2>1 DEF OneOrder
  <2>3. KnownIsTrue'
    BY <1>1, <1>2, <2>1 DEF KnownIsTrue
  <2>4. FormFollows'
    BY <1>1, <1>2, <2>1 DEF FormFollows
  <2>5. OrdersAreEdited'
    BY <1>1, <1>2, <2>1 DEF OrdersAreEdited
  <2>6. QED BY <2>2, <2>3, <2>4, <2>5 DEF DialogInv
<1>9. ASSUME NEW c \in orders, D!Store(c) PROVE DialogInv'
  <2> DEFINE d == [c EXCEPT !.at = "stored"]
  <2>1. /\ orders' = (orders \ {c}) \cup {d} /\ texts' = [texts EXCEPT ![c.group] = c.values]
        /\ UNCHANGED <<known, room, isOpen, saving, form, synced, edited, outdated>>
    BY <1>9 DEF D!Store, D!Move, D!dialog, D!past
  <2>2. c \in Order /\ d.group = c.group /\ d.at = "stored"
    BY <1>2 DEF Order
  <2>3. orders' = {d}
    BY <1>1, <2>1 DEF OneOrder
  <2> HIDE DEF d
  <2>4. OneOrder'
    BY <1>1, <1>2, <2>1, <2>2, <2>3 DEF OneOrder
  <2>5. KnownIsTrue'
    BY <1>1, <1>2, <2>1, <2>2, <2>3 DEF KnownIsTrue
  <2>6. FormFollows'
    BY <1>1, <1>2, <2>1, <2>2, <2>3 DEF FormFollows
  <2>7. OrdersAreEdited'
    BY <1>1, <1>2, <2>1, <2>2, <2>3 DEF OrdersAreEdited
  <2>8. QED BY <2>4, <2>5, <2>6, <2>7 DEF DialogInv
<1>10. ASSUME NEW c \in orders, D!Reread(c) PROVE DialogInv'
  <2> DEFINE d == [c EXCEPT !.at = "answered", !.answer = texts[c.group]]
  <2>1. /\ orders' = (orders \ {c}) \cup {d} /\ c.at = "stored"
        /\ UNCHANGED <<texts, known, room, isOpen, saving, form, synced, edited, outdated>>
    BY <1>10 DEF D!Reread, D!Move, D!dialog, D!past
  <2>2. c \in Order /\ d.group = c.group /\ d.at = "answered"
    BY <1>2 DEF Order
  <2>3. orders' = {d} /\ orders = {c}
    BY <1>1, <2>1 DEF OneOrder
  <2> HIDE DEF d
  <2>4. OneOrder'
    BY <1>1, <1>2, <2>1, <2>2, <2>3 DEF OneOrder
  <2>5. KnownIsTrue'
    BY <1>1, <1>2, <2>1, <2>2, <2>3 DEF KnownIsTrue
  <2>6. FormFollows'
    BY <1>1, <1>2, <2>1, <2>2, <2>3 DEF FormFollows
  <2>7. OrdersAreEdited'
    BY <1>1, <1>2, <2>1, <2>2, <2>3 DEF OrdersAreEdited
  <2>8. QED BY <2>4, <2>5, <2>6, <2>7 DEF DialogInv
<1>11. ASSUME NEW c \in orders, D!Answered(c) PROVE DialogInv'
  <2> DEFINE shown == IF isOpen THEN known'[room] ELSE c.values
  <2>1. /\ orders' = orders \ {c} /\ known' = [known EXCEPT ![c.group] = c.answer]
        /\ form' = shown /\ synced' = shown
        /\ UNCHANGED <<texts, room, isOpen>>
        /\ outdated \subseteq outdated' /\ (c.answer # texts[c.group] => c.group \in outdated')
    BY <1>11 DEF D!Answered, D!Stale
  <2>2. orders = {c} /\ orders' = {}
    BY <1>1, <2>1 DEF OneOrder
  <2>3. OneOrder'
    BY <1>1, <1>2, <2>1, <2>2 DEF OneOrder
  <2>4. KnownIsTrue'
    BY <1>1, <1>2, <2>1, <2>2 DEF KnownIsTrue
  <2>5. FormFollows'
    BY <1>1, <1>2, <2>1, <2>2 DEF FormFollows
  <2>6. OrdersAreEdited'
    BY <1>1, <1>2, <2>1, <2>2 DEF OrdersAreEdited
  <2>7. QED BY <2>3, <2>4, <2>5, <2>6 DEF DialogInv
<1>12. ASSUME NEW c \in orders, D!Fails(c) PROVE DialogInv'
  <2>1. /\ orders' = orders \ {c} /\ UNCHANGED <<texts, known, room, isOpen, form, synced, edited>>
        /\ outdated \subseteq outdated' /\ (known[c.group] # texts[c.group] => c.group \in outdated')
    BY <1>12 DEF D!Fails, D!Stale, D!dialog
  <2>2. orders = {c} /\ orders' = {}
    BY <1>1, <2>1 DEF OneOrder
  <2>3. OneOrder'
    BY <1>1, <1>2, <2>1, <2>2 DEF OneOrder
  <2>4. KnownIsTrue'
    BY <1>1, <1>2, <2>1, <2>2 DEF KnownIsTrue
  <2>5. FormFollows'
    BY <1>1, <1>2, <2>1, <2>2 DEF FormFollows
  <2>6. OrdersAreEdited'
    BY <1>1, <1>2, <2>1, <2>2 DEF OrdersAreEdited
  <2>7. QED BY <2>3, <2>4, <2>5, <2>6 DEF DialogInv
<1>13. CASE D!ListRead
  <2>1. UNCHANGED <<texts, known, room, isOpen, form, synced, saving, orders, edited, outdated>>
    BY <1>13 DEF D!ListRead, D!dialog, D!past
  <2>2. OneOrder'
    BY <1>1, <1>2, <2>1 DEF OneOrder
  <2>3. KnownIsTrue'
    BY <1>1, <1>2, <2>1 DEF KnownIsTrue
  <2>4. FormFollows'
    BY <1>1, <1>2, <2>1 DEF FormFollows
  <2>5. OrdersAreEdited'
    BY <1>1, <1>2, <2>1 DEF OrdersAreEdited
  <2>6. QED BY <2>2, <2>3, <2>4, <2>5 DEF DialogInv
<1>14. CASE D!NewsTaken
  BY <1>3, <1>14 DEF D!NewsTaken
<1>15. CASE D!ListTaken
  BY <1>3, <1>15 DEF D!ListTaken
<1>16. CASE UNCHANGED D!vars
  <2>1. UNCHANGED <<texts, known, room, isOpen, form, synced, saving, orders, edited, outdated>>
    BY <1>16 DEF D!vars, D!dialog, D!past
  <2>2. OneOrder'
    BY <1>1, <1>2, <2>1 DEF OneOrder
  <2>3. KnownIsTrue'
    BY <1>1, <1>2, <2>1 DEF KnownIsTrue
  <2>4. FormFollows'
    BY <1>1, <1>2, <2>1 DEF FormFollows
  <2>5. OrdersAreEdited'
    BY <1>1, <1>2, <2>1 DEF OrdersAreEdited
  <2>6. QED BY <2>2, <2>3, <2>4, <2>5 DEF DialogInv
<1>17. QED
  BY <1>4, <1>5, <1>6, <1>7, <1>8, <1>9, <1>10, <1>11, <1>12, <1>13, <1>14, <1>15, <1>16
  DEF D!Next

(* What the owner has not edited in the dialog stays as it is on the server*)
(* when a save sends it along, unless the store was out of date.           *)
THEOREM OnlyEditedIsChanged == D!Spec => OnlyEditedFieldsChange
<1>1. D!Init => DialogTyped /\ DialogInv
  <2> SUFFICES ASSUME D!Init PROVE DialogTyped /\ DialogInv
    OBVIOUS
  <2>1. DialogTyped
    <3>1. D!Blank \in D!Texts
      BY NoTextAssumption DEF D!Blank, D!Texts
    <3>2. texts \in [Room -> D!Texts] /\ known = texts /\ form = D!Blank /\ synced = D!Blank
      BY DEF D!Init
    <3>3. isOpen \in BOOLEAN /\ saving \in BOOLEAN
      BY DEF D!Init
    <3>4. orders = {} /\ notices \in Seq(News) /\ titles = None /\ edited = {} /\ saves \in Nat /\ room \in Room
      BY DEF D!Init
    <3>5. QED BY <3>1, <3>2, <3>3, <3>4 DEF DialogTyped
  <2>2. DialogInv
    BY DEF D!Init, DialogInv, OneOrder, KnownIsTrue, FormFollows, OrdersAreEdited
  <2>3. QED BY <2>1, <2>2
<1>2. DialogTyped /\ DialogInv /\ [D!Next]_(D!vars) => (DialogTyped /\ DialogInv)'
  BY DialogStaysTyped, DialogIsKept
<1>3. DialogTyped /\ DialogInv /\ [D!Next]_(D!vars) => [D!OnlyEdited]_(D!vars)
  <2> SUFFICES ASSUME DialogTyped, DialogInv, D!Next PROVE D!OnlyEdited
    OBVIOUS
  <2>1. CASE UNCHANGED texts
    BY <2>1 DEF D!OnlyEdited
  <2>2. ASSUME NEW c \in orders, D!Store(c) PROVE D!OnlyEdited
    <3>1. texts' = [texts EXCEPT ![c.group] = c.values] /\ c.at = "sent"
      BY <2>2 DEF D!Store
    <3>2. \A f \in D!Field : c.group \in outdated \/ f \in c.edited \/ c.values[f] = texts[c.group][f]
      BY <3>1 DEF DialogInv, OrdersAreEdited
    <3>3. c.group \in Room /\ texts \in [Room -> D!Texts]
      BY DEF DialogTyped, Order
    <3>4. QED BY <3>1, <3>2, <3>3 DEF D!OnlyEdited
  <2>3. QED
    BY <2>1, <2>2 DEF D!Next, D!Open, D!Close, D!Save, D!Type, D!Select, D!Reread, D!Answered, D!Fails,
       D!ListRead, D!NewsTaken, D!ListTaken, D!Taken
<1>4. QED BY <1>1, <1>2, <1>3, PTL DEF D!Spec, OnlyEditedFieldsChange
==============================================================================
