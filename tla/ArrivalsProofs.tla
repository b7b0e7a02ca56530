--------------------------- MODULE ArrivalsProofs ---------------------------
(***************************************************************************)
(* Proofs about the messages on their way to a user, for every number of   *)
(* messages, lists, acts, receivers and restarts.                          *)
(*                                                                         *)
(* Of Badges: what is read was shown, a conversation that was removed      *)
(* comes back, and the badge is right when all is quiet.  The inductive    *)
(* invariant, BadgesInv, says of every message where it still is: in a     *)
(* loop, in an event, with a handler, on a page, or counted.               *)
(*                                                                         *)
(* Of Delivery: no message is stranded between the loop that sends it and  *)
(* the loops that deliver what was missed.  The inductive invariant,       *)
(* DeliveryInv, says of every committed message which loop still has it.   *)
(***************************************************************************)
EXTENDS Arrivals, SequenceTheorems, FiniteSetTheorems, WellFoundedInduction, TLAPS

-----------------------------------------------------------------------------
(* Badges                                                                  *)

(* What is where, by message *)
News   == {m \in Message : Contains(events, <<"new", m>>)}
Echoes == {k \in Message : Contains(events, <<"read", k>>)}
Hands  == {m \in Message : \E h \in handling : h.m = m}
ToRead == {m \in Message : \E k \in reads : m <= k}
Seen   == {m \in Message : \E h \in handling : h.saw /\ m <= h.m}
Paged  == {m \in Message : m <= sent /\ (page.at = "asked" \/ (page.at = "kept" /\ m <= page.last))}

(* What arrives for certain, at the latest with the next connection *)
Sure == undelivered \cup News \cup Hands

EventShape == {"new", "read", "group"} \X Nat
ListShape  == [at : {"asked", "answered"}, last : Nat, unread : SUBSET Nat]

RowsTyped ==
  /\ sent \in 0 .. MaxMessages /\ settled \subseteq Message
  /\ unread \cup undelivered \cup pushing \cup backlog \subseteq 1 .. sent

WireTyped ==
  /\ conn \in {"down", "open", "registered", "served"} /\ stale \in BOOLEAN
  /\ events \in Seq(EventShape) /\ News \cup Echoes \cup reads \subseteq 1 .. sent

ListsTyped ==
  /\ lists \in Seq(ListShape)
  /\ \A i \in DOMAIN lists :
       lists[i].last \in 0 .. sent /\ lists[i].unread \subseteq 1 .. lists[i].last

CallsTyped ==
  /\ \A h \in handling : h.m \in 1 .. sent /\ h.saw \in BOOLEAN
  /\ ListsTyped
  /\ page.at \in {"idle", "asked", "kept"} /\ page.last \in 0 .. sent
  /\ opening \in {"no", "selecting", "selected"}

EntryTyped ==
  /\ counted \subseteq 1 .. sent /\ again \in Nat /\ lastAt \in 0 .. sent /\ lastId \in 0 .. sent
  /\ override \in Nat \cup {None} /\ hidden \in 0 .. sent \cup {None} /\ acts \in Nat

FlagsTyped ==
  /\ known \in BOOLEAN /\ hasLocal \in BOOLEAN /\ selected \in BOOLEAN
  /\ manual \in BOOLEAN /\ clean \in BOOLEAN

BadgesTyped == RowsTyped /\ WireTyped /\ CallsTyped /\ EntryTyped /\ FlagsTyped

(* What has not been delivered is in a loop, or waits for a connection. *)
LoopsHaveAll ==
  /\ undelivered \subseteq unread
  /\ backlog # {} => conn = "served"
  /\ conn = "served" => undelivered \subseteq pushing \cup backlog

(* What is read, or will be reported read without being looked at again,   *)
(* has been shown or will be, or was let go.                               *)
ReadOnesAreShown ==
  \A m \in 1 .. sent :
    m \notin unread \/ selected \/ m \in ToRead \cup Seen =>
      m \in settled \cup pushing \cup backlog \cup Sure \cup Paged

(* What the entry says of its messages, whatever has overlapped *)
EntryIsSound ==
  /\ hidden # None => known /\ \A m \in counted : m <= hidden
  /\ counted # {} => lastId # 0
  /\ \A k \in Echoes : \A m \in unread : k < m

(* What it says while nothing has overlapped *)
NewOnesAreListed == clean /\ hidden # None => \A m \in unread : m <= hidden \/ m \in Sure

CountIsRight ==
  clean =>
    /\ known => unread \subseteq counted \cup Sure \cup ToRead \cup Paged
    /\ \A m \in counted : m \in unread \/ \E k \in Echoes : m <= k
    /\ \A m \in counted \cap unread : m <= lastAt
    /\ selected /\ page.at = "asked" =>
         counted \cap unread \cap (pushing \cup backlog \cup Sure) = {}
    /\ again = 0

BadgesInv ==
  /\ BadgesTyped /\ LoopsHaveAll /\ ReadOnesAreShown /\ EntryIsSound /\ NewOnesAreListed
  /\ CountIsRight

-----------------------------------------------------------------------------
(* Events, and what a step leaves alone                                    *)

(* What a sequence contains after one more is appended *)
LEMMA Appended ==
  ASSUME NEW T, NEW s \in Seq(T), NEW e \in T
  PROVE  /\ Append(s, e) \in Seq(T)
         /\ \A x : Contains(Append(s, e), x) <=> Contains(s, x) \/ x = e
<1>1. /\ Append(s, e) \in Seq(T) /\ Len(Append(s, e)) = Len(s) + 1 /\ Len(s) \in Nat
      /\ \A i \in 1 .. Len(s) : Append(s, e)[i] = s[i]
      /\ Append(s, e)[Len(s) + 1] = e
  BY AppendProperties
<1>2. ASSUME NEW x PROVE Contains(Append(s, e), x) <=> Contains(s, x) \/ x = e
  BY <1>1 DEF Contains
<1>3. QED BY <1>1, <1>2

(* What a sequence contains is its head and what its tail contains. *)
LEMMA Taken ==
  ASSUME NEW T, NEW s \in Seq(T), s # <<>>
  PROVE  /\ Tail(s) \in Seq(T) /\ Head(s) \in T
         /\ \A x : Contains(s, x) <=> Contains(Tail(s), x) \/ x = Head(s)
<1>1. /\ Tail(s) \in Seq(T) /\ Head(s) \in T /\ Head(s) = s[1]
      /\ Len(s) \in Nat /\ Len(s) >= 1 /\ Len(Tail(s)) = Len(s) - 1
      /\ \A i \in 1 .. Len(Tail(s)) : Tail(s)[i] = s[i + 1]
  BY HeadTailProperties, EmptySeq
<1>2. ASSUME NEW x, Contains(s, x) PROVE Contains(Tail(s), x) \/ x = Head(s)
  <2>1. PICK i \in 1 .. Len(s) : s[i] = x
    BY <1>2 DEF Contains
  <2>2. CASE i = 1
    BY <1>1, <2>1, <2>2
  <2>3. CASE i # 1
    <3>1. i - 1 \in 1 .. Len(Tail(s)) /\ (i - 1) + 1 = i
      BY <1>1, <2>3
    <3>2. Tail(s)[i - 1] = x
      BY <1>1, <2>1, <3>1
    <3>3. QED BY <3>1, <3>2 DEF Contains
  <2>4. QED BY <2>2, <2>3
<1>3. ASSUME NEW x, Contains(Tail(s), x) PROVE Contains(s, x)
  <2>1. PICK i \in 1 .. Len(Tail(s)) : Tail(s)[i] = x
    BY <1>3 DEF Contains
  <2>2. i + 1 \in 1 .. Len(s) /\ s[i + 1] = x
    BY <1>1, <2>1
  <2>3. QED BY <2>2 DEF Contains
<1>4. ASSUME NEW x, x = Head(s) PROVE Contains(s, x)
  BY <1>1, <1>4 DEF Contains
<1>5. QED BY <1>1, <1>2, <1>3, <1>4

(* An event that is emitted is under way, and those before it are. *)
LEMMA Emits ==
  ASSUME WireTyped, NEW e \in EventShape, events' = Append(events, e)
  PROVE  /\ events' \in Seq(EventShape)
         /\ News' = News \cup {m \in Message : e = <<"new", m>>}
         /\ Echoes' = Echoes \cup {k \in Message : e = <<"read", k>>}
<1>1. /\ events' \in Seq(EventShape)
      /\ \A x : Contains(events', x) <=> Contains(events, x) \/ x = e
  BY Appended DEF WireTyped
<1>2. QED BY <1>1 DEF News, Echoes, Message

(* The event that is taken was under way; the others still are. *)
LEMMA Takes ==
  ASSUME WireTyped, NEW e, Take(e)
  PROVE  /\ events' \in Seq(EventShape) /\ e \in EventShape
         /\ News = News' \cup {m \in Message : e = <<"new", m>>}
         /\ Echoes = Echoes' \cup {k \in Message : e = <<"read", k>>}
<1>1. /\ events' \in Seq(EventShape) /\ e \in EventShape
      /\ \A x : Contains(events, x) <=> Contains(events', x) \/ x = e
  BY Taken DEF WireTyped, Take
<1>2. QED BY <1>1 DEF News, Echoes, Message

(* What is where stays there while its variable does. *)
LEMMA Alone ==
  /\ UNCHANGED events => News' = News /\ Echoes' = Echoes
  /\ UNCHANGED handling => Hands' = Hands /\ Seen' = Seen
  /\ UNCHANGED reads => ToRead' = ToRead
  /\ UNCHANGED <<sent, page>> => Paged' = Paged
BY DEF News, Echoes, Hands, Seen, ToRead, Paged, Message

(* One more load of the list, its answer, and one less *)
LEMMA Loads ==
  ASSUME RowsTyped, ListsTyped, LoadList, UNCHANGED sent
  PROVE  ListsTyped'
<1>1. Asked \in ListShape
  BY DEF Asked, ListShape
<1>2. /\ lists \in Seq(ListShape) /\ lists' = Append(lists, Asked)
  BY DEF ListsTyped, LoadList
<1>3. /\ lists' \in Seq(ListShape) /\ Len(lists) \in Nat /\ Len(lists') = Len(lists) + 1
      /\ \A i \in 1 .. Len(lists) : lists'[i] = lists[i]
      /\ lists'[Len(lists) + 1] = Asked
  BY <1>1, <1>2, AppendProperties
<1>4. DOMAIN lists' = 1 .. Len(lists) + 1 /\ DOMAIN lists = 1 .. Len(lists)
  BY <1>2, <1>3
<1>5. \A i \in DOMAIN lists' : lists'[i] = Asked \/ (i \in DOMAIN lists /\ lists'[i] = lists[i])
  BY <1>3, <1>4
<1>6. Asked.last \in 0 .. sent /\ Asked.unread \subseteq 1 .. Asked.last
  BY BoundAssumption DEF Asked, RowsTyped
<1>7. QED BY <1>3, <1>5, <1>6 DEF ListsTyped

(* A list is what it was read, whatever comes after. *)
LEMMA Answers ==
  ASSUME RowsTyped, ListsTyped, NEW i \in DOMAIN lists, ListConversations(i)
  PROVE  ListsTyped'
<1> DEFINE answer == [at |-> "answered", last |-> sent, unread |-> unread]
<1>1. sent' = sent /\ lists' = [lists EXCEPT ![i] = answer] /\ lists \in Seq(ListShape)
  BY DEF ListConversations, ListsTyped, rows
<1>2. answer \in ListShape /\ answer.last \in 0 .. sent /\ answer.unread \subseteq 1 .. answer.last
  BY BoundAssumption DEF ListShape, RowsTyped
<1> HIDE DEF answer
<1>3. lists' \in Seq(ListShape) /\ DOMAIN lists' = DOMAIN lists
  BY <1>1, <1>2
<1>4. \A j \in DOMAIN lists' : lists'[j] = answer \/ (j \in DOMAIN lists /\ lists'[j] = lists[j])
  BY <1>1
<1>5. QED BY <1>1, <1>2, <1>3, <1>4 DEF ListsTyped

(* What is left when one load is done *)
LEMMA Removed ==
  ASSUME NEW T, NEW s \in Seq(T), NEW i \in DOMAIN s
  PROVE  /\ RemoveAt(s, i) \in Seq(T)
         /\ \A j \in DOMAIN RemoveAt(s, i) : \E k \in DOMAIN s : RemoveAt(s, i)[j] = s[k]
         /\ \A k \in DOMAIN s : k # i => \E j \in DOMAIN RemoveAt(s, i) : RemoveAt(s, i)[j] = s[k]
<1> DEFINE p == SubSeq(s, 1, i - 1)
           q == SubSeq(s, i + 1, Len(s))
<1>1. i \in 1 .. Len(s) /\ Len(s) \in Nat /\ \A k \in 1 .. Len(s) : s[k] \in T
  OBVIOUS
<1>2. p \in Seq(T) /\ Len(p) = i - 1 /\ \A k \in 1 .. i - 1 : p[k] = s[k]
  <2>1. \A k \in 1 .. i - 1 : s[k] \in T
    BY <1>1
  <2>2. QED BY <1>1, <2>1, SubSeqProperties
<1>3. q \in Seq(T) /\ Len(q) = Len(s) - i /\ \A k \in 1 .. Len(s) - i : q[k] = s[i + k]
  <2>1. \A k \in i + 1 .. Len(s) : s[k] \in T
    BY <1>1
  <2>2. /\ q \in Seq(T) /\ Len(q) = IF i + 1 <= Len(s) THEN Len(s) - (i + 1) + 1 ELSE 0
        /\ \A k \in 1 .. Len(s) - (i + 1) + 1 : q[k] = s[(i + 1) + k - 1]
    BY <1>1, <2>1, SubSeqProperties
  <2>3. QED BY <1>1, <2>2
<1> HIDE DEF p, q
<1>4. RemoveAt(s, i) = p \o q
  BY DEF RemoveAt, p, q
<1>5. /\ p \o q \in Seq(T) /\ Len(p \o q) = Len(p) + Len(q)
      /\ \A k \in 1 .. Len(p) + Len(q) : (p \o q)[k] = IF k <= Len(p) THEN p[k] ELSE q[k - Len(p)]
  BY <1>2, <1>3, ConcatProperties
<1>6. ASSUME NEW k \in 1 .. Len(s) - 1 PROVE (p \o q)[k] = IF k < i THEN s[k] ELSE s[k + 1]
  <2>1. k \in 1 .. Len(p) + Len(q) /\ Len(p) = i - 1 /\ Len(q) = Len(s) - i
    BY <1>1, <1>2, <1>3
  <2>2. CASE k < i
    <3>1. k <= Len(p) /\ k \in 1 .. i - 1
      BY <1>1, <2>1, <2>2
    <3>2. (p \o q)[k] = p[k]
      BY <1>5, <2>1, <3>1
    <3>3. QED BY <1>2, <2>2, <3>1, <3>2
  <2>3. CASE ~(k < i)
    <3>0. k - (i - 1) \in 1 .. Len(s) - i /\ ~(k <= i - 1) /\ i + (k - (i - 1)) = k + 1
      BY <1>1, <2>3
    <3>1. ~(k <= Len(p)) /\ k - Len(p) \in 1 .. Len(s) - i /\ i + (k - Len(p)) = k + 1
      BY <2>1, <3>0
    <3>2. (p \o q)[k] = q[k - Len(p)]
      BY <1>5, <2>1, <3>1
    <3>3. QED BY <1>3, <2>3, <3>1, <3>2
  <2>4. QED BY <2>2, <2>3
<1>7. DOMAIN (p \o q) = 1 .. Len(s) - 1
  <2>1. Len(p) + Len(q) = Len(s) - 1
    BY <1>1, <1>2, <1>3
  <2>2. DOMAIN (p \o q) = 1 .. Len(p \o q)
    BY <1>5
  <2>3. QED BY <1>5, <2>1, <2>2
<1>8. ASSUME NEW k \in DOMAIN s, k # i PROVE \E j \in DOMAIN (p \o q) : (p \o q)[j] = s[k]
  <2>1. CASE k < i
    <3>1. k \in 1 .. Len(s) - 1
      BY <1>1, <1>8, <2>1
    <3>2. (p \o q)[k] = IF k < i THEN s[k] ELSE s[k + 1]
      BY <1>6, <3>1
    <3>3. k \in DOMAIN (p \o q) /\ (p \o q)[k] = s[k]
      BY <1>7, <2>1, <3>1, <3>2
    <3>4. QED BY <3>3
  <2>2. CASE k > i
    <3>1. k - 1 \in 1 .. Len(s) - 1 /\ ~(k - 1 < i) /\ (k - 1) + 1 = k
      BY <1>1, <1>8, <2>2
    <3>2. (p \o q)[k - 1] = IF k - 1 < i THEN s[k - 1] ELSE s[(k - 1) + 1]
      BY <1>6, <3>1
    <3>3. k - 1 \in DOMAIN (p \o q) /\ (p \o q)[k - 1] = s[k]
      BY <1>7, <3>1, <3>2
    <3>4. QED BY <3>3
  <2>3. QED BY <1>1, <1>8, <2>1, <2>2
<1>9. ASSUME NEW j \in DOMAIN (p \o q) PROVE \E k \in DOMAIN s : (p \o q)[j] = s[k]
  <2>1. /\ j \in DOMAIN s /\ j + 1 \in DOMAIN s
        /\ (p \o q)[j] = s[j] \/ (p \o q)[j] = s[j + 1]
    <3>1. j \in 1 .. Len(s) - 1 /\ j \in DOMAIN s /\ j + 1 \in DOMAIN s
      BY <1>1, <1>7
    <3>2. QED BY <1>6, <3>1
  <2>2. QED BY <2>1
<1>10. QED BY <1>4, <1>5, <1>8, <1>9

(* A list that has been used leaves the others alone. *)
LEMMA FewerLoads ==
  ASSUME ListsTyped, NEW i \in DOMAIN lists, lists' = RemoveAt(lists, i), UNCHANGED sent
  PROVE  ListsTyped'
<1>1. /\ lists' \in Seq(ListShape)
      /\ \A j \in DOMAIN lists' : \E k \in DOMAIN lists : lists'[j] = lists[k]
  BY Removed DEF ListsTyped
<1>2. QED BY <1>1 DEF ListsTyped

(* The model and the proof mean the same by a message that arrives. *)
LEMMA ArrivingIsSure == \A m \in Message : Arriving(m) <=> m \in Sure
BY DEF Arriving, Sure, News, Hands

(* When none is forgotten every unread message is still to arrive. *)
LEMMA ForgottenIsSure ==
  ASSUME RowsTyped, NoneForgotten
  PROVE  unread \subseteq Sure
<1>1. unread \subseteq Message
  BY BoundAssumption DEF RowsTyped, Message
<1>2. QED BY <1>1, ArrivingIsSure DEF NoneForgotten

(* The loops push the first that they have left, which there is. *)
LEMMA MinIsFirst ==
  ASSUME NEW S \in SUBSET Nat, S # {}
  PROVE  Min(S) \in S /\ \A x \in S : Min(S) <= x
<1> DEFINE Less == {p \in Nat \X Nat : p[1] < p[2]}
<1>1. IsWellFoundedOn(Less, Nat)
  BY NatLessThanWellFounded DEF OpToRel
<1>2. PICK x \in S : \A y \in S : <<y, x>> \notin Less
  <2> HIDE DEF Less
  <2>1. QED BY <1>1, WFMin
<1>3. ASSUME NEW y \in S PROVE x <= y
  <2>1. x \in Nat /\ y \in Nat
    OBVIOUS
  <2>2. y < x => <<y, x>> \in Less
    BY <2>1
  <2>3. QED BY <1>2, <2>1, <2>2
<1>4. QED BY <1>3 DEF Min

(* A push, over the socket of the client or over one that has gone *)
Pushed(m) ==
  /\ events' \in Seq(EventShape) /\ Echoes' = Echoes /\ undelivered' = undelivered \ {m}
  /\ \/ News' = News \cup {m} /\ UNCHANGED <<settled, clean>>
     \/ /\ News' = News /\ settled' = settled \cup {m}
        /\ clean' = (clean /\ (m \in counted \/ m \notin unread))

Unpushed(m) ==
  /\ conn \in {"down", "open"} /\ UNCHANGED <<events, News, Echoes, undelivered, clean>>
  /\ settled' = IF m \in undelivered THEN settled ELSE settled \cup {m}

(* A push is an event on its way, or lost with a socket that has gone. *)
LEMMA Pushes ==
  ASSUME WireTyped, NEW m \in Message, Push(m)
  PROVE  Pushed(m)
<1>1. CASE conn \in {"registered", "served"}
  <2>1. events' = Append(events, <<"new", m>>) /\ UNCHANGED <<settled, clean>>
    BY <1>1 DEF Push
  <2>2. <<"new", m>> \in EventShape
    BY DEF EventShape, Message
  <2>3. events' \in Seq(EventShape) /\ News' = News \cup {m} /\ Echoes' = Echoes
    BY <2>1, <2>2, Emits
  <2>4. QED BY <2>1, <2>3 DEF Push, Pushed
<1>2. CASE conn \notin {"registered", "served"}
  <2>1. UNCHANGED events
    BY <1>2 DEF Push
  <2>2. QED BY <1>2, <2>1, Alone DEF Push, Pushed, WireTyped
<1>3. QED BY <1>1, <1>2

(* A new message is unread, undelivered, and in the loop of its sender. *)
LEMMA PeerSendsKeeps ==
  ASSUME BadgesInv, PeerSends
  PROVE  BadgesInv'
<1> USE DEF rows, loops, link, net, calls, badge, entry, marks, ui, history, BadgesTyped, Message
<1>1. /\ News' = News /\ Echoes' = Echoes /\ Hands' = Hands /\ Seen' = Seen /\ ToRead' = ToRead
      /\ Paged \subseteq Paged'
  <2>1. News' = News /\ Echoes' = Echoes /\ Hands' = Hands /\ Seen' = Seen /\ ToRead' = ToRead
    BY Alone DEF PeerSends
  <2>2. Paged \subseteq Paged'
    BY DEF PeerSends, Paged, BadgesInv, RowsTyped
  <2>3. QED BY <2>1, <2>2
<1>2. BadgesTyped'
  <2>1. RowsTyped'
    BY <1>1, BoundAssumption DEF BadgesInv, RowsTyped, PeerSends
  <2>2. WireTyped'
    BY <1>1, BoundAssumption DEF BadgesInv, RowsTyped, WireTyped, PeerSends
  <2>3. CallsTyped'
    <3>1. sent \in Nat /\ sent' = sent + 1 /\ UNCHANGED <<handling, lists, page, opening>>
      BY DEF PeerSends, BadgesInv, RowsTyped
    <3>2. CallsTyped
      BY DEF BadgesInv
    <3>3. QED BY <3>1, <3>2 DEF CallsTyped, ListsTyped
  <2>4. EntryTyped'
    BY <1>1, BoundAssumption DEF BadgesInv, RowsTyped, EntryTyped, PeerSends
  <2>5. FlagsTyped'
    BY <1>1, BoundAssumption DEF BadgesInv, RowsTyped, FlagsTyped, PeerSends
  <2>6. QED BY <2>1, <2>2, <2>3, <2>4, <2>5 DEF BadgesTyped
<1>3. LoopsHaveAll'
  BY <1>1 DEF BadgesInv, LoopsHaveAll, PeerSends
<1>4. ReadOnesAreShown'
  BY <1>1 DEF BadgesInv, ReadOnesAreShown, RowsTyped, EntryTyped, Sure, PeerSends
<1>5. EntryIsSound'
  BY <1>1 DEF BadgesInv, EntryIsSound, RowsTyped, WireTyped, PeerSends
<1>6. NewOnesAreListed'
  BY <1>1 DEF BadgesInv, NewOnesAreListed, Sure, PeerSends
<1>7. CountIsRight'
  BY <1>1 DEF BadgesInv, CountIsRight, RowsTyped, EntryTyped, Sure, PeerSends
<1>8. QED BY <1>2, <1>3, <1>4, <1>5, <1>6, <1>7 DEF BadgesInv

(* Registering moves nothing between the loops. *)
LEMMA RegisterKeeps ==
  ASSUME BadgesInv, Register
  PROVE  BadgesInv'
<1> USE DEF rows, loops, link, net, calls, badge, entry, marks, ui, history, BadgesTyped, Message
<1>1. /\ News' = News /\ Echoes' = Echoes /\ Hands' = Hands /\ Seen' = Seen /\ ToRead' = ToRead
      /\ Paged' = Paged
  BY Alone DEF BadgesInv, Register
<1>2. BadgesTyped'
  <2>1. RowsTyped'
    BY <1>1, BoundAssumption DEF BadgesInv, RowsTyped, Register
  <2>2. WireTyped'
    BY <1>1, BoundAssumption DEF BadgesInv, RowsTyped, WireTyped, Register
  <2>3. CallsTyped'
    BY <1>1, BoundAssumption DEF BadgesInv, RowsTyped, CallsTyped, ListsTyped, Register
  <2>4. EntryTyped'
    BY <1>1, BoundAssumption DEF BadgesInv, RowsTyped, EntryTyped, Register
  <2>5. FlagsTyped'
    BY <1>1, BoundAssumption DEF BadgesInv, RowsTyped, FlagsTyped, Register
  <2>6. QED BY <2>1, <2>2, <2>3, <2>4, <2>5 DEF BadgesTyped
<1>3. LoopsHaveAll'
  BY <1>1 DEF BadgesInv, LoopsHaveAll, Register
<1>4. ReadOnesAreShown'
  BY <1>1 DEF BadgesInv, ReadOnesAreShown, Sure, Register
<1>5. EntryIsSound'
  BY <1>1 DEF BadgesInv, EntryIsSound, Register
<1>6. NewOnesAreListed'
  BY <1>1 DEF BadgesInv, NewOnesAreListed, Sure, Register
<1>7. CountIsRight'
  BY <1>1 DEF BadgesInv, CountIsRight, Sure, Register
<1>8. QED BY <1>2, <1>3, <1>4, <1>5, <1>6, <1>7 DEF BadgesInv

(* A socket that the server lets go leaves messages and entry alone. *)
LEMMA UnregisterKeeps ==
  ASSUME BadgesInv, Unregister
  PROVE  BadgesInv'
<1> USE DEF rows, loops, link, net, calls, badge, entry, marks, ui, history, BadgesTyped, Message
<1>1. /\ News' = News /\ Echoes' = Echoes /\ Hands' = Hands /\ Seen' = Seen /\ ToRead' = ToRead
      /\ Paged' = Paged
  BY Alone DEF BadgesInv, Unregister
<1>2. BadgesTyped'
  <2>1. RowsTyped'
    BY <1>1, BoundAssumption DEF BadgesInv, RowsTyped, Unregister
  <2>2. WireTyped'
    BY <1>1, BoundAssumption DEF BadgesInv, RowsTyped, WireTyped, Unregister
  <2>3. CallsTyped'
    BY <1>1, BoundAssumption DEF BadgesInv, RowsTyped, CallsTyped, ListsTyped, Unregister
  <2>4. EntryTyped'
    BY <1>1, BoundAssumption DEF BadgesInv, RowsTyped, EntryTyped, Unregister
  <2>5. FlagsTyped'
    BY <1>1, BoundAssumption DEF BadgesInv, RowsTyped, FlagsTyped, Unregister
  <2>6. QED BY <2>1, <2>2, <2>3, <2>4, <2>5 DEF BadgesTyped
<1>3. LoopsHaveAll'
  BY <1>1 DEF BadgesInv, LoopsHaveAll, Unregister
<1>4. ReadOnesAreShown'
  BY <1>1 DEF BadgesInv, ReadOnesAreShown, Sure, Unregister
<1>5. EntryIsSound'
  BY <1>1 DEF BadgesInv, EntryIsSound, Unregister
<1>6. NewOnesAreListed'
  BY <1>1 DEF BadgesInv, NewOnesAreListed, Sure, Unregister
<1>7. CountIsRight'
  BY <1>1 DEF BadgesInv, CountIsRight, Sure, Unregister
<1>8. QED BY <1>2, <1>3, <1>4, <1>5, <1>6, <1>7 DEF BadgesInv

(* The backlog is all that is undelivered, when it is read. *)
LEMMA ListUndeliveredKeeps ==
  ASSUME BadgesInv, ListUndelivered
  PROVE  BadgesInv'
<1> USE DEF rows, loops, link, net, calls, badge, entry, marks, ui, history, BadgesTyped, Message
<1>1. /\ News' = News /\ Echoes' = Echoes /\ Hands' = Hands /\ Seen' = Seen /\ ToRead' = ToRead
      /\ Paged' = Paged
  BY Alone DEF BadgesInv, ListUndelivered
<1>2. BadgesTyped'
  <2>1. RowsTyped'
    BY <1>1, BoundAssumption DEF BadgesInv, RowsTyped, ListUndelivered
  <2>2. WireTyped'
    BY <1>1, BoundAssumption DEF BadgesInv, RowsTyped, WireTyped, ListUndelivered
  <2>3. CallsTyped'
    BY <1>1, BoundAssumption DEF BadgesInv, RowsTyped, CallsTyped, ListsTyped, ListUndelivered
  <2>4. EntryTyped'
    BY <1>1, BoundAssumption DEF BadgesInv, RowsTyped, EntryTyped, ListUndelivered
  <2>5. FlagsTyped'
    BY <1>1, BoundAssumption DEF BadgesInv, RowsTyped, FlagsTyped, ListUndelivered
  <2>6. QED BY <2>1, <2>2, <2>3, <2>4, <2>5 DEF BadgesTyped
<1>3. LoopsHaveAll'
  BY <1>1 DEF BadgesInv, LoopsHaveAll, ListUndelivered
<1>4. ReadOnesAreShown'
  BY <1>1 DEF BadgesInv, LoopsHaveAll, ReadOnesAreShown, Sure, ListUndelivered
<1>5. EntryIsSound'
  BY <1>1 DEF BadgesInv, EntryIsSound, ListUndelivered
<1>6. NewOnesAreListed'
  BY <1>1 DEF BadgesInv, NewOnesAreListed, Sure, ListUndelivered
<1>7. CountIsRight'
  BY <1>1 DEF BadgesInv, CountIsRight, Sure, ListUndelivered
<1>8. QED BY <1>2, <1>3, <1>4, <1>5, <1>6, <1>7 DEF BadgesInv

(* What is no longer open may be counted again. *)
LEMMA CloseKeeps ==
  ASSUME BadgesInv, Close
  PROVE  BadgesInv'
<1> USE DEF rows, loops, link, net, calls, badge, entry, marks, ui, history, BadgesTyped, Message
<1>1. /\ News' = News /\ Echoes' = Echoes /\ Hands' = Hands /\ Seen' = Seen /\ ToRead' = ToRead
      /\ Paged' = Paged
  BY Alone DEF BadgesInv, Close, Listed, Act
<1>2. BadgesTyped'
  <2>1. RowsTyped'
    BY <1>1, BoundAssumption DEF BadgesInv, RowsTyped, Close, Listed, Act
  <2>2. WireTyped'
    BY <1>1, BoundAssumption DEF BadgesInv, RowsTyped, WireTyped, Close, Listed, Act
  <2>3. CallsTyped'
    BY <1>1, BoundAssumption DEF BadgesInv, RowsTyped, CallsTyped, ListsTyped, Close, Listed,
       Act
  <2>4. EntryTyped'
    BY <1>1, BoundAssumption DEF BadgesInv, RowsTyped, EntryTyped, Close, Listed, Act
  <2>5. FlagsTyped'
    BY <1>1, BoundAssumption DEF BadgesInv, RowsTyped, FlagsTyped, Close, Listed, Act
  <2>6. QED BY <2>1, <2>2, <2>3, <2>4, <2>5 DEF BadgesTyped
<1>3. LoopsHaveAll'
  BY <1>1 DEF BadgesInv, LoopsHaveAll, Close, Listed, Act
<1>4. ReadOnesAreShown'
  BY <1>1 DEF BadgesInv, ReadOnesAreShown, Sure, Close, Listed, Act
<1>5. EntryIsSound'
  BY <1>1 DEF BadgesInv, EntryIsSound, Close, Listed, Act
<1>6. NewOnesAreListed'
  BY <1>1 DEF BadgesInv, NewOnesAreListed, Sure, Close, Listed, Act
<1>7. CountIsRight'
  BY <1>1 DEF BadgesInv, CountIsRight, Sure, Close, Listed, Act
<1>8. QED BY <1>2, <1>3, <1>4, <1>5, <1>6, <1>7 DEF BadgesInv

(* All there is at the click is not newer than the click. *)
LEMMA HideConversationKeeps ==
  ASSUME BadgesInv, HideConversation
  PROVE  BadgesInv'
<1> USE DEF rows, loops, link, net, calls, badge, entry, marks, ui, history, BadgesTyped, Message
<1>1. /\ News' = News /\ Echoes' = Echoes /\ Hands' = Hands /\ Seen' = Seen /\ ToRead' = ToRead
      /\ Paged' = Paged
  BY Alone DEF BadgesInv, HideConversation, Listed, Act
<1>2. BadgesTyped'
  <2>1. RowsTyped'
    BY <1>1, BoundAssumption DEF BadgesInv, RowsTyped, HideConversation, Listed, Act
  <2>2. WireTyped'
    BY <1>1, BoundAssumption DEF BadgesInv, RowsTyped, WireTyped, HideConversation, Listed, Act
  <2>3. CallsTyped'
    BY <1>1, BoundAssumption DEF BadgesInv, RowsTyped, CallsTyped, ListsTyped, HideConversation,
       Listed, Act
  <2>4. EntryTyped'
    BY <1>1, BoundAssumption DEF BadgesInv, RowsTyped, EntryTyped, HideConversation, Listed, Act
  <2>5. FlagsTyped'
    BY <1>1, BoundAssumption DEF BadgesInv, RowsTyped, FlagsTyped, HideConversation, Listed, Act
  <2>6. QED BY <2>1, <2>2, <2>3, <2>4, <2>5 DEF BadgesTyped
<1>3. LoopsHaveAll'
  BY <1>1 DEF BadgesInv, LoopsHaveAll, HideConversation, Listed, Act
<1>4. ReadOnesAreShown'
  BY <1>1 DEF BadgesInv, ReadOnesAreShown, Sure, HideConversation, Listed, Act
<1>5. EntryIsSound'
  BY <1>1 DEF BadgesInv, EntryIsSound, RowsTyped, EntryTyped, HideConversation, Listed, Act
<1>6. NewOnesAreListed'
  BY <1>1 DEF BadgesInv, NewOnesAreListed, RowsTyped, Sure, HideConversation, Listed, Act
<1>7. CountIsRight'
  BY <1>1 DEF BadgesInv, CountIsRight, Sure, HideConversation, Listed, Act
<1>8. QED BY <1>2, <1>3, <1>4, <1>5, <1>6, <1>7 DEF BadgesInv

(* A mark of the user touches no count. *)
LEMMA MarkConversationUnreadKeeps ==
  ASSUME BadgesInv, MarkConversationUnread
  PROVE  BadgesInv'
<1> USE DEF rows, loops, link, net, calls, badge, entry, marks, ui, history, BadgesTyped, Message
<1>1. /\ News' = News /\ Echoes' = Echoes /\ Hands' = Hands /\ Seen' = Seen /\ ToRead' = ToRead
      /\ Paged' = Paged
  BY Alone DEF BadgesInv, MarkConversationUnread, Listed, Act
<1>2. BadgesTyped'
  <2>1. RowsTyped'
    BY <1>1, BoundAssumption DEF BadgesInv, RowsTyped, MarkConversationUnread, Listed, Act
  <2>2. WireTyped'
    BY <1>1, BoundAssumption DEF BadgesInv, RowsTyped, WireTyped, MarkConversationUnread,
       Listed, Act
  <2>3. CallsTyped'
    BY <1>1, BoundAssumption DEF BadgesInv, RowsTyped, CallsTyped, ListsTyped,
       MarkConversationUnread, Listed, Act
  <2>4. EntryTyped'
    BY <1>1, BoundAssumption DEF BadgesInv, RowsTyped, EntryTyped, MarkConversationUnread,
       Listed, Act
  <2>5. FlagsTyped'
    BY <1>1, BoundAssumption DEF BadgesInv, RowsTyped, FlagsTyped, MarkConversationUnread,
       Listed, Act
  <2>6. QED BY <2>1, <2>2, <2>3, <2>4, <2>5 DEF BadgesTyped
<1>3. LoopsHaveAll'
  BY <1>1 DEF BadgesInv, LoopsHaveAll, MarkConversationUnread, Listed, Act
<1>4. ReadOnesAreShown'
  BY <1>1 DEF BadgesInv, ReadOnesAreShown, Sure, MarkConversationUnread, Listed, Act
<1>5. EntryIsSound'
  BY <1>1 DEF BadgesInv, EntryIsSound, MarkConversationUnread, Listed, Act
<1>6. NewOnesAreListed'
  BY <1>1 DEF BadgesInv, NewOnesAreListed, Sure, MarkConversationUnread, Listed, Act
<1>7. CountIsRight'
  BY <1>1 DEF BadgesInv, CountIsRight, Sure, MarkConversationUnread, Listed, Act
<1>8. QED BY <1>2, <1>3, <1>4, <1>5, <1>6, <1>7 DEF BadgesInv

(* What is lost with a connection was delivered, so it is let go; what was *)
(* not is still undelivered.                                               *)
LEMMA DropKeeps ==
  ASSUME BadgesInv, NEW k \in Time, Drop(k)
  PROVE  BadgesInv'
<1> USE DEF rows, loops, link, net, calls, badge, entry, marks, ui, history, BadgesTyped, Message
<1>1. /\ settled' \subseteq settled \cup News \cup backlog /\ undelivered' \subseteq undelivered
      /\ Echoes' = {} /\ News' = {} /\ ToRead' = {}
      /\ Hands' = Hands /\ Seen' = Seen /\ Paged' = Paged
      /\ News = {m \in Message : Contains(events, <<"new", m>>)}
      /\ (events = <<>> => Echoes = {}) /\ (reads = {} => ToRead = {})
  <2>0. settled' \subseteq settled \cup News \cup backlog /\ undelivered' \subseteq undelivered
    BY DEF Drop, News
  <2>1. Hands' = Hands /\ Seen' = Seen /\ Paged' = Paged
    BY Alone DEF Drop
  <2>2. events' = <<>> /\ reads' = {}
    BY DEF Drop
  <2>3. \A x : ~Contains(events', x)
    BY <2>2 DEF Contains
  <2>4. events = <<>> => \A x : ~Contains(events, x)
    BY DEF Contains
  <2>5. QED BY <2>0, <2>1, <2>2, <2>3, <2>4 DEF News, Echoes, ToRead
<1>2. BadgesTyped'
  <2>1. RowsTyped'
    <3>1. UNCHANGED <<sent, unread, pushing>> /\ backlog' = {}
      BY DEF Drop
    <3>2. RowsTyped /\ News \subseteq Message
      BY DEF BadgesInv, News
    <3>3. backlog \subseteq Message /\ settled \subseteq Message
      BY <3>2, BoundAssumption DEF RowsTyped
    <3>4. settled' \subseteq Message /\ undelivered' \subseteq undelivered
      BY <1>1, <3>2, <3>3
    <3>5. QED BY <3>1, <3>2, <3>4 DEF RowsTyped
  <2>2. WireTyped'
    BY <1>1, BoundAssumption DEF BadgesInv, RowsTyped, WireTyped, Drop, Act, Time
  <2>3. CallsTyped'
    BY <1>1, BoundAssumption DEF BadgesInv, RowsTyped, CallsTyped, ListsTyped, Drop, Act, Time
  <2>4. EntryTyped'
    BY <1>1, BoundAssumption DEF BadgesInv, RowsTyped, EntryTyped, Drop, Act, Time
  <2>5. FlagsTyped'
    BY <1>1, BoundAssumption DEF BadgesInv, RowsTyped, FlagsTyped, Drop, Act, Time
  <2>6. QED BY <2>1, <2>2, <2>3, <2>4, <2>5 DEF BadgesTyped
<1>3. LoopsHaveAll'
  BY <1>1 DEF BadgesInv, LoopsHaveAll, Drop, Act, Time
<1>4. ReadOnesAreShown'
  BY <1>1 DEF BadgesInv, ReadOnesAreShown, Sure, Drop, Act, Time
<1>5. EntryIsSound'
  BY <1>1 DEF BadgesInv, EntryIsSound, Drop, Act, Time
<1>6. NewOnesAreListed'
  BY <1>1 DEF BadgesInv, NewOnesAreListed, Sure, Drop, Act, Time
<1>7. CountIsRight'
  BY <1>1 DEF BadgesInv, CountIsRight, Sure, Drop, Act, Time
<1>8. QED BY <1>2, <1>3, <1>4, <1>5, <1>6, <1>7 DEF BadgesInv

(* News of the group is neither a message nor an echo. *)
LEMMA GroupNewsKeeps ==
  ASSUME BadgesInv, GroupNews
  PROVE  BadgesInv'
<1> USE DEF rows, loops, link, net, calls, badge, entry, marks, ui, history, BadgesTyped, Message
<1>1. /\ events' \in Seq(EventShape) /\ News' = News /\ Echoes' = Echoes
      /\ Hands' = Hands /\ Seen' = Seen /\ ToRead' = ToRead /\ Paged' = Paged
  <2>1. Hands' = Hands /\ Seen' = Seen /\ ToRead' = ToRead /\ Paged' = Paged
    BY Alone DEF GroupNews
  <2>2. <<"group", 0>> \in EventShape
    BY DEF EventShape
  <2>3. events' \in Seq(EventShape) /\ News' = News /\ Echoes' = Echoes
    BY <2>2, Emits DEF GroupNews, BadgesInv
  <2>4. QED BY <2>1, <2>3
<1>2. BadgesTyped'
  <2>1. RowsTyped'
    BY <1>1, BoundAssumption DEF BadgesInv, RowsTyped, GroupNews, Act
  <2>2. WireTyped'
    BY <1>1, BoundAssumption DEF BadgesInv, RowsTyped, WireTyped, GroupNews, Act
  <2>3. CallsTyped'
    BY <1>1, BoundAssumption DEF BadgesInv, RowsTyped, CallsTyped, ListsTyped, GroupNews, Act
  <2>4. EntryTyped'
    BY <1>1, BoundAssumption DEF BadgesInv, RowsTyped, EntryTyped, GroupNews, Act
  <2>5. FlagsTyped'
    BY <1>1, BoundAssumption DEF BadgesInv, RowsTyped, FlagsTyped, GroupNews, Act
  <2>6. QED BY <2>1, <2>2, <2>3, <2>4, <2>5 DEF BadgesTyped
<1>3. LoopsHaveAll'
  BY <1>1 DEF BadgesInv, LoopsHaveAll, GroupNews, Act
<1>4. ReadOnesAreShown'
  BY <1>1 DEF BadgesInv, ReadOnesAreShown, Sure, GroupNews, Act
<1>5. EntryIsSound'
  BY <1>1 DEF BadgesInv, EntryIsSound, GroupNews, Act
<1>6. NewOnesAreListed'
  BY <1>1 DEF BadgesInv, NewOnesAreListed, Sure, GroupNews, Act
<1>7. CountIsRight'
  BY <1>1 DEF BadgesInv, CountIsRight, Sure, GroupNews, Act
<1>8. QED BY <1>2, <1>3, <1>4, <1>5, <1>6, <1>7 DEF BadgesInv

(* The loop of the sender pushes, or leaves the message to the next        *)
(* connection.                                                             *)
LEMMA SendPushKeeps ==
  ASSUME BadgesInv, NEW m \in Message, SendPush(m)
  PROVE  BadgesInv'
<1> USE DEF rows, loops, link, net, calls, badge, entry, marks, ui, history, BadgesTyped, Message
<1>1. /\ Pushed(m) \/ Unpushed(m)
      /\ Hands' = Hands /\ Seen' = Seen /\ ToRead' = ToRead /\ Paged' = Paged
  <2>1. Hands' = Hands /\ Seen' = Seen /\ ToRead' = ToRead /\ Paged' = Paged
    BY Alone DEF SendPush
  <2>2. CASE conn \in {"registered", "served"} \/ stale
    BY <2>1, <2>2, Pushes DEF SendPush, BadgesInv
  <2>3. CASE ~(conn \in {"registered", "served"} \/ stale)
    BY <2>1, <2>3, Alone DEF SendPush, Unpushed, BadgesInv, WireTyped
  <2>4. QED BY <2>2, <2>3
<1>2. BadgesTyped'
  <2>1. RowsTyped'
    BY <1>1, BoundAssumption DEF BadgesInv, RowsTyped, SendPush, Pushed, Unpushed
  <2>2. WireTyped'
    BY <1>1, BoundAssumption DEF BadgesInv, RowsTyped, WireTyped, SendPush, Pushed, Unpushed
  <2>3. CallsTyped'
    BY <1>1, BoundAssumption DEF BadgesInv, RowsTyped, CallsTyped, ListsTyped, SendPush, Pushed,
       Unpushed
  <2>4. EntryTyped'
    BY <1>1, BoundAssumption DEF BadgesInv, RowsTyped, EntryTyped, SendPush, Pushed, Unpushed
  <2>5. FlagsTyped'
    BY <1>1, BoundAssumption DEF BadgesInv, RowsTyped, FlagsTyped, SendPush, Pushed, Unpushed
  <2>6. QED BY <2>1, <2>2, <2>3, <2>4, <2>5 DEF BadgesTyped
<1>3. LoopsHaveAll'
  BY <1>1 DEF BadgesInv, LoopsHaveAll, SendPush, Pushed, Unpushed
<1>4. ReadOnesAreShown'
  BY <1>1 DEF BadgesInv, ReadOnesAreShown, Sure, SendPush, Pushed, Unpushed
<1>5. EntryIsSound'
  BY <1>1 DEF BadgesInv, EntryIsSound, SendPush, Pushed, Unpushed
<1>6. NewOnesAreListed'
  BY <1>1 DEF BadgesInv, EntryIsSound, NewOnesAreListed, Sure, SendPush, Pushed, Unpushed
<1>7. CountIsRight'
  BY <1>1 DEF BadgesInv, CountIsRight, Sure, SendPush, Pushed, Unpushed
<1>8. QED BY <1>2, <1>3, <1>4, <1>5, <1>6, <1>7 DEF BadgesInv

(* The loop of the connection pushes what it has listed. *)
LEMMA BacklogPushKeeps ==
  ASSUME BadgesInv, BacklogPush
  PROVE  BadgesInv'
<1> USE DEF rows, loops, link, net, calls, badge, entry, marks, ui, history, BadgesTyped, Message
<1>1. /\ Pushed(Min(backlog)) /\ Min(backlog) \in backlog
      /\ Hands' = Hands /\ Seen' = Seen /\ ToRead' = ToRead /\ Paged' = Paged
  <2>1. Hands' = Hands /\ Seen' = Seen /\ ToRead' = ToRead /\ Paged' = Paged
    BY Alone DEF BacklogPush
  <2>2. Min(backlog) \in backlog
    BY MinIsFirst DEF BacklogPush, BadgesInv, RowsTyped
  <2>3. Min(backlog) \in Message
    BY <2>2, BoundAssumption DEF BadgesInv, RowsTyped
  <2>0. Push(Min(backlog))
    BY DEF BacklogPush
  <2>4. QED BY <2>1, <2>2, <2>3, <2>0, Pushes DEF BadgesInv
<1>2. BadgesTyped'
  <2>1. RowsTyped'
    <3>1. UNCHANGED <<sent, unread, pushing>> /\ backlog' \subseteq backlog
      BY DEF BacklogPush
    <3>2. RowsTyped
      BY DEF BadgesInv
    <3>3. undelivered' \subseteq undelivered /\ settled' \subseteq settled \cup backlog
      BY <1>1 DEF Pushed
    <3>4. backlog \subseteq Message
      BY <3>2, BoundAssumption DEF RowsTyped
    <3>5. QED BY <3>1, <3>2, <3>3, <3>4 DEF RowsTyped
  <2>2. WireTyped'
    BY <1>1, BoundAssumption DEF BadgesInv, RowsTyped, WireTyped, BacklogPush, Pushed
  <2>3. CallsTyped'
    BY <1>1, BoundAssumption DEF BadgesInv, RowsTyped, CallsTyped, ListsTyped, BacklogPush,
       Pushed
  <2>4. EntryTyped'
    BY <1>1, BoundAssumption DEF BadgesInv, RowsTyped, EntryTyped, BacklogPush, Pushed
  <2>5. FlagsTyped'
    BY <1>1, BoundAssumption DEF BadgesInv, RowsTyped, FlagsTyped, BacklogPush, Pushed
  <2>6. QED BY <2>1, <2>2, <2>3, <2>4, <2>5 DEF BadgesTyped
<1>3. LoopsHaveAll'
  BY <1>1 DEF BadgesInv, LoopsHaveAll, BacklogPush, Pushed
<1>4. ReadOnesAreShown'
  BY <1>1 DEF BadgesInv, ReadOnesAreShown, Sure, BacklogPush, Pushed
<1>5. EntryIsSound'
  BY <1>1 DEF BadgesInv, EntryIsSound, BacklogPush, Pushed
<1>6. NewOnesAreListed'
  BY <1>1 DEF BadgesInv, EntryIsSound, NewOnesAreListed, Sure, BacklogPush, Pushed
<1>7. CountIsRight'
  BY <1>1 DEF BadgesInv, CountIsRight, Sure, BacklogPush, Pushed
<1>8. QED BY <1>2, <1>3, <1>4, <1>5, <1>6, <1>7 DEF BadgesInv

(* What is marked as read was in ToRead, and its echo is on its way. *)
LEMMA MarkReadKeeps ==
  ASSUME BadgesInv, NEW k \in Message, MarkRead(k)
  PROVE  BadgesInv'
<1> USE DEF rows, loops, link, net, calls, badge, entry, marks, ui, history, BadgesTyped, Message
<1>1. /\ events' \in Seq(EventShape) /\ News' = News /\ ToRead' \subseteq ToRead
      /\ ToRead \subseteq ToRead' \cup 1 .. k /\ 1 .. k \cap 1 .. sent \subseteq ToRead
      /\ Echoes' = IF conn = "open" THEN Echoes ELSE Echoes \cup {k}
      /\ Hands' = Hands /\ Seen' = Seen /\ Paged' = Paged
  <2>1. Hands' = Hands /\ Seen' = Seen /\ Paged' = Paged
    BY Alone DEF MarkRead
  <2>2. ToRead' \subseteq ToRead /\ ToRead \subseteq ToRead' \cup 1 .. k
    BY DEF MarkRead, ToRead
  <2>3. 1 .. k \cap 1 .. sent \subseteq ToRead
    BY BoundAssumption DEF MarkRead, ToRead, BadgesInv, RowsTyped
  <2>4. CASE conn = "open"
    BY <2>1, <2>2, <2>3, <2>4, Alone DEF MarkRead, BadgesInv, WireTyped
  <2>5. CASE conn # "open"
    <3>1. events' = Append(events, <<"read", k>>) /\ <<"read", k>> \in EventShape
      BY <2>5 DEF MarkRead, EventShape
    <3>2. events' \in Seq(EventShape) /\ News' = News /\ Echoes' = Echoes \cup {k}
      BY <3>1, Emits DEF BadgesInv
    <3>3. QED BY <2>1, <2>2, <2>3, <2>5, <3>2
  <2>6. QED BY <2>4, <2>5
<1>2. BadgesTyped'
  <2>1. RowsTyped'
    <3>1. /\ UNCHANGED <<sent, pushing, backlog>> /\ unread' \subseteq unread
          /\ undelivered' \subseteq undelivered /\ settled' \subseteq settled \cup undelivered
      BY DEF MarkRead
    <3>2. RowsTyped
      BY DEF BadgesInv
    <3>3. undelivered \subseteq Message
      BY <3>2, BoundAssumption DEF RowsTyped
    <3>4. QED BY <3>1, <3>2, <3>3 DEF RowsTyped
  <2>2. WireTyped'
    BY <1>1, BoundAssumption DEF BadgesInv, RowsTyped, WireTyped, MarkRead, UpTo
  <2>3. CallsTyped'
    BY <1>1, BoundAssumption DEF BadgesInv, RowsTyped, CallsTyped, ListsTyped, MarkRead, UpTo
  <2>4. EntryTyped'
    BY <1>1, BoundAssumption DEF BadgesInv, RowsTyped, EntryTyped, MarkRead, UpTo
  <2>5. FlagsTyped'
    BY <1>1, BoundAssumption DEF BadgesInv, RowsTyped, FlagsTyped, MarkRead, UpTo
  <2>6. QED BY <2>1, <2>2, <2>3, <2>4, <2>5 DEF BadgesTyped
<1>3. LoopsHaveAll'
  BY <1>1 DEF BadgesInv, LoopsHaveAll, MarkRead, UpTo
<1>4. ReadOnesAreShown'
  BY <1>1 DEF BadgesInv, ReadOnesAreShown, Sure, MarkRead, UpTo
<1>5. EntryIsSound'
  BY <1>1 DEF BadgesInv, EntryIsSound, RowsTyped, EntryTyped, MarkRead, UpTo
<1>6. NewOnesAreListed'
  BY <1>1 DEF BadgesInv, NewOnesAreListed, Sure, MarkRead, UpTo
<1>7. CountIsRight'
  <2>1. CASE conn = "open"
    <3>1. clean' => clean /\ 1 .. k \cap unread = {}
      BY <2>1 DEF MarkRead, UpTo
    <3>2. UNCHANGED <<unread, undelivered, counted, known, page, lastAt, selected, again,
                    pushing, backlog, Echoes>>
      BY <1>1, <2>1 DEF MarkRead
    <3>3. CountIsRight
      BY DEF BadgesInv
    <3>4. QED BY <1>1, <3>1, <3>2, <3>3 DEF CountIsRight, Sure
  <2>2. CASE conn # "open"
    <3>1. unread' = unread \ 1 .. k /\ undelivered' = undelivered \ 1 .. k /\ k \in Echoes'
      BY <1>1, <2>2 DEF MarkRead, UpTo
    <3>2. UNCHANGED <<clean, counted, known, page, lastAt, selected, again, pushing, backlog>>
      BY <2>2 DEF MarkRead
    <3>3. CountIsRight /\ counted \subseteq 1 .. sent /\ Echoes \subseteq Echoes'
      BY <1>1 DEF BadgesInv, EntryTyped
    <3>4. ASSUME clean' PROVE \A m \in counted' : m \in unread' \/ \E e \in Echoes' : m <= e
      <4>1. ASSUME NEW m \in counted, m \notin unread PROVE \E e \in Echoes' : m <= e
        BY <3>2, <3>3, <3>4, <4>1 DEF CountIsRight
      <4>2. ASSUME NEW m \in counted, m \in 1 .. k PROVE m <= k
        BY <4>2
      <4>3. QED BY <3>1, <3>2, <4>1, <4>2
    <3>5. ASSUME clean', known' PROVE unread' \subseteq counted' \cup Sure' \cup ToRead' \cup Paged'
      BY <1>1, <3>1, <3>2, <3>3, <3>5 DEF CountIsRight, Sure
    <3>6. QED BY <1>1, <3>1, <3>2, <3>3, <3>4, <3>5 DEF CountIsRight, Sure
  <2>3. QED BY <2>1, <2>2
<1>8. QED BY <1>2, <1>3, <1>4, <1>5, <1>6, <1>7 DEF BadgesInv

(* A connection that opens reloads the list and the page, and marks        *)
(* nothing.                                                                *)
LEMMA ReconnectKeeps ==
  ASSUME BadgesInv, Reconnect
  PROVE  BadgesInv'
<1> USE DEF rows, loops, link, net, calls, badge, entry, marks, ui, history, BadgesTyped, Message
<1>1. /\ News' = News /\ Echoes' = Echoes /\ Hands' = Hands /\ Seen' = Seen /\ ToRead' = ToRead
      /\ (page'.at = "asked" => Paged' = 1 .. sent) /\ (page' = page => Paged' = Paged)
  <2>1. News' = News /\ Echoes' = Echoes /\ Hands' = Hands /\ Seen' = Seen /\ ToRead' = ToRead
    BY Alone DEF Reconnect
  <2>2. sent' = sent /\ sent \in 0 .. MaxMessages
    BY DEF Reconnect, BadgesInv, RowsTyped
  <2>3. page'.at = "asked" => Paged' = 1 .. sent
    BY <2>2, BoundAssumption DEF Paged
  <2>4. page' = page => Paged' = Paged
    BY <2>2, Alone
  <2>5. QED BY <2>1, <2>3, <2>4
<1>2. BadgesTyped'
  <2>1. RowsTyped'
    BY <1>1, BoundAssumption DEF BadgesInv, RowsTyped, Reconnect, Select, Uncount, Idle
  <2>2. WireTyped'
    BY <1>1, BoundAssumption DEF BadgesInv, RowsTyped, WireTyped, Reconnect, Select, Uncount,
       Idle
  <2>3. CallsTyped'
    <3>1. ListsTyped'
      BY Loads DEF Reconnect, BadgesInv, CallsTyped
    <3>2. QED BY <1>1, <3>1 DEF BadgesInv, RowsTyped, CallsTyped, Reconnect, Select, Uncount,
       Idle
  <2>4. EntryTyped'
    BY <1>1, BoundAssumption DEF BadgesInv, RowsTyped, EntryTyped, Reconnect, Select, Uncount,
       Idle
  <2>5. FlagsTyped'
    BY <1>1, BoundAssumption DEF BadgesInv, RowsTyped, FlagsTyped, Reconnect, Select, Uncount,
       Idle
  <2>6. QED BY <2>1, <2>2, <2>3, <2>4, <2>5 DEF BadgesTyped
<1>3. LoopsHaveAll'
  BY <1>1 DEF BadgesInv, LoopsHaveAll, Reconnect, Select, Uncount, Idle
<1>4. ReadOnesAreShown'
  BY <1>1 DEF BadgesInv, ReadOnesAreShown, Sure, Reconnect, Select, Uncount, Idle
<1>5. EntryIsSound'
  BY <1>1 DEF BadgesInv, EntryIsSound, Reconnect, Select, Uncount, Idle
<1>6. NewOnesAreListed'
  BY <1>1 DEF BadgesInv, NewOnesAreListed, Sure, Reconnect, Select, Uncount, Idle
<1>7. CountIsRight'
  BY <1>1 DEF BadgesInv, CountIsRight, RowsTyped, Sure, Reconnect, Select, Uncount, Idle
<1>8. QED BY <1>2, <1>3, <1>4, <1>5, <1>6, <1>7 DEF BadgesInv

(* A page that is mounted again loads the list; its reports are lost. *)
LEMMA MountKeeps ==
  ASSUME BadgesInv, Mount
  PROVE  BadgesInv'
<1> USE DEF rows, loops, link, net, calls, badge, entry, marks, ui, history, BadgesTyped, Message
<1>1. /\ News' = News /\ Echoes' = Echoes /\ Hands' = Hands /\ Seen' = Seen /\ Paged' = Paged
      /\ ToRead' = {} /\ (reads = {} => ToRead = {})
  <2>1. News' = News /\ Echoes' = Echoes /\ Hands' = Hands /\ Seen' = Seen /\ Paged' = Paged
    BY Alone DEF Mount
  <2>2. QED BY <2>1 DEF Mount, ToRead
<1>2. BadgesTyped'
  <2>1. RowsTyped'
    BY <1>1, BoundAssumption DEF BadgesInv, RowsTyped, Mount
  <2>2. WireTyped'
    BY <1>1, BoundAssumption DEF BadgesInv, RowsTyped, WireTyped, Mount
  <2>3. CallsTyped'
    <3>1. ListsTyped'
      BY Loads DEF Mount, BadgesInv, CallsTyped
    <3>2. QED BY <1>1, <3>1 DEF BadgesInv, RowsTyped, CallsTyped, Mount
  <2>4. EntryTyped'
    BY <1>1, BoundAssumption DEF BadgesInv, RowsTyped, EntryTyped, Mount
  <2>5. FlagsTyped'
    BY <1>1, BoundAssumption DEF BadgesInv, RowsTyped, FlagsTyped, Mount
  <2>6. QED BY <2>1, <2>2, <2>3, <2>4, <2>5 DEF BadgesTyped
<1>3. LoopsHaveAll'
  BY <1>1 DEF BadgesInv, LoopsHaveAll, Mount
<1>4. ReadOnesAreShown'
  BY <1>1 DEF BadgesInv, ReadOnesAreShown, Sure, Mount
<1>5. EntryIsSound'
  BY <1>1 DEF BadgesInv, EntryIsSound, Mount
<1>6. NewOnesAreListed'
  BY <1>1 DEF BadgesInv, NewOnesAreListed, Sure, Mount
<1>7. CountIsRight'
  BY <1>1 DEF BadgesInv, CountIsRight, Sure, Mount
<1>8. QED BY <1>2, <1>3, <1>4, <1>5, <1>6, <1>7 DEF BadgesInv

(* A click opens, which leaves the messages to a page, or closes. *)
LEMMA ActivateKeeps ==
  ASSUME BadgesInv, Activate
  PROVE  BadgesInv'
<1> USE DEF rows, loops, link, net, calls, badge, entry, marks, ui, history, BadgesTyped, Message
<1>1. /\ News' = News /\ Echoes' = Echoes /\ Hands' = Hands /\ Seen' = Seen /\ ToRead' = ToRead
      /\ (page'.at = "asked" => Paged' = 1 .. sent) /\ (page' = page => Paged' = Paged)
  <2>1. News' = News /\ Echoes' = Echoes /\ Hands' = Hands /\ Seen' = Seen /\ ToRead' = ToRead
    BY Alone DEF Activate
  <2>2. sent' = sent /\ sent \in 0 .. MaxMessages
    BY DEF Activate, BadgesInv, RowsTyped
  <2>3. page'.at = "asked" => Paged' = 1 .. sent
    BY <2>2, BoundAssumption DEF Paged
  <2>4. page' = page => Paged' = Paged
    BY <2>2, Alone
  <2>5. QED BY <2>1, <2>3, <2>4
<1>2. BadgesTyped'
  <2>1. RowsTyped'
    BY <1>1, BoundAssumption DEF BadgesInv, RowsTyped, Activate, Act, Select, Uncount, Idle
  <2>2. WireTyped'
    BY <1>1, BoundAssumption DEF BadgesInv, WireTyped, Activate, Act, Select, Uncount, Idle
  <2>3. CallsTyped'
    BY <1>1, BoundAssumption DEF BadgesInv, RowsTyped, CallsTyped, ListsTyped, Activate, Act,
       Select, Uncount, Idle
  <2>4. EntryTyped'
    BY <1>1, BoundAssumption DEF BadgesInv, RowsTyped, EntryTyped, Activate, Act, Select,
       Uncount, Idle
  <2>5. FlagsTyped'
    BY <1>1, BoundAssumption DEF BadgesInv, FlagsTyped, Activate, Act, Select, Uncount, Idle
  <2>6. QED BY <2>1, <2>2, <2>3, <2>4, <2>5 DEF BadgesTyped
<1>3. LoopsHaveAll'
  BY <1>1 DEF BadgesInv, LoopsHaveAll, Activate, Act, Select, Uncount, Idle
<1>4. ReadOnesAreShown'
  BY <1>1 DEF BadgesInv, ReadOnesAreShown, Sure, Activate, Act, Select, Uncount, Idle
<1>5. EntryIsSound'
  BY <1>1 DEF BadgesInv, EntryIsSound, Activate, Act, Select, Uncount, Idle
<1>6. NewOnesAreListed'
  BY <1>1 DEF BadgesInv, NewOnesAreListed, Sure, Activate, Act, Select, Uncount, Idle
<1>7. CountIsRight'
  BY <1>1 DEF BadgesInv, CountIsRight, RowsTyped, Sure, Activate, Act, Select, Uncount, Idle
<1>8. QED BY <1>2, <1>3, <1>4, <1>5, <1>6, <1>7 DEF BadgesInv

(* The entry of an opened conversation counts nothing while its page is    *)
(* fetched.                                                                *)
LEMMA OpenDirectKeeps ==
  ASSUME BadgesInv, OpenDirect
  PROVE  BadgesInv'
<1> USE DEF rows, loops, link, net, calls, badge, entry, marks, ui, history, BadgesTyped, Message
<1>1. /\ News' = News /\ Echoes' = Echoes /\ Hands' = Hands /\ Seen' = Seen /\ ToRead' = ToRead
      /\ (page'.at = "asked" => Paged' = 1 .. sent) /\ (page' = page => Paged' = Paged)
  <2>1. News' = News /\ Echoes' = Echoes /\ Hands' = Hands /\ Seen' = Seen /\ ToRead' = ToRead
    BY Alone DEF OpenDirect
  <2>2. sent' = sent /\ sent \in 0 .. MaxMessages
    BY DEF OpenDirect, BadgesInv, RowsTyped
  <2>3. page'.at = "asked" => Paged' = 1 .. sent
    BY <2>2, BoundAssumption DEF Paged
  <2>4. page' = page => Paged' = Paged
    BY <2>2, Alone
  <2>5. QED BY <2>1, <2>3, <2>4
<1>2. BadgesTyped'
  <2>1. RowsTyped'
    BY <1>1, BoundAssumption DEF BadgesInv, RowsTyped, OpenDirect, Act, Uncount, Idle
  <2>2. WireTyped'
    BY <1>1, BoundAssumption DEF BadgesInv, RowsTyped, WireTyped, OpenDirect, Act, Uncount, Idle
  <2>3. CallsTyped'
    BY <1>1, BoundAssumption DEF BadgesInv, RowsTyped, CallsTyped, ListsTyped, OpenDirect, Act,
       Uncount, Idle
  <2>4. EntryTyped'
    BY <1>1, BoundAssumption DEF BadgesInv, RowsTyped, EntryTyped, OpenDirect, Act, Uncount,
       Idle
  <2>5. FlagsTyped'
    BY <1>1, BoundAssumption DEF BadgesInv, RowsTyped, FlagsTyped, OpenDirect, Act, Uncount,
       Idle
  <2>6. QED BY <2>1, <2>2, <2>3, <2>4, <2>5 DEF BadgesTyped
<1>3. LoopsHaveAll'
  BY <1>1 DEF BadgesInv, LoopsHaveAll, OpenDirect, Act, Uncount, Idle
<1>4. ReadOnesAreShown'
  BY <1>1 DEF BadgesInv, ReadOnesAreShown, Sure, OpenDirect, Act, Uncount, Idle
<1>5. EntryIsSound'
  BY <1>1 DEF BadgesInv, EntryIsSound, OpenDirect, Act, Uncount, Idle
<1>6. NewOnesAreListed'
  BY <1>1 DEF BadgesInv, NewOnesAreListed, Sure, OpenDirect, Act, Uncount, Idle
<1>7. CountIsRight'
  BY <1>1 DEF BadgesInv, CountIsRight, RowsTyped, Sure, OpenDirect, Act, Uncount, Idle
<1>8. QED BY <1>2, <1>3, <1>4, <1>5, <1>6, <1>7 DEF BadgesInv

(* It is selected once more, and is no longer hidden. *)
LEMMA OpenedAgainKeeps ==
  ASSUME BadgesInv, OpenedAgain
  PROVE  BadgesInv'
<1> USE DEF rows, loops, link, net, calls, badge, entry, marks, ui, history, BadgesTyped, Message
<1>1. /\ News' = News /\ Echoes' = Echoes /\ Hands' = Hands /\ Seen' = Seen /\ ToRead' = ToRead
      /\ (page'.at = "asked" => Paged' = 1 .. sent) /\ (page' = page => Paged' = Paged)
  <2>1. News' = News /\ Echoes' = Echoes /\ Hands' = Hands /\ Seen' = Seen /\ ToRead' = ToRead
    BY Alone DEF OpenedAgain
  <2>2. sent' = sent /\ sent \in 0 .. MaxMessages
    BY DEF OpenedAgain, BadgesInv, RowsTyped
  <2>3. page'.at = "asked" => Paged' = 1 .. sent
    BY <2>2, BoundAssumption DEF Paged
  <2>4. page' = page => Paged' = Paged
    BY <2>2, Alone
  <2>5. QED BY <2>1, <2>3, <2>4
<1>2. BadgesTyped'
  <2>1. RowsTyped'
    BY <1>1, BoundAssumption DEF BadgesInv, RowsTyped, OpenedAgain, Select, Uncount, Idle
  <2>2. WireTyped'
    BY <1>1, BoundAssumption DEF BadgesInv, RowsTyped, WireTyped, OpenedAgain, Select, Uncount,
       Idle
  <2>3. CallsTyped'
    BY <1>1, BoundAssumption DEF BadgesInv, RowsTyped, CallsTyped, ListsTyped, OpenedAgain,
       Select, Uncount, Idle
  <2>4. EntryTyped'
    BY <1>1, BoundAssumption DEF BadgesInv, RowsTyped, EntryTyped, OpenedAgain, Select, Uncount,
       Idle
  <2>5. FlagsTyped'
    BY <1>1, BoundAssumption DEF BadgesInv, RowsTyped, FlagsTyped, OpenedAgain, Select, Uncount,
       Idle
  <2>6. QED BY <2>1, <2>2, <2>3, <2>4, <2>5 DEF BadgesTyped
<1>3. LoopsHaveAll'
  BY <1>1 DEF BadgesInv, LoopsHaveAll, OpenedAgain, Select, Uncount, Idle
<1>4. ReadOnesAreShown'
  BY <1>1 DEF BadgesInv, ReadOnesAreShown, Sure, OpenedAgain, Select, Uncount, Idle
<1>5. EntryIsSound'
  BY <1>1 DEF BadgesInv, EntryIsSound, OpenedAgain, Select, Uncount, Idle
<1>6. NewOnesAreListed'
  BY <1>1 DEF BadgesInv, NewOnesAreListed, Sure, OpenedAgain, Select, Uncount, Idle
<1>7. CountIsRight'
  BY <1>1 DEF BadgesInv, CountIsRight, RowsTyped, Sure, OpenedAgain, Select, Uncount, Idle
<1>8. QED BY <1>2, <1>3, <1>4, <1>5, <1>6, <1>7 DEF BadgesInv

(* The answer of the server is not applied yet. *)
LEMMA ListConversationsKeeps ==
  ASSUME BadgesInv, NEW i \in DOMAIN lists, ListConversations(i)
  PROVE  BadgesInv'
<1> USE DEF rows, loops, link, net, calls, badge, entry, marks, ui, history, BadgesTyped, Message
<1>1. /\ News' = News /\ Echoes' = Echoes /\ Hands' = Hands /\ Seen' = Seen /\ ToRead' = ToRead
      /\ Paged' = Paged
  BY Alone DEF BadgesInv, ListConversations
<1>2. BadgesTyped'
  <2>1. RowsTyped'
    BY <1>1, BoundAssumption DEF BadgesInv, RowsTyped, ListConversations
  <2>2. WireTyped'
    BY <1>1, BoundAssumption DEF BadgesInv, RowsTyped, WireTyped, ListConversations
  <2>3. CallsTyped'
    <3>1. ListsTyped'
      BY Answers DEF BadgesInv, CallsTyped
    <3>2. QED BY <3>1 DEF BadgesInv, CallsTyped, ListConversations
  <2>4. EntryTyped'
    BY <1>1, BoundAssumption DEF BadgesInv, RowsTyped, EntryTyped, ListConversations
  <2>5. FlagsTyped'
    BY <1>1, BoundAssumption DEF BadgesInv, RowsTyped, FlagsTyped, ListConversations
  <2>6. QED BY <2>1, <2>2, <2>3, <2>4, <2>5 DEF BadgesTyped
<1>3. LoopsHaveAll'
  BY <1>1 DEF BadgesInv, LoopsHaveAll, ListConversations
<1>4. ReadOnesAreShown'
  BY <1>1 DEF BadgesInv, ReadOnesAreShown, Sure, ListConversations
<1>5. EntryIsSound'
  BY <1>1 DEF BadgesInv, EntryIsSound, ListConversations
<1>6. NewOnesAreListed'
  BY <1>1 DEF BadgesInv, NewOnesAreListed, Sure, ListConversations
<1>7. CountIsRight'
  BY <1>1 DEF BadgesInv, CountIsRight, Sure, ListConversations
<1>8. QED BY <1>2, <1>3, <1>4, <1>5, <1>6, <1>7 DEF BadgesInv

(* A list that is up to date counts what is unread, except what is yet to  *)
(* arrive.                                                                 *)
LEMMA ApplyListKeeps ==
  ASSUME BadgesInv, NEW i \in DOMAIN lists, ApplyList(i)
  PROVE  BadgesInv'
<1> USE DEF rows, loops, link, net, calls, badge, entry, marks, ui, history, BadgesTyped, Message
<1>1. /\ News' = News /\ Echoes' = Echoes /\ Hands' = Hands /\ Seen' = Seen /\ ToRead' = ToRead
      /\ Paged' = Paged
      /\ counted' \subseteq 1 .. lastAt' /\ lastAt' \in 0 .. sent /\ lastId' = lastAt'
      /\ hidden' \in {hidden, None}
      /\ hidden' # None => lastAt' <= hidden'
      /\ clean' => /\ counted' \subseteq unread \ (pushing \cup backlog \cup Sure)
                   /\ unread \ counted' \subseteq Sure
  <2>1. /\ News' = News /\ Echoes' = Echoes /\ Hands' = Hands /\ Seen' = Seen
        /\ ToRead' = ToRead /\ Paged' = Paged
    BY Alone DEF ApplyList
  <2>2. lists[i].last \in 0 .. sent /\ lists[i].unread \subseteq 1 .. lists[i].last
    BY DEF BadgesInv, CallsTyped, ListsTyped
  <2>3. /\ counted' = lists[i].unread /\ lastAt' = lists[i].last /\ lastId' = lists[i].last
        /\ hidden' = (IF hidden # None /\ lastAt' > hidden THEN None ELSE hidden)
        /\ clean' = UpToDate(lists[i])
    BY DEF ApplyList, Unhide
  <2>4. hidden' \in {hidden, None} /\ (hidden' # None => lastAt' <= hidden')
    BY <2>2, <2>3 DEF BadgesInv, RowsTyped, EntryTyped
  <2>5. unread \subseteq Message /\ counted' \subseteq Message
    BY <2>2, <2>3, BoundAssumption DEF BadgesInv, RowsTyped
  <2>6. ASSUME clean'
        PROVE  /\ counted' \subseteq unread \ (pushing \cup backlog \cup Sure)
               /\ unread \ counted' \subseteq Sure
    BY <2>3, <2>5, <2>6, ArrivingIsSure DEF UpToDate, Coming
  <2>7. QED BY <2>1, <2>2, <2>3, <2>4, <2>6
<1>2. BadgesTyped'
  <2>1. RowsTyped'
    BY <1>1, BoundAssumption DEF BadgesInv, RowsTyped, ApplyList, Unhide, UpToDate
  <2>2. WireTyped'
    BY <1>1, BoundAssumption DEF BadgesInv, RowsTyped, WireTyped, ApplyList, Unhide, UpToDate
  <2>3. CallsTyped'
    <3>1. ListsTyped'
      BY FewerLoads DEF ApplyList, BadgesInv, CallsTyped
    <3>2. QED BY <1>1, <3>1 DEF BadgesInv, RowsTyped, CallsTyped, ApplyList
  <2>4. EntryTyped'
    BY <1>1, BoundAssumption DEF BadgesInv, RowsTyped, EntryTyped, ApplyList, Unhide, UpToDate
  <2>5. FlagsTyped'
    BY <1>1, BoundAssumption DEF BadgesInv, RowsTyped, FlagsTyped, ApplyList, Unhide, UpToDate
  <2>6. QED BY <2>1, <2>2, <2>3, <2>4, <2>5 DEF BadgesTyped
<1>3. LoopsHaveAll'
  BY <1>1 DEF BadgesInv, LoopsHaveAll, ApplyList, Unhide, UpToDate
<1>4. ReadOnesAreShown'
  BY <1>1 DEF BadgesInv, ReadOnesAreShown, Sure, ApplyList, Unhide, UpToDate
<1>5. EntryIsSound'
  BY <1>1 DEF BadgesInv, EntryIsSound, RowsTyped, EntryTyped, ApplyList, Unhide, UpToDate
<1>6. NewOnesAreListed'
  <2>1. SUFFICES ASSUME clean', hidden' # None, NEW m \in unread' PROVE m <= hidden' \/ m \in Sure'
    BY DEF NewOnesAreListed
  <2>2. unread' = unread /\ Sure' = Sure
    BY <1>1 DEF ApplyList, Sure
  <2>3. CASE m \in counted'
    <3>1. m \in 1 .. lastAt' /\ lastAt' <= hidden' /\ hidden' \in Nat /\ lastAt' \in Nat
      BY <1>1, <2>1, <2>3, BoundAssumption DEF BadgesInv, EntryTyped, RowsTyped
    <3>2. QED BY <3>1
  <2>4. CASE m \notin counted'
    BY <1>1, <2>1, <2>2, <2>4
  <2>5. QED BY <2>3, <2>4
<1>7. CountIsRight'
  <2>1. UNCHANGED <<unread, undelivered, pushing, backlog>> /\ Sure' = Sure /\ again' = 0
    BY <1>1 DEF ApplyList, Sure
  <2>2. \A m \in counted' : m <= lastAt'
    BY <1>1, BoundAssumption DEF BadgesInv, RowsTyped
  <2>3. ASSUME clean'
        PROVE  /\ counted' \subseteq unread \ (pushing \cup backlog \cup Sure)
               /\ unread \ counted' \subseteq Sure
    BY <1>1, <2>3
  <2>4. QED BY <2>1, <2>2, <2>3 DEF CountIsRight
<1>8. QED BY <1>2, <1>3, <1>4, <1>5, <1>6, <1>7 DEF BadgesInv

(* The cached entries count nothing, which is clean if all is yet to       *)
(* arrive.                                                                 *)
LEMMA ListFailsKeeps ==
  ASSUME BadgesInv, NEW i \in DOMAIN lists, ListFails(i)
  PROVE  BadgesInv'
<1> USE DEF rows, loops, link, net, calls, badge, entry, marks, ui, history, BadgesTyped, Message
<1>1. /\ News' = News /\ Echoes' = Echoes /\ Hands' = Hands /\ Seen' = Seen /\ ToRead' = ToRead
      /\ Paged' = Paged
      /\ UNCHANGED <<rows, loops, link, page, selected, override, settled>> /\ acts' \in Nat
      /\ \/ UNCHANGED <<entry, hidden, clean>>
         \/ /\ known' /\ counted' = {} /\ again' = 0 /\ lastId' = 0
            /\ lastAt' \in 0 .. sent /\ hidden' \in {hidden, None}
            /\ clean' => clean /\ unread \subseteq Sure
  <2>1. /\ News' = News /\ Echoes' = Echoes /\ Hands' = Hands /\ Seen' = Seen
        /\ ToRead' = ToRead /\ Paged' = Paged
    BY Alone DEF ListFails
  <2>2. UNCHANGED <<rows, loops, link, page, selected, override, settled>> /\ acts' \in Nat
    BY DEF ListFails, Act, BadgesInv, EntryTyped
  <2>3. CASE UNCHANGED <<entry, hidden, clean>>
    BY <2>1, <2>2, <2>3
  <2>4. CASE /\ known' = TRUE /\ Uncount /\ lastId' = 0 /\ clean' = (clean /\ NoneForgotten)
             /\ \E k \in 0 .. lastAt : lastAt' = k /\ Unhide(k)
    <3>1. lastAt' \in 0 .. sent /\ hidden' \in {hidden, None}
      BY <2>4 DEF Unhide, BadgesInv, EntryTyped, RowsTyped
    <3>2. clean' => clean /\ unread \subseteq Sure
      BY <2>4, ForgottenIsSure DEF BadgesInv
    <3>3. QED BY <2>1, <2>2, <2>4, <3>1, <3>2 DEF Uncount
  <2>5. QED BY <2>1, <2>2, <2>3, <2>4 DEF ListFails
<1>2. BadgesTyped'
  <2>1. RowsTyped'
    BY <1>1, BoundAssumption DEF BadgesInv, RowsTyped
  <2>2. WireTyped'
    BY <1>1, BoundAssumption DEF BadgesInv, RowsTyped, WireTyped, ListFails, Act, Uncount,
       Unhide
  <2>3. CallsTyped'
    <3>1. ListsTyped'
      BY FewerLoads DEF ListFails, BadgesInv, CallsTyped
    <3>2. QED BY <1>1, <3>1 DEF BadgesInv, RowsTyped, CallsTyped, ListFails
  <2>4. EntryTyped'
    <3>1. EntryTyped /\ sent' = sent /\ sent \in Nat
      BY <1>1, BoundAssumption DEF BadgesInv, RowsTyped
    <3>2. counted' \subseteq 1 .. sent
      BY <1>1, <3>1 DEF EntryTyped
    <3>3. again' \in Nat
      BY <1>1, <3>1 DEF EntryTyped
    <3>4. lastAt' \in 0 .. sent /\ lastId' \in 0 .. sent
      BY <1>1, <3>1 DEF EntryTyped
    <3>5. override' \in Nat \cup {None} /\ hidden' \in 0 .. sent \cup {None} /\ acts' \in Nat
      BY <1>1, <3>1 DEF EntryTyped
    <3>6. QED BY <3>1, <3>2, <3>3, <3>4, <3>5 DEF EntryTyped
  <2>5. FlagsTyped'
    BY <1>1, BoundAssumption DEF BadgesInv, RowsTyped, FlagsTyped, ListFails, Act, Uncount,
       Unhide
  <2>6. QED BY <2>1, <2>2, <2>3, <2>4, <2>5 DEF BadgesTyped
<1>3. LoopsHaveAll'
  BY <1>1 DEF BadgesInv, LoopsHaveAll
<1>4. ReadOnesAreShown'
  BY <1>1 DEF BadgesInv, ReadOnesAreShown, Sure
<1>5. EntryIsSound'
  <2>1. /\ UNCHANGED <<unread, Echoes>> /\ hidden' \in {hidden, None} /\ (known => known')
        /\ (counted' = counted /\ lastId' = lastId) \/ counted' = {}
    BY <1>1
  <2>2. QED BY <2>1 DEF BadgesInv, EntryIsSound
<1>6. NewOnesAreListed'
  BY <1>1 DEF BadgesInv, NewOnesAreListed, Sure
<1>7. CountIsRight'
  BY <1>1 DEF BadgesInv, CountIsRight, Sure
<1>8. QED BY <1>2, <1>3, <1>4, <1>5, <1>6, <1>7 DEF BadgesInv

(* A message that is taken is with its handler, or is let go with a list   *)
(* on its way.                                                             *)
LEMMA TakeNewKeeps ==
  ASSUME BadgesInv, NEW m \in Message, TakeNew(m)
  PROVE  BadgesInv'
<1> USE DEF rows, loops, link, net, calls, badge, entry, marks, ui, history, BadgesTyped, Message
<1>1. /\ events' \in Seq(EventShape) /\ Echoes' = Echoes /\ News = News' \cup {m}
      /\ ToRead' = ToRead /\ Paged' = Paged
      /\ Hands' = (IF known THEN Hands \cup {m} ELSE Hands)
      /\ Seen \subseteq Seen' /\ (selected \/ Seen' = Seen)
  <2>1. ToRead' = ToRead /\ Paged' = Paged
    BY Alone DEF TakeNew
  <2>2. events' \in Seq(EventShape) /\ News = News' \cup {m} /\ Echoes = Echoes'
    <3>1. Take(<<"new", m>>) /\ WireTyped
      BY DEF TakeNew, BadgesInv
    <3>2. /\ events' \in Seq(EventShape)
          /\ News = News' \cup {x \in Message : <<"new", m>> = <<"new", x>>}
          /\ Echoes = Echoes' \cup {x \in Message : <<"new", m>> = <<"read", x>>}
      BY <3>1, Takes
    <3>3. QED BY <3>2
  <2>3. CASE known
    <3>1. handling' = handling \cup {[m |-> m, saw |-> selected]}
      BY <2>3 DEF TakeNew
    <3> DEFINE one == [m |-> m, saw |-> selected]
    <3>2. handling' = handling \cup {one} /\ one.m = m /\ one.saw = selected
      BY <3>1
    <3> HIDE DEF one
    <3>3. Hands' = Hands \cup {m}
      BY <3>2 DEF Hands
    <3>4. Seen \subseteq Seen' /\ (selected \/ Seen' = Seen)
      BY <3>2 DEF Seen
    <3>5. QED BY <2>1, <2>2, <2>3, <3>3, <3>4
  <2>4. CASE ~known
    BY <2>1, <2>2, <2>4, Alone DEF TakeNew
  <2>5. QED BY <2>3, <2>4
<1>2. BadgesTyped'
  <2>1. RowsTyped'
    BY <1>1, BoundAssumption DEF BadgesInv, RowsTyped, TakeNew, Take
  <2>2. WireTyped'
    BY <1>1, BoundAssumption DEF BadgesInv, RowsTyped, WireTyped, TakeNew, Take
  <2>3. CallsTyped'
    <3>1. CASE known
      <4>1. /\ UNCHANGED <<lists, page, opening, sent>>
            /\ handling' = handling \cup {[m |-> m, saw |-> selected]}
        BY <3>1 DEF TakeNew
      <4>2. m \in 1 .. sent /\ selected \in BOOLEAN
        BY <1>1 DEF BadgesInv, WireTyped, FlagsTyped
      <4>3. QED BY <4>1, <4>2 DEF BadgesInv, CallsTyped, ListsTyped
    <3>2. CASE ~known
      <4>1. ListsTyped'
        BY <3>2, Loads DEF TakeNew, BadgesInv, CallsTyped
      <4>2. QED BY <3>2, <4>1 DEF BadgesInv, CallsTyped, TakeNew
    <3>3. QED BY <3>1, <3>2
  <2>4. EntryTyped'
    BY <1>1, BoundAssumption DEF BadgesInv, RowsTyped, EntryTyped, TakeNew, Take
  <2>5. FlagsTyped'
    BY <1>1, BoundAssumption DEF BadgesInv, RowsTyped, FlagsTyped, TakeNew, Take
  <2>6. QED BY <2>1, <2>2, <2>3, <2>4, <2>5 DEF BadgesTyped
<1>3. LoopsHaveAll'
  BY <1>1 DEF BadgesInv, LoopsHaveAll, TakeNew, Take
<1>4. ReadOnesAreShown'
  BY <1>1 DEF BadgesInv, ReadOnesAreShown, Sure, TakeNew, Take
<1>5. EntryIsSound'
  BY <1>1 DEF BadgesInv, EntryIsSound, TakeNew, Take
<1>6. NewOnesAreListed'
  BY <1>1 DEF BadgesInv, EntryIsSound, NewOnesAreListed, Sure, TakeNew, Take
<1>7. CountIsRight'
  BY <1>1 DEF BadgesInv, CountIsRight, Sure, TakeNew, Take
<1>8. QED BY <1>2, <1>3, <1>4, <1>5, <1>6, <1>7 DEF BadgesInv

(* A message is counted, or shown to be reported; either way it has been   *)
(* shown.                                                                  *)
LEMMA ApplyNewKeeps ==
  ASSUME BadgesInv, NEW h \in handling, ApplyNew(h)
  PROVE  BadgesInv'
<1> USE DEF rows, loops, link, net, calls, badge, entry, marks, ui, history, BadgesTyped, Message
<1>1. /\ News' = News /\ Echoes' = Echoes /\ Paged' = Paged
      /\ h.m \in 1 .. sent /\ h.saw \in BOOLEAN /\ Hands = Hands' \cup {h.m} /\ Seen' \subseteq Seen
      /\ h.saw => Seen \subseteq Seen' \cup 1 .. h.m /\ 1 .. h.m \subseteq Seen
                  /\ ToRead' = ToRead \cup 1 .. h.m
      /\ ~h.saw => Seen' = Seen /\ ToRead' = ToRead
      /\ UNCHANGED <<rows, loops, link, page, known, selected, override, acts>>
      /\ settled' = settled \cup {h.m} /\ h.m \in Message /\ lastAt' = h.m /\ lastId' = h.m
      /\ hidden' \in {hidden, None} /\ (hidden' # None => h.m <= hidden')
      /\ again' \in Nat /\ counted' = (IF selected THEN {} ELSE counted \cup {h.m})
      /\ clean' => /\ clean /\ selected = h.saw /\ h.m \notin counted /\ h.m \in unread
                   /\ lastAt <= h.m /\ again' = 0
  <2>1. News' = News /\ Echoes' = Echoes /\ Paged' = Paged
    BY Alone DEF ApplyNew
  <2>2. h.m \in 1 .. sent /\ h.saw \in BOOLEAN /\ 1 .. h.m \subseteq Message
    BY BoundAssumption DEF ApplyNew, BadgesInv, CallsTyped, RowsTyped
  <2>3. handling' = handling \ {h} /\ reads' = (IF h.saw THEN reads \cup {h.m} ELSE reads)
    BY DEF ApplyNew
  <2>4. Hands = Hands' \cup {h.m} /\ Seen' \subseteq Seen
    BY <2>2, <2>3 DEF Hands, Seen
  <2>5. ASSUME h.saw
        PROVE  /\ Seen \subseteq Seen' \cup 1 .. h.m /\ 1 .. h.m \subseteq Seen
               /\ ToRead' = ToRead \cup 1 .. h.m
    BY <2>2, <2>3, <2>5 DEF Seen, ToRead
  <2>6. ASSUME ~h.saw PROVE Seen' = Seen /\ ToRead' = ToRead
    BY <2>2, <2>3, <2>6 DEF Seen, ToRead
  <2>7. /\ UNCHANGED <<rows, loops, link, page, known, selected, override, acts>>
        /\ settled' = settled \cup {h.m} /\ lastAt' = h.m /\ lastId' = h.m
        /\ counted' = (IF selected THEN {} ELSE counted \cup {h.m})
    BY DEF ApplyNew, Uncount
  <2>8. hidden' \in {hidden, None} /\ (hidden' # None => h.m <= hidden')
    BY <2>2 DEF ApplyNew, Unhide, BadgesInv, EntryTyped, RowsTyped
  <2>9. /\ again' = (IF selected THEN 0 ELSE IF h.m \in counted THEN again + 1 ELSE again)
        /\ clean' => /\ clean /\ selected = h.saw /\ h.m \notin counted /\ h.m \in unread
                     /\ lastAt <= h.m
    BY DEF ApplyNew, Uncount
  <2>11. again \in Nat /\ (clean => again = 0)
    BY DEF BadgesInv, EntryTyped, CountIsRight
  <2>12. again' \in Nat /\ (clean' => again' = 0)
    BY <2>9, <2>11
  <2>13. QED BY <2>1, <2>2, <2>4, <2>5, <2>6, <2>7, <2>8, <2>9, <2>12
<1>2. BadgesTyped'
  <2>1. RowsTyped'
    BY <1>1, BoundAssumption DEF BadgesInv, RowsTyped
  <2>2. WireTyped'
    BY <1>1, BoundAssumption DEF BadgesInv, RowsTyped, WireTyped, ApplyNew, Uncount, Unhide
  <2>3. CallsTyped'
    BY <1>1, BoundAssumption DEF BadgesInv, RowsTyped, CallsTyped, ListsTyped, ApplyNew,
       Uncount, Unhide
  <2>4. EntryTyped'
    <3>1. EntryTyped /\ sent' = sent /\ sent \in Nat
      BY <1>1, BoundAssumption DEF BadgesInv, RowsTyped
    <3>2. counted' \subseteq 1 .. sent
      BY <1>1, <3>1 DEF EntryTyped
    <3>3. again' \in Nat
      BY <1>1, <3>1 DEF EntryTyped
    <3>4. lastAt' \in 0 .. sent /\ lastId' \in 0 .. sent
      BY <1>1, <3>1 DEF EntryTyped
    <3>5. override' \in Nat \cup {None} /\ hidden' \in 0 .. sent \cup {None} /\ acts' \in Nat
      BY <1>1, <3>1 DEF EntryTyped
    <3>6. QED BY <3>1, <3>2, <3>3, <3>4, <3>5 DEF EntryTyped
  <2>5. FlagsTyped'
    BY <1>1, BoundAssumption DEF BadgesInv, RowsTyped, FlagsTyped, ApplyNew, Uncount, Unhide
  <2>6. QED BY <2>1, <2>2, <2>3, <2>4, <2>5 DEF BadgesTyped
<1>3. LoopsHaveAll'
  BY <1>1 DEF BadgesInv, LoopsHaveAll
<1>4. ReadOnesAreShown'
  BY <1>1 DEF BadgesInv, ReadOnesAreShown, Sure
<1>5. EntryIsSound'
  <2>1. /\ UNCHANGED <<unread, known, Echoes>> /\ counted' \subseteq counted \cup {h.m}
        /\ hidden' \in {hidden, None} /\ (hidden' # None => h.m <= hidden') /\ lastId' # 0
    BY <1>1
  <2>2. QED BY <2>1 DEF BadgesInv, EntryIsSound
<1>6. NewOnesAreListed'
  BY <1>1 DEF BadgesInv, NewOnesAreListed, Sure
<1>7. CountIsRight'
  <2>1. SUFFICES ASSUME clean' PROVE CountIsRight'
    BY DEF CountIsRight
  <2>2. /\ CountIsRight /\ clean /\ selected = h.saw /\ h.m \notin counted /\ h.m \in unread
        /\ lastAt <= h.m /\ again' = 0
    BY <1>1, <2>1 DEF BadgesInv
  <2>3. UNCHANGED <<unread, undelivered, known, selected, page, News, Echoes, Paged>>
    BY <1>1
  <2>4. counted \subseteq Nat /\ lastAt \in Nat /\ h.m \in Nat
    BY <1>1, BoundAssumption DEF BadgesInv, EntryTyped, RowsTyped
  <2>5. CASE selected
    <3>1. counted' = {} /\ ToRead' = ToRead \cup 1 .. h.m
      BY <1>1, <2>2, <2>5
    <3>2. \A m \in counted \cap unread : m \in 1 .. h.m
      BY <1>1, <2>2, <2>4 DEF CountIsRight, BadgesInv, EntryTyped
    <3>3. Sure \subseteq Sure' \cup {h.m} /\ h.m \in 1 .. h.m
      BY <1>1, <2>3, <2>4 DEF Sure
    <3>4. ASSUME known' PROVE unread' \subseteq counted' \cup Sure' \cup ToRead' \cup Paged'
      BY <2>2, <2>3, <3>1, <3>2, <3>3, <3>4 DEF CountIsRight
    <3>5. QED BY <2>2, <3>1, <3>4 DEF CountIsRight
  <2>6. CASE ~selected
    <3>1. counted' = counted \cup {h.m} /\ ToRead' = ToRead /\ lastAt' = h.m
      BY <1>1, <2>2, <2>6
    <3>2. Sure \subseteq Sure' \cup {h.m}
      BY <1>1, <2>3 DEF Sure
    <3>3. \A m \in counted' \cap unread' : m <= lastAt'
      BY <2>2, <2>3, <2>4, <3>1 DEF CountIsRight
    <3>4. QED BY <2>2, <2>3, <2>6, <3>1, <3>2, <3>3 DEF CountIsRight
  <2>7. QED BY <2>5, <2>6
<1>8. QED BY <1>2, <1>3, <1>4, <1>5, <1>6, <1>7 DEF BadgesInv

(* An echo clears the count, which is clean if it counted nothing later. *)
LEMMA ApplyReadKeeps ==
  ASSUME BadgesInv, NEW k \in Message, ApplyRead(k)
  PROVE  BadgesInv'
<1> USE DEF rows, loops, link, net, calls, badge, entry, marks, ui, history, BadgesTyped, Message
<1>1. /\ events' \in Seq(EventShape) /\ News' = News /\ Echoes = Echoes' \cup {k}
      /\ Hands' = Hands /\ Seen' = Seen /\ ToRead' = ToRead /\ Paged' = Paged
  <2>1. Hands' = Hands /\ Seen' = Seen /\ ToRead' = ToRead /\ Paged' = Paged
    BY Alone DEF ApplyRead
  <2>2. events' \in Seq(EventShape) /\ News' = News /\ Echoes = Echoes' \cup {k}
    <3>1. Take(<<"read", k>>) /\ WireTyped
      BY DEF ApplyRead, BadgesInv
    <3>2. /\ events' \in Seq(EventShape)
          /\ News = News' \cup {x \in Message : <<"read", k>> = <<"new", x>>}
          /\ Echoes = Echoes' \cup {x \in Message : <<"read", k>> = <<"read", x>>}
      BY <3>1, Takes
    <3>3. QED BY <3>2
  <2>3. QED BY <2>1, <2>2
<1>2. BadgesTyped'
  <2>1. RowsTyped'
    BY <1>1, BoundAssumption DEF BadgesInv, RowsTyped, ApplyRead, Take, Uncount, NoneAfter
  <2>2. WireTyped'
    BY <1>1, BoundAssumption DEF BadgesInv, RowsTyped, WireTyped, ApplyRead, Take, Uncount,
       NoneAfter
  <2>3. CallsTyped'
    BY <1>1, BoundAssumption DEF BadgesInv, CallsTyped, ListsTyped, ApplyRead, Take, Uncount,
       NoneAfter
  <2>4. EntryTyped'
    BY <1>1, BoundAssumption DEF BadgesInv, RowsTyped, EntryTyped, ApplyRead, Take, Uncount,
       NoneAfter
  <2>5. FlagsTyped'
    BY <1>1, BoundAssumption DEF BadgesInv, RowsTyped, FlagsTyped, ApplyRead, Take, Uncount,
       NoneAfter
  <2>6. QED BY <2>1, <2>2, <2>3, <2>4, <2>5 DEF BadgesTyped
<1>3. LoopsHaveAll'
  BY <1>1 DEF BadgesInv, LoopsHaveAll, ApplyRead, Take, Uncount, NoneAfter
<1>4. ReadOnesAreShown'
  BY <1>1 DEF BadgesInv, ReadOnesAreShown, Sure, ApplyRead, Take, Uncount, NoneAfter
<1>5. EntryIsSound'
  BY <1>1 DEF BadgesInv, EntryIsSound, ApplyRead, Take, Uncount, NoneAfter
<1>6. NewOnesAreListed'
  BY <1>1 DEF BadgesInv, NewOnesAreListed, Sure, ApplyRead, Take, Uncount, NoneAfter
<1>7. CountIsRight'
  <2>1. ASSUME clean' PROVE clean /\ counted \cap unread = {}
    <3>1. clean /\ \A m \in counted : m <= k
      BY <2>1 DEF ApplyRead, NoneAfter
    <3>2. k \in Echoes /\ \A m \in unread : k < m
      BY <1>1 DEF BadgesInv, EntryIsSound
    <3>3. counted \subseteq Nat /\ k \in Nat
      BY DEF BadgesInv, EntryTyped
    <3>4. ASSUME NEW m \in counted, m \in unread PROVE FALSE
      BY <3>1, <3>2, <3>3, <3>4
    <3>5. QED BY <3>1, <3>4
  <2>2. counted' = {} /\ again' = 0 /\ UNCHANGED <<unread, undelivered, known>>
    BY DEF ApplyRead, Uncount
  <2>3. QED BY <1>1, <2>1, <2>2 DEF BadgesInv, CountIsRight, Sure
<1>8. QED BY <1>2, <1>3, <1>4, <1>5, <1>6, <1>7 DEF BadgesInv

(* News of the group clears the count, which is clean if all is yet to     *)
(* arrive.                                                                 *)
LEMMA ApplyNewsKeeps ==
  ASSUME BadgesInv, ApplyNews
  PROVE  BadgesInv'
<1> USE DEF rows, loops, link, net, calls, badge, entry, marks, ui, history, BadgesTyped, Message
<1>1. /\ events' \in Seq(EventShape) /\ News' = News /\ Echoes' = Echoes
      /\ Hands' = Hands /\ Seen' = Seen /\ ToRead' = ToRead /\ Paged' = Paged
      /\ NoneForgotten => unread \subseteq Sure
  <2>1. Hands' = Hands /\ Seen' = Seen /\ ToRead' = ToRead /\ Paged' = Paged
    BY Alone DEF ApplyNews
  <2>2. events' \in Seq(EventShape) /\ News' = News /\ Echoes' = Echoes
    <3>1. Take(<<"group", 0>>) /\ WireTyped
      BY DEF ApplyNews, BadgesInv
    <3>2. /\ events' \in Seq(EventShape)
          /\ News = News' \cup {x \in Message : <<"group", 0>> = <<"new", x>>}
          /\ Echoes = Echoes' \cup {x \in Message : <<"group", 0>> = <<"read", x>>}
      BY <3>1, Takes
    <3>3. QED BY <3>2
  <2>3. QED BY <2>1, <2>2, ForgottenIsSure DEF BadgesInv
<1>2. BadgesTyped'
  <2>1. RowsTyped'
    BY <1>1, BoundAssumption DEF BadgesInv, RowsTyped, ApplyNews, Take, Uncount
  <2>2. WireTyped'
    BY <1>1, BoundAssumption DEF BadgesInv, RowsTyped, WireTyped, ApplyNews, Take, Uncount
  <2>3. CallsTyped'
    BY <1>1, BoundAssumption DEF BadgesInv, RowsTyped, CallsTyped, ListsTyped, ApplyNews, Take,
       Uncount
  <2>4. EntryTyped'
    BY <1>1, BoundAssumption DEF BadgesInv, RowsTyped, EntryTyped, ApplyNews, Take, Uncount
  <2>5. FlagsTyped'
    BY <1>1, BoundAssumption DEF BadgesInv, RowsTyped, FlagsTyped, ApplyNews, Take, Uncount
  <2>6. QED BY <2>1, <2>2, <2>3, <2>4, <2>5 DEF BadgesTyped
<1>3. LoopsHaveAll'
  BY <1>1 DEF BadgesInv, LoopsHaveAll, ApplyNews, Take, Uncount
<1>4. ReadOnesAreShown'
  BY <1>1 DEF BadgesInv, ReadOnesAreShown, Sure, ApplyNews, Take, Uncount
<1>5. EntryIsSound'
  BY <1>1 DEF BadgesInv, EntryIsSound, ApplyNews, Take, Uncount
<1>6. NewOnesAreListed'
  BY <1>1 DEF BadgesInv, NewOnesAreListed, Sure, ApplyNews, Take, Uncount
<1>7. CountIsRight'
  BY <1>1 DEF BadgesInv, CountIsRight, Sure, ApplyNews, Take, Uncount
<1>8. QED BY <1>2, <1>3, <1>4, <1>5, <1>6, <1>7 DEF BadgesInv

(* The page has all messages sent so far. *)
LEMMA KeepPageKeeps ==
  ASSUME BadgesInv, KeepPage
  PROVE  BadgesInv'
<1> USE DEF rows, loops, link, net, calls, badge, entry, marks, ui, history, BadgesTyped, Message
<1>1. /\ News' = News /\ Echoes' = Echoes /\ Hands' = Hands /\ Seen' = Seen /\ ToRead' = ToRead
      /\ Paged' = Paged
  <2>1. News' = News /\ Echoes' = Echoes /\ Hands' = Hands /\ Seen' = Seen /\ ToRead' = ToRead
    BY Alone DEF KeepPage
  <2>2. Paged' = Paged
    BY DEF KeepPage, Paged, BadgesInv, RowsTyped
  <2>3. QED BY <2>1, <2>2
<1>2. BadgesTyped'
  <2>1. RowsTyped'
    BY <1>1, BoundAssumption DEF BadgesInv, RowsTyped, KeepPage
  <2>2. WireTyped'
    BY <1>1, BoundAssumption DEF BadgesInv, RowsTyped, WireTyped, KeepPage
  <2>3. CallsTyped'
    BY <1>1, BoundAssumption DEF BadgesInv, RowsTyped, CallsTyped, ListsTyped, KeepPage
  <2>4. EntryTyped'
    BY <1>1, BoundAssumption DEF BadgesInv, RowsTyped, EntryTyped, KeepPage
  <2>5. FlagsTyped'
    BY <1>1, BoundAssumption DEF BadgesInv, RowsTyped, FlagsTyped, KeepPage
  <2>6. QED BY <2>1, <2>2, <2>3, <2>4, <2>5 DEF BadgesTyped
<1>3. LoopsHaveAll'
  BY <1>1 DEF BadgesInv, LoopsHaveAll, KeepPage
<1>4. ReadOnesAreShown'
  BY <1>1 DEF BadgesInv, ReadOnesAreShown, Sure, KeepPage
<1>5. EntryIsSound'
  BY <1>1 DEF BadgesInv, EntryIsSound, KeepPage
<1>6. NewOnesAreListed'
  BY <1>1 DEF BadgesInv, NewOnesAreListed, Sure, KeepPage
<1>7. CountIsRight'
  BY <1>1 DEF BadgesInv, CountIsRight, Sure, KeepPage
<1>8. QED BY <1>2, <1>3, <1>4, <1>5, <1>6, <1>7 DEF BadgesInv

(* A page that is given up shows nothing: what was reported read for it is *)
(* let go.                                                                 *)
LEMMA DropPageKeeps ==
  ASSUME BadgesInv, DropPage
  PROVE  BadgesInv'
<1> USE DEF rows, loops, link, net, calls, badge, entry, marks, ui, history, BadgesTyped, Message
<1>1. /\ News' = News /\ Echoes' = Echoes /\ Hands' = Hands /\ Seen' = Seen
      /\ ToRead' = ToRead /\ Paged' = {} /\ (NoneForgotten => unread \subseteq Sure)
      /\ settled' = settled \cup {m \in 1 .. sent : m \notin unread \/ m \in ToRead \cup Seen}
  <2>1. News' = News /\ Echoes' = Echoes /\ Hands' = Hands /\ Seen' = Seen
    BY Alone DEF DropPage, GiveUp
  <2>2. Paged' = {}
    BY DEF DropPage, GiveUp, PageEnds, Idle, Paged
  <2>3. settled' = settled \cup {m \in 1 .. sent : m \notin unread \/ m \in ToRead \cup Seen}
    BY BoundAssumption DEF DropPage, GiveUp, ToRead, Seen, BadgesInv, RowsTyped
  <2>4. QED BY <2>1, <2>2, <2>3, Alone, ForgottenIsSure DEF DropPage, BadgesInv
<1>2. BadgesTyped'
  <2>1. RowsTyped'
    <3>1. 1 .. sent \subseteq Message /\ RowsTyped
      BY BoundAssumption DEF BadgesInv, RowsTyped
    <3>2. UNCHANGED <<rows, loops>>
      BY DEF DropPage, GiveUp
    <3>3. QED BY <1>1, <3>1, <3>2 DEF RowsTyped
  <2>2. WireTyped'
    BY <1>1, BoundAssumption DEF BadgesInv, RowsTyped, WireTyped, DropPage, GiveUp, PageEnds,
       Idle
  <2>3. CallsTyped'
    BY <1>1, BoundAssumption DEF BadgesInv, RowsTyped, CallsTyped, ListsTyped, DropPage, GiveUp,
       PageEnds, Idle
  <2>4. EntryTyped'
    BY <1>1, BoundAssumption DEF BadgesInv, RowsTyped, EntryTyped, DropPage, GiveUp, PageEnds,
       Idle
  <2>5. FlagsTyped'
    BY <1>1, BoundAssumption DEF BadgesInv, RowsTyped, FlagsTyped, DropPage, GiveUp, PageEnds,
       Idle
  <2>6. QED BY <2>1, <2>2, <2>3, <2>4, <2>5 DEF BadgesTyped
<1>3. LoopsHaveAll'
  BY <1>1 DEF BadgesInv, LoopsHaveAll, DropPage, GiveUp, PageEnds, Idle
<1>4. ReadOnesAreShown'
  BY <1>1 DEF BadgesInv, ReadOnesAreShown, Sure, DropPage, GiveUp, PageEnds, Idle
<1>5. EntryIsSound'
  BY <1>1 DEF BadgesInv, EntryIsSound, DropPage, GiveUp, PageEnds, Idle
<1>6. NewOnesAreListed'
  BY <1>1 DEF BadgesInv, NewOnesAreListed, Sure, DropPage, GiveUp, PageEnds, Idle
<1>7. CountIsRight'
  BY <1>1 DEF BadgesInv, CountIsRight, Sure, DropPage, GiveUp, PageEnds, Idle
<1>8. QED BY <1>2, <1>3, <1>4, <1>5, <1>6, <1>7 DEF BadgesInv

(* The messages of the page are shown, and the last is reported read. *)
LEMMA ApplyPageKeeps ==
  ASSUME BadgesInv, ApplyPage
  PROVE  BadgesInv'
<1> USE DEF rows, loops, link, net, calls, badge, entry, marks, ui, history, BadgesTyped, Message
<1>1. /\ News' = News /\ Echoes' = Echoes /\ Hands' = Hands /\ Seen' = Seen
      /\ Paged = 1 .. page.last /\ Paged' = {} /\ page.last \in 0 .. sent
      /\ ToRead' = ToRead \cup 1 .. page.last
      /\ UNCHANGED <<rows, loops, link, known, selected, lastId, override, acts, manual>>
      /\ 1 .. page.last \subseteq Message
      /\ settled' = settled \cup 1 .. page.last /\ page'.at = "idle"
      /\ hidden' \in {hidden, None} /\ hasLocal' \in BOOLEAN
      /\ page.last = 0 \/ page.last > 0
      /\ page.last = 0 => UNCHANGED <<lastAt, counted, again, clean>>
      /\ page.last > 0 => /\ lastAt' = page.last /\ counted' = {} /\ again' = 0
                          /\ clean' = (clean /\ \A m \in counted : m <= page.last)
  <2>1. News' = News /\ Echoes' = Echoes /\ Hands' = Hands /\ Seen' = Seen
    BY Alone DEF ApplyPage
  <2>2. Paged' = {}
    BY DEF ApplyPage, PageEnds, Idle, Paged
  <2>3. page.last \in 0 .. sent /\ Paged = 1 .. page.last
    BY BoundAssumption DEF ApplyPage, Paged, BadgesInv, CallsTyped, RowsTyped
  <2>4. ToRead' = ToRead \cup 1 .. page.last
    <3>1. CASE page.last > 0
      <4>1. reads' = reads \cup {page.last}
        BY <3>1 DEF ApplyPage
      <4>2. QED BY <2>3, <4>1, BoundAssumption DEF ToRead, BadgesInv, RowsTyped
    <3>2. CASE ~(page.last > 0)
      BY <2>3, <3>2, Alone DEF ApplyPage
    <3>3. QED BY <3>1, <3>2
  <2>5. /\ UNCHANGED <<rows, loops, link, known, selected, lastId, override, acts, manual>>
        /\ settled' = settled \cup 1 .. page.last /\ page'.at = "idle" /\ hidden' \in {hidden, None}
        /\ hasLocal' \in BOOLEAN
    BY <2>3 DEF ApplyPage, PageEnds, Idle, Unhide
  <2>6. page.last = 0 => UNCHANGED <<lastAt, counted, again, clean>>
    BY DEF ApplyPage
  <2>7. page.last > 0 => /\ lastAt' = page.last /\ counted' = {} /\ again' = 0
                         /\ clean' = (clean /\ \A m \in counted : m <= page.last)
    BY DEF ApplyPage, Uncount, NoneAfter
  <2>8. 1 .. page.last \subseteq Message
    BY <2>3, BoundAssumption DEF BadgesInv, RowsTyped
  <2>9. page.last = 0 \/ page.last > 0
    BY <2>3, BoundAssumption DEF BadgesInv, RowsTyped
  <2>10. QED BY <2>1, <2>2, <2>3, <2>4, <2>5, <2>6, <2>7, <2>8, <2>9
<1>2. BadgesTyped'
  <2>1. RowsTyped'
    BY <1>1, BoundAssumption DEF BadgesInv, RowsTyped
  <2>2. WireTyped'
    BY <1>1, BoundAssumption DEF BadgesInv, WireTyped, ApplyPage, PageEnds, Idle, Uncount,
       Unhide, NoneAfter
  <2>3. CallsTyped'
    BY <1>1, BoundAssumption DEF BadgesInv, RowsTyped, CallsTyped, ListsTyped, ApplyPage,
       PageEnds, Idle, Uncount, Unhide, NoneAfter
  <2>4. EntryTyped'
    <3>1. EntryTyped /\ sent' = sent /\ sent \in Nat
      BY <1>1, BoundAssumption DEF BadgesInv, RowsTyped
    <3>2. counted' \subseteq 1 .. sent
      <4>1. counted' = counted \/ counted' = {}
        BY <1>1
      <4>2. QED BY <3>1, <4>1 DEF EntryTyped
    <3>3. again' \in Nat
      BY <1>1, <3>1 DEF EntryTyped
    <3>4. lastAt' \in 0 .. sent /\ lastId' \in 0 .. sent
      BY <1>1, <3>1 DEF EntryTyped
    <3>5. override' \in Nat \cup {None} /\ hidden' \in 0 .. sent \cup {None} /\ acts' \in Nat
      BY <1>1, <3>1 DEF EntryTyped
    <3>6. QED BY <3>1, <3>2, <3>3, <3>4, <3>5 DEF EntryTyped
  <2>5. FlagsTyped'
    <3>1. FlagsTyped
      BY DEF BadgesInv
    <3>2. clean' \in BOOLEAN
      <4>1. CASE page.last = 0
        BY <1>1, <3>1, <4>1 DEF FlagsTyped
      <4>2. CASE page.last > 0
        BY <1>1, <4>2
      <4>3. QED BY <1>1, <4>1, <4>2
    <3>3. /\ known' \in BOOLEAN /\ hasLocal' \in BOOLEAN /\ selected' \in BOOLEAN
          /\ manual' \in BOOLEAN
      BY <1>1, <3>1 DEF FlagsTyped
    <3>4. QED BY <3>2, <3>3 DEF FlagsTyped
  <2>6. QED BY <2>1, <2>2, <2>3, <2>4, <2>5 DEF BadgesTyped
<1>3. LoopsHaveAll'
  BY <1>1 DEF BadgesInv, LoopsHaveAll
<1>4. ReadOnesAreShown'
  BY <1>1 DEF BadgesInv, ReadOnesAreShown, Sure
<1>5. EntryIsSound'
  <2>1. /\ UNCHANGED <<unread, lastId, known, Echoes>> /\ counted' \subseteq counted
        /\ hidden' \in {hidden, None}
    BY <1>1, BoundAssumption DEF BadgesInv, RowsTyped
  <2>2. QED BY <2>1 DEF BadgesInv, EntryIsSound
<1>6. NewOnesAreListed'
  <2>1. UNCHANGED <<unread, undelivered>> /\ hidden' \in {hidden, None}
    BY <1>1
  <2>2. clean' => clean
    BY <1>1
  <2>3. QED BY <1>1, <2>1, <2>2 DEF BadgesInv, NewOnesAreListed, Sure
<1>7. CountIsRight'
  <2>1. CASE page.last = 0
    <3>1. /\ Paged = {}
          /\ UNCHANGED <<unread, undelivered, known, counted, again, lastAt, clean, pushing,
                        backlog>>
      BY <1>1, <2>1
    <3>2. page'.at # "asked" /\ ToRead \subseteq ToRead'
      BY <1>1
    <3>3. QED BY <1>1, <3>1, <3>2 DEF BadgesInv, CountIsRight, Sure
  <2>2. CASE page.last > 0
    <3>1. counted' = {} /\ again' = 0 /\ UNCHANGED <<unread, undelivered, known>>
      BY <1>1, <2>2
    <3>2. ASSUME clean' PROVE clean /\ counted \subseteq ToRead' /\ Paged \subseteq ToRead'
      <4>1. clean /\ \A m \in counted : m <= page.last
        BY <1>1, <2>2, <3>2
      <4>2. ASSUME NEW m \in counted PROVE m \in 1 .. page.last
        BY <1>1, <4>1, BoundAssumption DEF BadgesInv, EntryTyped, RowsTyped
      <4>3. QED BY <1>1, <4>1, <4>2
    <3>3. QED BY <1>1, <3>1, <3>2 DEF BadgesInv, CountIsRight, Sure
  <2>3. QED BY <1>1, <2>1, <2>2
<1>8. QED BY <1>2, <1>3, <1>4, <1>5, <1>6, <1>7 DEF BadgesInv

(* Messages of the cache take the place of the page, and nothing is        *)
(* reported.                                                               *)
LEMMA PageFailsKeeps ==
  ASSUME BadgesInv, PageFails
  PROVE  BadgesInv'
<1> USE DEF rows, loops, link, net, calls, badge, entry, marks, ui, history, BadgesTyped, Message
<1>1. /\ News' = News /\ Echoes' = Echoes /\ Hands' = Hands /\ Seen' = Seen
      /\ ToRead' = ToRead /\ Paged' = {} /\ (NoneForgotten => unread \subseteq Sure)
  <2>1. News' = News /\ Echoes' = Echoes /\ Hands' = Hands /\ Seen' = Seen
    BY Alone DEF PageFails
  <2>2. Paged' = {}
    BY DEF PageFails, PageEnds, Idle, Paged
  <2>3. QED BY <2>1, <2>2, Alone, ForgottenIsSure DEF PageFails, BadgesInv
<1>2. BadgesTyped'
  <2>1. RowsTyped'
    BY <1>1, BoundAssumption DEF BadgesInv, RowsTyped, PageFails, Act, PageEnds, Idle, Unhide
  <2>2. WireTyped'
    BY <1>1, BoundAssumption DEF BadgesInv, WireTyped, PageFails, Act, PageEnds, Idle, Unhide
  <2>3. CallsTyped'
    BY <1>1, BoundAssumption DEF BadgesInv, RowsTyped, CallsTyped, ListsTyped, PageFails, Act,
       PageEnds, Idle, Unhide
  <2>4. EntryTyped'
    BY <1>1, BoundAssumption DEF BadgesInv, RowsTyped, EntryTyped, PageFails, Act, PageEnds,
       Idle, Unhide
  <2>5. FlagsTyped'
    BY <1>1, BoundAssumption DEF BadgesInv, FlagsTyped, PageFails, Act, PageEnds, Idle, Unhide
  <2>6. QED BY <2>1, <2>2, <2>3, <2>4, <2>5 DEF BadgesTyped
<1>3. LoopsHaveAll'
  BY <1>1 DEF BadgesInv, LoopsHaveAll, PageFails, Act, PageEnds, Idle, Unhide
<1>4. ReadOnesAreShown'
  BY <1>1 DEF BadgesInv, ReadOnesAreShown, Sure, PageFails, Act, PageEnds, Idle, Unhide
<1>5. EntryIsSound'
  BY <1>1 DEF BadgesInv, EntryIsSound, PageFails, Act, PageEnds, Idle, Unhide
<1>6. NewOnesAreListed'
  BY <1>1 DEF BadgesInv, NewOnesAreListed, Sure, PageFails, Act, PageEnds, Idle, Unhide
<1>7. CountIsRight'
  BY <1>1 DEF BadgesInv, CountIsRight, Sure, PageFails, Act, PageEnds, Idle, Unhide
<1>8. QED BY <1>2, <1>3, <1>4, <1>5, <1>6, <1>7 DEF BadgesInv

(* What the user waves through is let go, up to the last message of the    *)
(* entry.                                                                  *)
LEMMA MarkConversationReadKeeps ==
  ASSUME BadgesInv, MarkConversationRead
  PROVE  BadgesInv'
<1> USE DEF rows, loops, link, net, calls, badge, entry, marks, ui, history, BadgesTyped, Message
<1>1. /\ News' = News /\ Echoes' = Echoes /\ Hands' = Hands /\ Seen' = Seen /\ Paged' = Paged
      /\ ToRead' = ToRead \cup 1 .. lastId /\ lastId \in 0 .. sent /\ 1 .. lastId \subseteq Message
      /\ UNCHANGED <<rows, loops, link, known, selected, lastId, lastAt, page, hidden, hasLocal>>
      /\ settled' = settled \cup 1 .. lastId /\ manual' = FALSE /\ override' \in Nat
      /\ acts' \in Nat
      /\ lastId = 0 => UNCHANGED <<counted, again, clean>>
      /\ lastId # 0 => counted' = {} /\ again' = 0
                         /\ clean' = (clean /\ \A m \in counted : m <= lastId)
  <2>1. News' = News /\ Echoes' = Echoes /\ Hands' = Hands /\ Seen' = Seen /\ Paged' = Paged
    BY Alone DEF MarkConversationRead
  <2>2. lastId \in 0 .. sent /\ 1 .. lastId \subseteq Message
    BY BoundAssumption DEF BadgesInv, EntryTyped, RowsTyped
  <2>3. ToRead' = ToRead \cup 1 .. lastId
    <3>1. CASE lastId # 0
      <4>1. reads' = reads \cup {lastId}
        BY <3>1 DEF MarkConversationRead
      <4>2. QED BY <2>2, <4>1 DEF ToRead
    <3>2. CASE lastId = 0
      BY <2>2, <3>2, Alone DEF MarkConversationRead
    <3>3. QED BY <3>1, <3>2
  <2>4. /\ UNCHANGED <<rows, loops, link, known, selected, lastId, lastAt, page, hidden, hasLocal>>
        /\ manual' = FALSE /\ override' = sent
    BY DEF MarkConversationRead
  <2>5. lastId = 0 => UNCHANGED <<counted, again, clean, settled>>
    BY DEF MarkConversationRead
  <2>6. lastId # 0 => /\ counted' = {} /\ again' = 0 /\ settled' = settled \cup 1 .. lastId
                      /\ clean' = (clean /\ \A m \in counted : m <= lastId)
    BY DEF MarkConversationRead, Uncount, NoneAfter
  <2>7. settled' = settled \cup 1 .. lastId
    BY <2>2, <2>5, <2>6
  <2>8. override' \in Nat /\ acts' \in Nat
    BY <2>4 DEF MarkConversationRead, Act, BadgesInv, EntryTyped, RowsTyped
  <2>9. QED BY <2>1, <2>2, <2>3, <2>4, <2>5, <2>6, <2>7, <2>8
<1>2. BadgesTyped'
  <2>1. RowsTyped'
    BY <1>1, BoundAssumption DEF BadgesInv, RowsTyped
  <2>2. WireTyped'
    BY <1>1, BoundAssumption DEF BadgesInv, WireTyped, MarkConversationRead, Act, Listed,
       Uncount, NoneAfter
  <2>3. CallsTyped'
    BY <1>1, BoundAssumption DEF BadgesInv, CallsTyped, ListsTyped, MarkConversationRead, Act,
       Listed, Uncount, NoneAfter
  <2>4. EntryTyped'
    <3>1. EntryTyped /\ sent' = sent /\ sent \in Nat
      BY <1>1, BoundAssumption DEF BadgesInv, RowsTyped
    <3>2. counted' \subseteq 1 .. sent
      BY <1>1, <3>1 DEF EntryTyped
    <3>3. again' \in Nat
      BY <1>1, <3>1 DEF EntryTyped
    <3>4. lastAt' \in 0 .. sent /\ lastId' \in 0 .. sent
      BY <1>1, <3>1 DEF EntryTyped
    <3>5. override' \in Nat \cup {None} /\ hidden' \in 0 .. sent \cup {None} /\ acts' \in Nat
      BY <1>1, <3>1 DEF EntryTyped
    <3>6. QED BY <3>1, <3>2, <3>3, <3>4, <3>5 DEF EntryTyped
  <2>5. FlagsTyped'
    BY <1>1 DEF BadgesInv, FlagsTyped
  <2>6. QED BY <2>1, <2>2, <2>3, <2>4, <2>5 DEF BadgesTyped
<1>3. LoopsHaveAll'
  BY <1>1 DEF BadgesInv, LoopsHaveAll
<1>4. ReadOnesAreShown'
  BY <1>1 DEF BadgesInv, ReadOnesAreShown, Sure
<1>5. EntryIsSound'
  BY <1>1 DEF BadgesInv, EntryIsSound
<1>6. NewOnesAreListed'
  BY <1>1 DEF BadgesInv, NewOnesAreListed, Sure
<1>7. CountIsRight'
  <2>1. CASE lastId = 0
    BY <1>1, <2>1 DEF BadgesInv, CountIsRight, Sure
  <2>2. CASE lastId # 0
    <3>1. counted' = {} /\ again' = 0 /\ UNCHANGED <<unread, undelivered, known>>
      BY <1>1, <2>2
    <3>2. ASSUME clean' PROVE clean /\ counted \subseteq ToRead'
      <4>1. clean /\ \A m \in counted : m <= lastId
        BY <1>1, <2>2, <3>2
      <4>2. ASSUME NEW m \in counted PROVE m \in 1 .. lastId
        BY <1>1, <4>1, BoundAssumption DEF BadgesInv, EntryTyped, RowsTyped
      <4>3. QED BY <1>1, <4>1, <4>2
    <3>3. QED BY <1>1, <3>1, <3>2 DEF BadgesInv, CountIsRight, Sure
  <2>3. QED BY <2>1, <2>2
<1>8. QED BY <1>2, <1>3, <1>4, <1>5, <1>6, <1>7 DEF BadgesInv

-----------------------------------------------------------------------------
(* The invariant, and what follows from it                                 *)

(* The invariant holds when the client has just loaded its list. *)
LEMMA BadgesInit == Init => BadgesInv
<1> SUFFICES ASSUME Init PROVE BadgesInv
  OBVIOUS
<1> USE DEF Message
<1>1. News = {} /\ Echoes = {} /\ Hands = {} /\ Seen = {} /\ ToRead = {} /\ Paged = {}
  <2>1. \A x : ~Contains(events, x)
    BY DEF Init, Contains
  <2>2. handling = {} /\ reads = {} /\ page.at = "idle"
    BY DEF Init, Idle
  <2>3. QED BY <2>1, <2>2 DEF News, Echoes, Hands, Seen, ToRead, Paged
<1>2. /\ sent \in Nat /\ sent \in {0, 1} /\ unread = 1 .. sent /\ counted = unread
      /\ lastAt = sent /\ lastId = sent
  BY DEF Init
<1>3. BadgesTyped
  <2>1. RowsTyped
    BY BoundAssumption DEF Init, RowsTyped, Time
  <2>2. WireTyped
    <3>1. events \in Seq(EventShape)
      BY DEF Init
    <3>2. QED BY <1>1, <3>1 DEF Init, WireTyped
  <2>3. CallsTyped
    BY DEF Init, CallsTyped, ListsTyped, Idle
  <2>4. EntryTyped
    BY DEF Init, EntryTyped
  <2>5. FlagsTyped
    BY DEF Init, FlagsTyped
  <2>6. QED BY <2>1, <2>2, <2>3, <2>4, <2>5 DEF BadgesTyped
<1>4. LoopsHaveAll
  BY DEF Init, LoopsHaveAll
<1>5. ReadOnesAreShown
  BY <1>1 DEF Init, ReadOnesAreShown
<1>6. EntryIsSound
  BY <1>1, <1>2 DEF Init, EntryIsSound
<1>7. NewOnesAreListed
  BY DEF Init, NewOnesAreListed
<1>8. CountIsRight
  BY <1>1, <1>2 DEF Init, CountIsRight, Idle
<1>9. QED BY <1>3, <1>4, <1>5, <1>6, <1>7, <1>8 DEF BadgesInv

(* Every step of Badges keeps the invariant. *)
LEMMA BadgesStep == BadgesInv /\ [Next]_vars => BadgesInv'
<1> SUFFICES ASSUME BadgesInv, [Next]_vars PROVE BadgesInv'
  OBVIOUS
<1>1. CASE Server
  <2>1. CASE \E m \in Message : SendPush(m) \/ MarkRead(m)
    BY <2>1, SendPushKeeps, MarkReadKeeps
  <2>2. CASE \E i \in DOMAIN lists : ListConversations(i)
    BY <2>2, ListConversationsKeeps
  <2>3. QED
    BY <1>1, <2>1, <2>2, PeerSendsKeeps, RegisterKeeps, ListUndeliveredKeeps, BacklogPushKeeps,
       UnregisterKeeps, GroupNewsKeeps DEF Server
<1>2. CASE Client
  <2>1. CASE \E k \in Time : Drop(k)
    BY <2>1, DropKeeps
  <2>2. CASE \E i \in DOMAIN lists : ApplyList(i) \/ ListFails(i)
    BY <2>2, ApplyListKeeps, ListFailsKeeps
  <2>3. CASE \E m \in Message : TakeNew(m) \/ ApplyRead(m)
    BY <2>3, TakeNewKeeps, ApplyReadKeeps
  <2>4. CASE \E h \in handling : ApplyNew(h)
    BY <2>4, ApplyNewKeeps
  <2>5. QED
    BY <1>2, <2>1, <2>2, <2>3, <2>4, ReconnectKeeps, MountKeeps, ApplyNewsKeeps, KeepPageKeeps,
       DropPageKeeps, ApplyPageKeeps, PageFailsKeeps, OpenedAgainKeeps DEF Client
<1>3. CASE User
  BY <1>3, ActivateKeeps, OpenDirectKeeps, CloseKeeps, MarkConversationUnreadKeeps,
     MarkConversationReadKeeps, HideConversationKeeps DEF User
<1>4. CASE UNCHANGED vars
  <2> USE DEF vars, rows, loops, link, net, calls, badge, entry, marks, ui, history
  <2>1. /\ News' = News /\ Echoes' = Echoes /\ Hands' = Hands /\ Seen' = Seen /\ ToRead' = ToRead
        /\ Paged' = Paged
    BY <1>4, Alone
  <2>2. BadgesTyped'
    BY <1>4, <2>1 DEF BadgesInv, BadgesTyped, RowsTyped, WireTyped, CallsTyped, ListsTyped,
       EntryTyped, FlagsTyped
  <2>3. LoopsHaveAll' /\ ReadOnesAreShown' /\ EntryIsSound' /\ NewOnesAreListed' /\ CountIsRight'
    BY <1>4, <2>1 DEF BadgesInv, LoopsHaveAll, ReadOnesAreShown, EntryIsSound, NewOnesAreListed,
       CountIsRight, Sure
  <2>4. QED BY <2>2, <2>3 DEF BadgesInv
<1>5. QED BY <1>1, <1>2, <1>3, <1>4 DEF Next

(* What the entry says, and what becomes of the messages that it counts,   *)
(* stays so: the invariant of Badges.                                      *)
THEOREM BadgesAreInvariant == Spec => []BadgesInv
<1>1. QED BY BadgesInit, BadgesStep, PTL DEF Spec

(* The variables of Badges have the values that they are meant to have,    *)
(* whatever is lost or comes late.                                         *)
THEOREM BadgesTypeCorrect == Spec => []BadgesTyped
<1>1. BadgesInv => BadgesTyped
  BY DEF BadgesInv
<1>2. QED BY <1>1, BadgesAreInvariant, PTL

(* When all is quiet there is nothing on its way. *)
LEMMA NothingIsUnderWay ==
  ASSUME BadgesInv, Quiet
  PROVE  /\ Sure = {} /\ Echoes = {} /\ ToRead = {} /\ Seen = {} /\ Paged = {}
         /\ pushing = {} /\ backlog = {}
<1>1. \A x : ~Contains(events, x)
  BY DEF Quiet, Contains
<1>2. News = {} /\ Echoes = {} /\ Hands = {} /\ ToRead = {} /\ Seen = {} /\ Paged = {}
  BY <1>1 DEF Quiet, News, Echoes, Hands, ToRead, Seen, Paged
<1>3. pushing = {} /\ backlog = {} /\ undelivered = {}
  BY DEF Quiet, BadgesInv, LoopsHaveAll
<1>4. QED BY <1>2, <1>3 DEF Sure

(* What its sender sees as read was among the messages of the client, or   *)
(* was let go in one of the ways that the model names.                     *)
THEOREM ReadMessagesWereShown == Spec => []ReadWasShown
<1>1. ASSUME BadgesInv, Quiet, NEW m \in 1 .. sent PROVE m \in unread \cup settled
  BY <1>1, NothingIsUnderWay DEF BadgesInv, ReadOnesAreShown
<1>2. BadgesInv => ReadWasShown
  BY <1>1 DEF ReadWasShown
<1>3. QED BY <1>2, BadgesAreInvariant, PTL

(* A conversation that was removed from the list is back when a message    *)
(* has come that was sent after that.                                      *)
THEOREM RemovedComesBack == Spec => []HiddenComesBack
<1>1. BadgesInv => HiddenComesBack
  BY NothingIsUnderWay DEF HiddenComesBack, BadgesInv, NewOnesAreListed
<1>2. QED BY <1>1, BadgesAreInvariant, PTL

(* When all is quiet and nothing has overlapped since the list was loaded, *)
(* the badge is the number of the messages that are unread.                *)
THEOREM QuietBadgesAreRight == Spec => []QuietBadgeIsRight
<1>1. ASSUME BadgesInv, Quiet, clean, Listed, ~selected
      PROVE  \/ Displayed = Cardinality(unread)
             \/ manual /\ unread = {} /\ Displayed = 1
             \/ Displayed = 0 /\ override # None /\ \A m \in unread : m <= override
  <2>1. counted = unread /\ again = 0
    BY <1>1, NothingIsUnderWay DEF Listed, BadgesInv, CountIsRight
  <2>2. IsFiniteSet(unread)
    <3>1. sent \in Nat /\ unread \subseteq 1 .. sent
      BY <1>1, BoundAssumption DEF BadgesInv, BadgesTyped, RowsTyped
    <3>2. IsFiniteSet(1 .. sent)
      BY <3>1, FS_Interval
    <3>3. QED BY <3>1, <3>2, FS_Subset
  <2>3. Cardinality(unread) \in Nat /\ (Cardinality(unread) = 0 <=> unread = {})
    BY <2>2, FS_CardinalityType, FS_EmptySet
  <2>4. Unread = Cardinality(unread)
    BY <2>1, <2>3 DEF Unread
  <2>5. CASE ~hasLocal /\ lastId = 0
    <3>1. counted = {}
      BY <1>1, <2>5 DEF BadgesInv, EntryIsSound
    <3>2. QED BY <2>1, <2>3, <2>5, <3>1 DEF Displayed
  <2>6. CASE ~(~hasLocal /\ lastId = 0) /\ manual
    <3>1. Displayed = Max({1, Unread})
      BY <2>6 DEF Displayed
    <3>2. CASE unread = {}
      <4>1. {1, Unread} = {1, 0}
        BY <2>3, <2>4, <3>2
      <4>2. Max({1, 0}) = 1
        BY DEF Max
      <4>3. QED BY <2>6, <3>1, <3>2, <4>1, <4>2
    <3>3. CASE unread # {}
      <4>1. Unread \in Nat /\ Unread >= 1
        BY <2>3, <2>4, <3>3
      <4>2. Max({1, Unread}) = Unread
        BY <4>1 DEF Max
      <4>3. QED BY <2>4, <3>1, <4>2
    <3>4. QED BY <3>2, <3>3
  <2>7. CASE ~(~hasLocal /\ lastId = 0) /\ ~manual /\ override # None /\ lastAt <= override
    <3>1. Displayed = 0
      BY <2>7 DEF Displayed
    <3>2. ASSUME NEW m \in unread PROVE m <= override
      <4>1. m <= lastAt
        BY <1>1, <2>1 DEF BadgesInv, CountIsRight
      <4>2. m \in Nat /\ lastAt \in Nat /\ override \in Nat
        BY <1>1, <2>7, BoundAssumption DEF BadgesInv, BadgesTyped, RowsTyped, EntryTyped
      <4>3. QED BY <2>7, <4>1, <4>2
    <3>3. QED BY <2>7, <3>1, <3>2
  <2>8. CASE ~(~hasLocal /\ lastId = 0) /\ ~manual /\ ~(override # None /\ lastAt <= override)
    BY <2>4, <2>8 DEF Displayed
  <2>9. QED BY <2>5, <2>6, <2>7, <2>8
<1>2. BadgesInv => QuietBadgeIsRight
  BY <1>1 DEF QuietBadgeIsRight
<1>3. QED BY <1>2, BadgesAreInvariant, PTL

-----------------------------------------------------------------------------
(* Delivery                                                                *)

(* The loops of Delivery push to the first they have left, too. *)
LEMMA FirstIsMin ==
  ASSUME NEW S \in SUBSET Nat, S # {}
  PROVE  D!Min(S) \in S /\ \A x \in S : D!Min(S) <= x
<1>1. D!Min(S) = Min(S)
  BY DEF Min, D!Min
<1>2. QED BY <1>1, MinIsFirst

(* A socket gets beyond "idle" by registering for a receiver. *)
ActiveAreOwned == \A k \in Socket : step[k] # "idle" => owner[k] \in D!Receiver

(* The socket in the registry has registered for that receiver. *)
CurrentIsOwned ==
  \A r \in D!Receiver :
    current[r] # None => owner[current[r]] = r /\ step[current[r]] # "idle"

(* A loop that pushes or marks has something to push or mark. *)
MarkedIsFirst ==
  /\ \A m \in D!Message : sendStep[m] = "mark" => left[m] # {}
  /\ \A k \in Socket : step[k] = "mark" => pending[k] # {}
  /\ \A k \in Socket : step[k] \notin {"push", "mark"} => pending[k] = {}

(* A loop knows of no message before its query. *)
ListedAfterQuery ==
  \A k \in Socket : step[k] \in {"idle", "start", "list"} => listed[k] = {}

(* A message the loop of k has listed is left to it or out of its hands. *)
ListedAreServed ==
  \A k \in Socket : \A m \in listed[k] :
    step[k] \in {"push", "mark", "done"} =>
      m \in pending[k] \/ <<m, owner[k]>> \in delivered \cup read

(* A message that was committed after the query of the registered socket   *)
(* finds that socket when its own loop comes to the receiver.              *)
LaterAreServed ==
  \A r \in D!Receiver : \A m \in D!Committed : \A k \in Socket :
    current[r] = k /\ step[k] \in {"push", "mark", "done"} /\ m \notin listed[k] =>
      \/ sendStep[m] \in {"push", "mark"} /\ r \in left[m]
      \/ sendStep[m] = "failed"
      \/ <<m, r>> \in delivered \cup read

DeliveryInv ==
  /\ D!TypeOK
  /\ ActiveAreOwned
  /\ CurrentIsOwned
  /\ MarkedIsFirst
  /\ ListedAfterQuery
  /\ ListedAreServed
  /\ LaterAreServed

(* The first of a set of messages or receivers is in it. *)
LEMMA FirstMessage ==
  ASSUME NEW S \in SUBSET D!Message, S # {} PROVE D!Min(S) \in S
  BY FirstIsMin, S \in SUBSET Nat DEF D!Message

(* And the first of a set of receivers. *)
LEMMA FirstReceiver ==
  ASSUME NEW S \in SUBSET D!Receiver, S # {}
  PROVE  D!Min(S) \in S /\ \A r \in S : D!Min(S) <= r
  BY FirstIsMin, S \in SUBSET Nat DEF D!Receiver

-----------------------------------------------------------------------------
(* Each action keeps the invariant.  The conjuncts it cannot disturb come   *)
(* last: none of their variables changes.                                  *)

(* A step of SendCommit keeps the inductive invariant.                     *)
LEMMA SendCommitKeeps ==
  ASSUME DeliveryInv, NEW m \in D!Message, D!SendCommit(m)
  PROVE  DeliveryInv'
<1>1. D!TypeOK'
  BY SocketAssumption, BoundAssumption, CountsAssumption DEF DeliveryInv, D!TypeOK,
    D!LoopStep, D!SendStep, D!SendCommit, D!registry, D!loops, D!receipts
<1>2. MarkedIsFirst'
  BY SocketAssumption, BoundAssumption, CountsAssumption DEF DeliveryInv, D!TypeOK,
    MarkedIsFirst, D!LoopStep, D!SendStep, D!SendCommit, D!registry, D!loops, D!receipts
<1>3. LaterAreServed'
  BY SocketAssumption, BoundAssumption, CountsAssumption DEF DeliveryInv, D!TypeOK,
    LaterAreServed, D!Committed, D!LoopStep, D!SendStep, D!SendCommit, D!registry,
    D!loops, D!receipts
<1>4. /\ ActiveAreOwned' /\ CurrentIsOwned' /\ ListedAfterQuery' /\ ListedAreServed'
  BY DEF DeliveryInv, ActiveAreOwned, CurrentIsOwned, ListedAfterQuery,
    ListedAreServed, D!SendCommit, D!registry, D!loops, D!receipts
<1>5. QED
  BY <1>1, <1>2, <1>3, <1>4 DEF DeliveryInv

(* A step of SendPush keeps the inductive invariant.                       *)
LEMMA DeliverySendPushKeeps ==
  ASSUME DeliveryInv, NEW m \in D!Message, D!SendPush(m)
  PROVE  DeliveryInv'
<1>1. D!TypeOK'
  <2>1. D!Connected(m) \in SUBSET D!Receiver /\ D!Connected(m) # {}
    BY DEF D!SendPush, D!Connected, DeliveryInv, D!TypeOK
  <2>2. D!Min(D!Connected(m)) \in D!Receiver
    BY <2>1, FirstReceiver
  <2>3. QED
    BY <2>2 DEF D!SendPush, D!Emitted, DeliveryInv, D!TypeOK, D!SendStep, D!registry,
      D!loops
<1>2. MarkedIsFirst'
  <2>1. D!Min(D!Connected(m)) \in left[m] /\ D!Min(D!Connected(m)) \in D!Receiver
    BY FirstReceiver DEF D!SendPush, D!Connected, DeliveryInv, D!TypeOK
  <2>2. D!Min(D!Connected(m)) \in Nat
    BY <2>1 DEF D!Receiver
  <2>3. QED
    BY <2>1, <2>2 DEF D!SendPush, DeliveryInv, D!TypeOK, D!SendStep, MarkedIsFirst, D!loops
<1>3. LaterAreServed'
  <2>1. \A r \in D!Connected(m) : r >= D!Min(D!Connected(m))
    BY FirstReceiver DEF D!SendPush, D!Connected, D!Receiver, DeliveryInv, D!TypeOK
  <2>2. \A r \in D!Receiver, k \in Socket :
          current[r] = k /\ r \in left[m] => r \in left'[m]
    BY <2>1, SocketAssumption DEF D!SendPush, D!Connected, DeliveryInv, D!TypeOK
  <2>3. QED
    BY <2>2 DEF D!SendPush, DeliveryInv, D!TypeOK, D!SendStep, LaterAreServed,
      D!Committed, D!registry, D!loops
<1>4. /\ ActiveAreOwned' /\ CurrentIsOwned' /\ ListedAfterQuery' /\ ListedAreServed'
  BY DEF DeliveryInv, ActiveAreOwned, CurrentIsOwned, ListedAfterQuery,
    ListedAreServed, D!SendPush, D!Connected, D!registry, D!loops
<1>5. QED
  BY <1>1, <1>2, <1>3, <1>4 DEF DeliveryInv

(* A step of SendMark keeps the inductive invariant.                       *)
LEMMA SendMarkKeeps ==
  ASSUME DeliveryInv, NEW m \in D!Message, D!SendMark(m)
  PROVE  DeliveryInv'
<1>1. D!TypeOK'
  <2>1. D!Min(left[m]) \in D!Receiver
    BY FirstReceiver DEF D!SendMark, DeliveryInv, D!TypeOK, MarkedIsFirst
  <2>2. QED
    BY <2>1 DEF D!SendMark, D!MarkDelivered, DeliveryInv, D!TypeOK, D!SendStep,
      D!registry, D!loops
<1>2. MarkedIsFirst'
  BY SocketAssumption, BoundAssumption, CountsAssumption DEF DeliveryInv, D!TypeOK,
    MarkedIsFirst, D!LoopStep, D!SendStep, D!SendMark, D!MarkDelivered, D!registry,
    D!loops
<1>3. ListedAreServed'
  BY SocketAssumption, BoundAssumption, CountsAssumption DEF DeliveryInv, D!TypeOK,
    ListedAreServed, D!LoopStep, D!SendStep, D!SendMark, D!MarkDelivered, D!registry,
    D!loops
<1>4. LaterAreServed'
  BY SocketAssumption, BoundAssumption, CountsAssumption DEF DeliveryInv, D!TypeOK,
    LaterAreServed, D!Committed, D!LoopStep, D!SendStep, D!SendMark, D!MarkDelivered,
    D!registry, D!loops
<1>5. /\ ActiveAreOwned' /\ CurrentIsOwned' /\ ListedAfterQuery'
  BY DEF DeliveryInv, ActiveAreOwned, CurrentIsOwned, ListedAfterQuery, D!SendMark,
    D!MarkDelivered, D!registry, D!loops
<1>6. QED
  BY <1>1, <1>2, <1>3, <1>4, <1>5 DEF DeliveryInv

(* A step of SendFinish keeps the inductive invariant.                     *)
LEMMA SendFinishKeeps ==
  ASSUME DeliveryInv, NEW m \in D!Message, D!SendFinish(m)
  PROVE  DeliveryInv'
<1>1. D!TypeOK'
  BY SocketAssumption, BoundAssumption, CountsAssumption DEF DeliveryInv, D!TypeOK,
    D!LoopStep, D!SendStep, D!SendFinish, D!Connected, D!registry, D!loops, D!receipts
<1>2. MarkedIsFirst'
  BY SocketAssumption, BoundAssumption, CountsAssumption DEF DeliveryInv, D!TypeOK,
    MarkedIsFirst, D!LoopStep, D!SendStep, D!SendFinish, D!Connected, D!registry, D!loops,
    D!receipts
<1>3. LaterAreServed'
  BY SocketAssumption, BoundAssumption, CountsAssumption DEF DeliveryInv, D!TypeOK,
    LaterAreServed, D!Committed, D!LoopStep, D!SendStep, D!SendFinish, D!Connected,
    D!registry, D!loops, D!receipts
<1>4. /\ ActiveAreOwned' /\ CurrentIsOwned' /\ ListedAfterQuery' /\ ListedAreServed'
  BY DEF DeliveryInv, ActiveAreOwned, CurrentIsOwned, ListedAfterQuery,
    ListedAreServed, D!SendFinish, D!Connected, D!registry, D!loops, D!receipts
<1>5. QED
  BY <1>1, <1>2, <1>3, <1>4 DEF DeliveryInv

(* A step of SendFail keeps the inductive invariant.                       *)
LEMMA SendFailKeeps ==
  ASSUME DeliveryInv, NEW m \in D!Message, D!SendFail(m)
  PROVE  DeliveryInv'
<1>1. D!TypeOK'
  BY SocketAssumption, BoundAssumption, CountsAssumption DEF DeliveryInv, D!TypeOK,
    D!LoopStep, D!SendStep, D!SendFail, D!registry, D!loops, D!receipts
<1>2. MarkedIsFirst'
  BY SocketAssumption, BoundAssumption, CountsAssumption DEF DeliveryInv, D!TypeOK,
    MarkedIsFirst, D!LoopStep, D!SendStep, D!SendFail, D!registry, D!loops, D!receipts
<1>3. LaterAreServed'
  BY SocketAssumption, BoundAssumption, CountsAssumption DEF DeliveryInv, D!TypeOK,
    LaterAreServed, D!Committed, D!LoopStep, D!SendStep, D!SendFail, D!registry, D!loops,
    D!receipts
<1>4. /\ ActiveAreOwned' /\ CurrentIsOwned' /\ ListedAfterQuery' /\ ListedAreServed'
  BY DEF DeliveryInv, ActiveAreOwned, CurrentIsOwned, ListedAfterQuery,
    ListedAreServed, D!SendFail, D!registry, D!loops, D!receipts
<1>5. QED
  BY <1>1, <1>2, <1>3, <1>4 DEF DeliveryInv

(* A step of Connect keeps the inductive invariant.                        *)
LEMMA ConnectKeeps ==
  ASSUME DeliveryInv, NEW r \in D!Receiver, NEW k \in Socket,
         D!Connect(r, k)
  PROVE  DeliveryInv'
<1>1. D!TypeOK'
  BY SocketAssumption, BoundAssumption, CountsAssumption DEF DeliveryInv, D!TypeOK,
    D!LoopStep, D!SendStep, D!Connect, D!Device!Attach, D!sends, D!receipts
<1>2. ActiveAreOwned'
  BY SocketAssumption, BoundAssumption, CountsAssumption DEF DeliveryInv, D!TypeOK,
    ActiveAreOwned, D!LoopStep, D!SendStep, D!Connect, D!Device!Attach, D!sends,
    D!receipts
<1>3. CurrentIsOwned'
  BY SocketAssumption, BoundAssumption, CountsAssumption DEF DeliveryInv, D!TypeOK,
    CurrentIsOwned, D!LoopStep, D!SendStep, D!Connect, D!Device!Attach, D!sends,
    D!receipts
<1>4. MarkedIsFirst'
  BY SocketAssumption, BoundAssumption, CountsAssumption DEF DeliveryInv, D!TypeOK,
    MarkedIsFirst, D!LoopStep, D!SendStep, D!Connect, D!Device!Attach, D!sends, D!receipts
<1>5. ListedAfterQuery'
  BY SocketAssumption, BoundAssumption, CountsAssumption DEF DeliveryInv, D!TypeOK,
    ListedAfterQuery, D!LoopStep, D!SendStep, D!Connect, D!Device!Attach, D!sends,
    D!receipts
<1>6. ListedAreServed'
  BY SocketAssumption, BoundAssumption, CountsAssumption DEF DeliveryInv, D!TypeOK,
    ListedAreServed, D!LoopStep, D!SendStep, D!Connect, D!Device!Attach, D!sends,
    D!receipts
<1>7. LaterAreServed'
  BY SocketAssumption, BoundAssumption, CountsAssumption DEF DeliveryInv, D!TypeOK,
    LaterAreServed, D!Committed, D!LoopStep, D!SendStep, D!Connect, D!Device!Attach,
    D!sends, D!receipts
<1>8. QED
  BY <1>1, <1>2, <1>3, <1>4, <1>5, <1>6, <1>7 DEF DeliveryInv

(* A step of ClientDrop keeps the inductive invariant.                     *)
LEMMA ClientDropKeeps ==
  ASSUME DeliveryInv, NEW k \in Socket, D!ClientDrop(k)
  PROVE  DeliveryInv'
<1>1. D!TypeOK'
  BY SocketAssumption, BoundAssumption, CountsAssumption DEF DeliveryInv, D!TypeOK,
    D!LoopStep, D!SendStep, D!ClientDrop, D!Close, D!Device!Detach, D!loops, D!sends,
    D!receipts
<1>2. CurrentIsOwned'
  BY SocketAssumption, BoundAssumption, CountsAssumption DEF DeliveryInv, D!TypeOK,
    CurrentIsOwned, D!LoopStep, D!SendStep, D!ClientDrop, D!Close, D!Device!Detach,
    D!loops, D!sends, D!receipts
<1>3. LaterAreServed'
  BY SocketAssumption, BoundAssumption, CountsAssumption DEF DeliveryInv, D!TypeOK,
    LaterAreServed, D!Committed, D!LoopStep, D!SendStep, D!ClientDrop, D!Close,
    D!Device!Detach, D!loops, D!sends, D!receipts
<1>4. /\ ActiveAreOwned' /\ MarkedIsFirst' /\ ListedAfterQuery' /\ ListedAreServed'
  BY DEF DeliveryInv, ActiveAreOwned, MarkedIsFirst, ListedAfterQuery,
    ListedAreServed, D!ClientDrop, D!Close, D!Device!Detach, D!loops, D!sends, D!receipts
<1>5. QED
  BY <1>1, <1>2, <1>3, <1>4 DEF DeliveryInv

(* A step of Kick keeps the inductive invariant.                           *)
LEMMA KickKeeps ==
  ASSUME DeliveryInv, NEW r \in D!Receiver, D!Kick(r)
  PROVE  DeliveryInv'
<1>1. D!TypeOK'
  BY SocketAssumption, BoundAssumption, CountsAssumption DEF DeliveryInv, D!TypeOK,
    D!LoopStep, D!SendStep, D!Kick, D!Device!Detach, D!loops, D!sends, D!receipts
<1>2. CurrentIsOwned'
  BY SocketAssumption, BoundAssumption, CountsAssumption DEF DeliveryInv, D!TypeOK,
    CurrentIsOwned, D!LoopStep, D!SendStep, D!Kick, D!Device!Detach, D!loops, D!sends,
    D!receipts
<1>3. LaterAreServed'
  BY SocketAssumption, BoundAssumption, CountsAssumption DEF DeliveryInv, D!TypeOK,
    LaterAreServed, D!Committed, D!LoopStep, D!SendStep, D!Kick, D!Device!Detach, D!loops,
    D!sends, D!receipts
<1>4. /\ ActiveAreOwned' /\ MarkedIsFirst' /\ ListedAfterQuery' /\ ListedAreServed'
  BY DEF DeliveryInv, ActiveAreOwned, MarkedIsFirst, ListedAfterQuery,
    ListedAreServed, D!Kick, D!Device!Detach, D!loops, D!sends, D!receipts
<1>5. QED
  BY <1>1, <1>2, <1>3, <1>4 DEF DeliveryInv

(* A step of Restart keeps the inductive invariant.                        *)
LEMMA RestartKeeps ==
  ASSUME DeliveryInv, D!Restart
  PROVE  DeliveryInv'
<1>1. D!TypeOK'
  BY SocketAssumption, BoundAssumption, CountsAssumption DEF DeliveryInv, D!TypeOK,
    D!LoopStep, D!SendStep, D!Restart, D!Device!Reset, D!receipts
<1>2. ActiveAreOwned'
  BY SocketAssumption, BoundAssumption, CountsAssumption DEF DeliveryInv, D!TypeOK,
    ActiveAreOwned, D!LoopStep, D!SendStep, D!Restart, D!Device!Reset, D!receipts
<1>3. CurrentIsOwned'
  BY SocketAssumption, BoundAssumption, CountsAssumption DEF DeliveryInv, D!TypeOK,
    CurrentIsOwned, D!LoopStep, D!SendStep, D!Restart, D!Device!Reset, D!receipts
<1>4. MarkedIsFirst'
  BY SocketAssumption, BoundAssumption, CountsAssumption DEF DeliveryInv, D!TypeOK,
    MarkedIsFirst, D!LoopStep, D!SendStep, D!Restart, D!Device!Reset, D!receipts
<1>5. ListedAfterQuery'
  BY SocketAssumption, BoundAssumption, CountsAssumption DEF DeliveryInv, D!TypeOK,
    ListedAfterQuery, D!LoopStep, D!SendStep, D!Restart, D!Device!Reset, D!receipts
<1>6. ListedAreServed'
  BY SocketAssumption, BoundAssumption, CountsAssumption DEF DeliveryInv, D!TypeOK,
    ListedAreServed, D!LoopStep, D!SendStep, MarkedIsFirst, D!Restart, D!Device!Reset,
    D!receipts
<1>7. LaterAreServed'
  BY SocketAssumption, BoundAssumption, CountsAssumption DEF DeliveryInv, D!TypeOK,
    LaterAreServed, D!Committed, D!LoopStep, D!SendStep, D!Restart, D!Device!Reset,
    D!receipts
<1>8. QED
  BY <1>1, <1>2, <1>3, <1>4, <1>5, <1>6, <1>7 DEF DeliveryInv

(* A step of LoopStart keeps the inductive invariant.                      *)
LEMMA LoopStartKeeps ==
  ASSUME DeliveryInv, NEW k \in Socket, D!LoopStart(k)
  PROVE  DeliveryInv'
<1>1. D!TypeOK'
  BY SocketAssumption, BoundAssumption, CountsAssumption DEF DeliveryInv, D!TypeOK,
    D!LoopStep, D!SendStep, ActiveAreOwned, D!LoopStart, D!registry, D!sends, D!receipts
<1>2. ActiveAreOwned'
  BY SocketAssumption, BoundAssumption, CountsAssumption DEF DeliveryInv, D!TypeOK,
    ActiveAreOwned, D!LoopStep, D!SendStep, D!LoopStart, D!registry, D!sends, D!receipts
<1>3. CurrentIsOwned'
  BY SocketAssumption, BoundAssumption, CountsAssumption DEF DeliveryInv, D!TypeOK,
    CurrentIsOwned, D!LoopStep, D!SendStep, D!LoopStart, D!registry, D!sends, D!receipts
<1>4. MarkedIsFirst'
  BY SocketAssumption, BoundAssumption, CountsAssumption DEF DeliveryInv, D!TypeOK,
    MarkedIsFirst, D!LoopStep, D!SendStep, D!LoopStart, D!registry, D!sends, D!receipts
<1>5. ListedAfterQuery'
  BY SocketAssumption, BoundAssumption, CountsAssumption DEF DeliveryInv, D!TypeOK,
    ListedAfterQuery, D!LoopStep, D!SendStep, D!LoopStart, D!registry, D!sends, D!receipts
<1>6. ListedAreServed'
  BY SocketAssumption, BoundAssumption, CountsAssumption DEF DeliveryInv, D!TypeOK,
    ListedAreServed, D!LoopStep, D!SendStep, ListedAfterQuery, D!LoopStart, D!registry,
    D!sends, D!receipts
<1>7. LaterAreServed'
  BY SocketAssumption, BoundAssumption, CountsAssumption DEF DeliveryInv, D!TypeOK,
    LaterAreServed, D!Committed, D!LoopStep, D!SendStep, CurrentIsOwned, ActiveAreOwned,
    D!LoopStart, D!registry, D!sends, D!receipts
<1>8. QED
  BY <1>1, <1>2, <1>3, <1>4, <1>5, <1>6, <1>7 DEF DeliveryInv

(* A step of LoopList keeps the inductive invariant.                       *)
LEMMA LoopListKeeps ==
  ASSUME DeliveryInv, NEW k \in Socket, D!LoopList(k)
  PROVE  DeliveryInv'
<1>1. D!TypeOK'
  BY SocketAssumption, BoundAssumption, CountsAssumption DEF DeliveryInv, D!TypeOK,
    D!LoopStep, D!SendStep, D!Committed, D!LoopList, D!registry, D!sends, D!receipts
<1>2. ActiveAreOwned'
  BY SocketAssumption, BoundAssumption, CountsAssumption DEF DeliveryInv, D!TypeOK,
    ActiveAreOwned, D!LoopStep, D!SendStep, D!LoopList, D!registry, D!sends, D!receipts
<1>3. CurrentIsOwned'
  BY SocketAssumption, BoundAssumption, CountsAssumption DEF DeliveryInv, D!TypeOK,
    CurrentIsOwned, D!LoopStep, D!SendStep, D!LoopList, D!registry, D!sends, D!receipts
<1>4. MarkedIsFirst'
  BY SocketAssumption, BoundAssumption, CountsAssumption DEF DeliveryInv, D!TypeOK,
    MarkedIsFirst, D!LoopStep, D!SendStep, D!LoopList, D!registry, D!sends, D!receipts
<1>5. ListedAfterQuery'
  BY SocketAssumption, BoundAssumption, CountsAssumption DEF DeliveryInv, D!TypeOK,
    ListedAfterQuery, D!LoopStep, D!SendStep, D!LoopList, D!registry, D!sends, D!receipts
<1>6. ListedAreServed'
  BY SocketAssumption, BoundAssumption, CountsAssumption DEF DeliveryInv, D!TypeOK,
    ListedAreServed, D!LoopStep, D!SendStep, D!LoopList, D!registry, D!sends, D!receipts
<1>7. LaterAreServed'
  BY SocketAssumption, BoundAssumption, CountsAssumption DEF DeliveryInv, D!TypeOK,
    LaterAreServed, D!Committed, D!LoopStep, D!SendStep, D!LoopList, D!registry, D!sends,
    D!receipts
<1>8. QED
  BY <1>1, <1>2, <1>3, <1>4, <1>5, <1>6, <1>7 DEF DeliveryInv

(* A step of LoopPush keeps the inductive invariant.                       *)
LEMMA LoopPushKeeps ==
  ASSUME DeliveryInv, NEW k \in Socket, D!LoopPush(k)
  PROVE  DeliveryInv'
<1>1. D!TypeOK'
  <2>1. D!Min(pending[k]) \in D!Message /\ owner[k] \in D!Receiver
    BY FirstMessage DEF D!LoopPush, DeliveryInv, D!TypeOK, ActiveAreOwned
  <2>2. QED
    BY <2>1 DEF D!LoopPush, D!Emitted, DeliveryInv, D!TypeOK, D!LoopStep, D!registry,
      D!sends
<1>2. ActiveAreOwned'
  BY SocketAssumption, BoundAssumption, CountsAssumption DEF DeliveryInv, D!TypeOK,
    ActiveAreOwned, D!LoopStep, D!SendStep, D!LoopPush, D!Emitted, D!registry, D!sends
<1>3. CurrentIsOwned'
  BY SocketAssumption, BoundAssumption, CountsAssumption DEF DeliveryInv, D!TypeOK,
    CurrentIsOwned, D!LoopStep, D!SendStep, D!LoopPush, D!Emitted, D!registry, D!sends
<1>4. MarkedIsFirst'
  BY SocketAssumption, BoundAssumption, CountsAssumption DEF DeliveryInv, D!TypeOK,
    MarkedIsFirst, D!LoopStep, D!SendStep, D!LoopPush, D!Emitted, D!registry, D!sends
<1>5. ListedAfterQuery'
  BY SocketAssumption, BoundAssumption, CountsAssumption DEF DeliveryInv, D!TypeOK,
    ListedAfterQuery, D!LoopStep, D!SendStep, D!LoopPush, D!Emitted, D!registry, D!sends
<1>6. ListedAreServed'
  BY SocketAssumption, BoundAssumption, CountsAssumption DEF DeliveryInv, D!TypeOK,
    ListedAreServed, D!LoopStep, D!SendStep, D!LoopPush, D!Emitted, D!registry, D!sends
<1>7. LaterAreServed'
  BY SocketAssumption, BoundAssumption, CountsAssumption DEF DeliveryInv, D!TypeOK,
    LaterAreServed, D!Committed, D!LoopStep, D!SendStep, D!LoopPush, D!Emitted,
    D!registry, D!sends
<1>8. QED
  BY <1>1, <1>2, <1>3, <1>4, <1>5, <1>6, <1>7 DEF DeliveryInv

(* A step of LoopMark keeps the inductive invariant.                       *)
LEMMA LoopMarkKeeps ==
  ASSUME DeliveryInv, NEW k \in Socket, D!LoopMark(k)
  PROVE  DeliveryInv'
<1>1. D!TypeOK'
  <2>1. D!Min(pending[k]) \in D!Message /\ owner[k] \in D!Receiver
    BY FirstMessage DEF D!LoopMark, DeliveryInv, D!TypeOK, MarkedIsFirst, ActiveAreOwned
  <2>2. QED
    BY <2>1 DEF D!LoopMark, D!MarkDelivered, DeliveryInv, D!TypeOK, D!LoopStep,
      D!registry, D!sends
<1>2. ActiveAreOwned'
  BY SocketAssumption, BoundAssumption, CountsAssumption DEF DeliveryInv, D!TypeOK,
    ActiveAreOwned, D!LoopStep, D!SendStep, D!LoopMark, D!MarkDelivered, D!registry,
    D!sends
<1>3. CurrentIsOwned'
  BY SocketAssumption, BoundAssumption, CountsAssumption DEF DeliveryInv, D!TypeOK,
    CurrentIsOwned, D!LoopStep, D!SendStep, D!LoopMark, D!MarkDelivered, D!registry,
    D!sends
<1>4. MarkedIsFirst'
  BY SocketAssumption, BoundAssumption, CountsAssumption DEF DeliveryInv, D!TypeOK,
    MarkedIsFirst, D!LoopStep, D!SendStep, D!LoopMark, D!MarkDelivered, D!registry,
    D!sends
<1>5. ListedAfterQuery'
  BY SocketAssumption, BoundAssumption, CountsAssumption DEF DeliveryInv, D!TypeOK,
    ListedAfterQuery, D!LoopStep, D!SendStep, D!LoopMark, D!MarkDelivered, D!registry,
    D!sends
<1>6. ListedAreServed'
  BY SocketAssumption, BoundAssumption, CountsAssumption DEF DeliveryInv, D!TypeOK,
    ListedAreServed, D!LoopStep, D!SendStep, D!LoopMark, D!MarkDelivered, D!registry,
    D!sends
<1>7. LaterAreServed'
  BY SocketAssumption, BoundAssumption, CountsAssumption DEF DeliveryInv, D!TypeOK,
    LaterAreServed, D!Committed, D!LoopStep, D!SendStep, D!LoopMark, D!MarkDelivered,
    D!registry, D!sends
<1>8. QED
  BY <1>1, <1>2, <1>3, <1>4, <1>5, <1>6, <1>7 DEF DeliveryInv

(* A step of LoopFinish keeps the inductive invariant.                     *)
LEMMA LoopFinishKeeps ==
  ASSUME DeliveryInv, NEW k \in Socket, D!LoopFinish(k)
  PROVE  DeliveryInv'
<1>1. D!TypeOK'
  BY SocketAssumption, BoundAssumption, CountsAssumption DEF DeliveryInv, D!TypeOK,
    D!LoopStep, D!SendStep, D!LoopFinish, D!registry, D!sends, D!receipts
<1>2. ActiveAreOwned'
  BY SocketAssumption, BoundAssumption, CountsAssumption DEF DeliveryInv, D!TypeOK,
    ActiveAreOwned, D!LoopStep, D!SendStep, D!LoopFinish, D!registry, D!sends, D!receipts
<1>3. CurrentIsOwned'
  BY SocketAssumption, BoundAssumption, CountsAssumption DEF DeliveryInv, D!TypeOK,
    CurrentIsOwned, D!LoopStep, D!SendStep, D!LoopFinish, D!registry, D!sends, D!receipts
<1>4. MarkedIsFirst'
  BY SocketAssumption, BoundAssumption, CountsAssumption DEF DeliveryInv, D!TypeOK,
    MarkedIsFirst, D!LoopStep, D!SendStep, D!LoopFinish, D!registry, D!sends, D!receipts
<1>5. ListedAfterQuery'
  BY SocketAssumption, BoundAssumption, CountsAssumption DEF DeliveryInv, D!TypeOK,
    ListedAfterQuery, D!LoopStep, D!SendStep, D!LoopFinish, D!registry, D!sends,
    D!receipts
<1>6. ListedAreServed'
  BY SocketAssumption, BoundAssumption, CountsAssumption DEF DeliveryInv, D!TypeOK,
    ListedAreServed, D!LoopStep, D!SendStep, D!LoopFinish, D!registry, D!sends, D!receipts
<1>7. LaterAreServed'
  BY SocketAssumption, BoundAssumption, CountsAssumption DEF DeliveryInv, D!TypeOK,
    LaterAreServed, D!Committed, D!LoopStep, D!SendStep, D!LoopFinish, D!registry,
    D!sends, D!receipts
<1>8. QED
  BY <1>1, <1>2, <1>3, <1>4, <1>5, <1>6, <1>7 DEF DeliveryInv

(* A step of LoopFail keeps the inductive invariant.                       *)
LEMMA LoopFailKeeps ==
  ASSUME DeliveryInv, NEW k \in Socket, D!LoopFail(k)
  PROVE  DeliveryInv'
<1>1. D!TypeOK'
  BY SocketAssumption, BoundAssumption, CountsAssumption DEF DeliveryInv, D!TypeOK,
    D!LoopStep, D!SendStep, D!LoopFail, D!Close, D!Device!Detach, D!registry, D!sends,
    D!receipts
<1>2. ActiveAreOwned'
  BY SocketAssumption, BoundAssumption, CountsAssumption DEF DeliveryInv, D!TypeOK,
    ActiveAreOwned, D!LoopStep, D!SendStep, D!LoopFail, D!Close, D!Device!Detach,
    D!registry, D!sends, D!receipts
<1>3. CurrentIsOwned'
  BY SocketAssumption, BoundAssumption, CountsAssumption DEF DeliveryInv, D!TypeOK,
    CurrentIsOwned, D!LoopStep, D!SendStep, D!LoopFail, D!Close, D!Device!Detach,
    D!registry, D!sends, D!receipts
<1>4. MarkedIsFirst'
  BY SocketAssumption, BoundAssumption, CountsAssumption DEF DeliveryInv, D!TypeOK,
    MarkedIsFirst, D!LoopStep, D!SendStep, D!LoopFail, D!Close, D!Device!Detach,
    D!registry, D!sends, D!receipts
<1>5. ListedAfterQuery'
  BY SocketAssumption, BoundAssumption, CountsAssumption DEF DeliveryInv, D!TypeOK,
    ListedAfterQuery, D!LoopStep, D!SendStep, D!LoopFail, D!Close, D!Device!Detach,
    D!registry, D!sends, D!receipts
<1>6. ListedAreServed'
  BY SocketAssumption, BoundAssumption, CountsAssumption DEF DeliveryInv, D!TypeOK,
    ListedAreServed, D!LoopStep, D!SendStep, D!LoopFail, D!Close, D!Device!Detach,
    D!registry, D!sends, D!receipts
<1>7. LaterAreServed'
  BY SocketAssumption, BoundAssumption, CountsAssumption DEF DeliveryInv, D!TypeOK,
    LaterAreServed, D!Committed, D!LoopStep, D!SendStep, D!LoopFail, D!Close,
    D!Device!Detach, D!registry, D!sends, D!receipts
<1>8. QED
  BY <1>1, <1>2, <1>3, <1>4, <1>5, <1>6, <1>7 DEF DeliveryInv

(* A step of ReadByRest keeps the inductive invariant.                     *)
LEMMA ReadByRestKeeps ==
  ASSUME DeliveryInv, NEW m \in D!Message, NEW r \in D!Receiver,
         D!ReadByRest(m, r)
  PROVE  DeliveryInv'
<1>1. D!TypeOK'
  BY SocketAssumption, BoundAssumption, CountsAssumption DEF DeliveryInv, D!TypeOK,
    D!LoopStep, D!SendStep, D!ReadByRest, D!registry, D!loops, D!sends
<1>2. ListedAreServed'
  BY SocketAssumption, BoundAssumption, CountsAssumption DEF DeliveryInv, D!TypeOK,
    ListedAreServed, D!LoopStep, D!SendStep, D!ReadByRest, D!registry, D!loops, D!sends
<1>3. LaterAreServed'
  BY SocketAssumption, BoundAssumption, CountsAssumption DEF DeliveryInv, D!TypeOK,
    LaterAreServed, D!Committed, D!LoopStep, D!SendStep, D!ReadByRest, D!registry,
    D!loops, D!sends
<1>4. /\ ActiveAreOwned' /\ CurrentIsOwned' /\ MarkedIsFirst' /\ ListedAfterQuery'
  BY DEF DeliveryInv, ActiveAreOwned, CurrentIsOwned, MarkedIsFirst, ListedAfterQuery,
    D!ReadByRest, D!registry, D!loops, D!sends
<1>5. QED
  BY <1>1, <1>2, <1>3, <1>4 DEF DeliveryInv

-----------------------------------------------------------------------------
(* The initial state satisfies the inductive invariant. *)
LEMMA DeliveryInit == D!Init => DeliveryInv
  BY SocketAssumption, BoundAssumption, CountsAssumption DEF D!Init, D!Device!Init,
    DeliveryInv, D!TypeOK, D!LoopStep, D!SendStep, ActiveAreOwned, CurrentIsOwned,
    MarkedIsFirst, ListedAfterQuery, ListedAreServed, LaterAreServed, D!Committed

(* Every step keeps the inductive invariant. *)
LEMMA DeliveryStep == DeliveryInv /\ [D!Next]_(D!vars) => DeliveryInv'
<1> SUFFICES ASSUME DeliveryInv, [D!Next]_(D!vars) PROVE DeliveryInv'
  OBVIOUS
<1>1. ASSUME NEW m \in D!Message, D!SendCommit(m) \/ D!SendGoesOn(m) PROVE DeliveryInv'
  BY <1>1, SendCommitKeeps, DeliverySendPushKeeps, SendMarkKeeps, SendFinishKeeps, SendFailKeeps
  DEF D!SendGoesOn
<1>2. ASSUME NEW k \in Socket, D!LoopGoesOn(k) \/ D!ClientDrop(k) PROVE DeliveryInv'
  BY <1>2, LoopStartKeeps, LoopListKeeps, LoopPushKeeps, LoopMarkKeeps, LoopFinishKeeps,
     LoopFailKeeps, ClientDropKeeps
  DEF D!LoopGoesOn
<1>3. CASE UNCHANGED D!vars
  BY <1>3 DEF D!vars, D!registry, D!loops, D!sends, D!receipts, DeliveryInv, D!TypeOK,
    ActiveAreOwned, CurrentIsOwned, MarkedIsFirst, ListedAfterQuery, ListedAreServed,
    LaterAreServed, D!Committed
<1>4. QED
  BY <1>1, <1>2, <1>3, KickKeeps, ConnectKeeps, ReadByRestKeeps, RestartKeeps DEF D!Next

(* The inductive invariant holds in every reachable state. *)
THEOREM DeliveryIsInvariant == D!Spec => []DeliveryInv
  BY DeliveryInit, DeliveryStep, PTL DEF D!Spec

(* Every variable keeps its type, and no loop pushes without a socket. *)
THEOREM DeliveryTypeCorrect == D!Spec => []D!TypeOK
<1>1. DeliveryInv => D!TypeOK BY DEF DeliveryInv
<1>2. QED BY <1>1, DeliveryIsInvariant, PTL

(* Between handleMessageSend, which skips who is not connected, and        *)
(* deliverOfflineMessages, which lists once, no message falls through.     *)
THEOREM NothingFallsThrough == D!Spec => []NothingStranded
<1>1. DeliveryInv => NothingStranded
  BY SocketAssumption
  DEF DeliveryInv, D!TypeOK, D!SendStep, CurrentIsOwned, MarkedIsFirst, ListedAreServed,
      LaterAreServed, NothingStranded, D!NothingStranded, D!Committed
<1>2. QED BY <1>1, DeliveryIsInvariant, PTL
(* A connection that the server still has has registered for a receiver:   *)
(* handleDisconnect looks for the socket in the entry of that receiver.    *)
OpenAreOwned == D!TypeOK /\ \A k \in open : owner[k] \in D!Receiver

(* Only Connect opens a connection, and it registers its socket.           *)
LEMMA OpenStayOwned == D!Spec => []OpenAreOwned
<1>1. D!Init => OpenAreOwned
  BY DeliveryInit DEF D!Init, DeliveryInv, OpenAreOwned
<1>2. ASSUME OpenAreOwned, [D!Next]_(D!vars), D!TypeOK' PROVE OpenAreOwned'
  <2> USE DEF D!registry, OpenAreOwned
  <2>1. ASSUME NEW r \in D!Receiver, NEW k \in Socket, D!Connect(r, k) PROVE OpenAreOwned'
    BY <1>2, <2>1 DEF D!Connect, D!TypeOK
  <2>2. ASSUME UNCHANGED owner, open' \subseteq open PROVE OpenAreOwned'
    BY <1>2, <2>2
  <2>3. ASSUME NEW m \in D!Message, D!SendCommit(m) \/ D!SendGoesOn(m) PROVE OpenAreOwned'
    BY <2>2, <2>3 DEF D!SendCommit, D!SendGoesOn, D!SendPush, D!SendMark, D!SendFinish,
       D!SendFail, D!loops
  <2>4. ASSUME NEW k \in Socket, D!LoopGoesOn(k) PROVE OpenAreOwned'
    BY <2>2, <2>4 DEF D!LoopGoesOn, D!LoopStart, D!LoopList, D!LoopPush, D!LoopMark,
       D!LoopFinish, D!LoopFail, D!Close
  <2>5. ASSUME NEW k \in Socket, D!ClientDrop(k) PROVE OpenAreOwned'
    BY <2>2, <2>5 DEF D!ClientDrop, D!Close, D!loops
  <2>6. ASSUME NEW r \in D!Receiver, D!Kick(r) PROVE OpenAreOwned'
    BY <2>2, <2>6 DEF D!Kick, D!loops
  <2>7. ASSUME NEW m \in D!Message, NEW r \in D!Receiver, D!ReadByRest(m, r) PROVE OpenAreOwned'
    BY <2>2, <2>7 DEF D!ReadByRest, D!loops
  <2>8. CASE D!Restart
    BY <2>2, <2>8 DEF D!Restart
  <2>9. CASE UNCHANGED D!vars
    BY <2>2, <2>9 DEF D!vars, D!loops
  <2>10. QED BY <1>2, <2>1, <2>3, <2>4, <2>5, <2>6, <2>7, <2>8, <2>9 DEF D!Next
<1>3. QED BY <1>1, <1>2, DeliveryTypeCorrect, PTL DEF D!Spec

(* The kicks, takeovers and restarts of Delivery are steps that the        *)
(* registry of sockets allows, and so are the connections that end or that *)
(* a failing loop closes; the other steps leave the registry alone.        *)
THEOREM LoopsKeepTheRegistry == D!Spec => D!Device!Spec
<1>1. D!Init => D!Device!Init
  BY DEF D!Init
<1>2. ASSUME OpenAreOwned, [D!Next]_(D!vars) PROVE [D!Device!Next]_(D!Device!vars)
  <2> USE DEF D!registry, D!Device!vars
  <2>1. ASSUME NEW m \in D!Message, D!SendCommit(m) \/ D!SendGoesOn(m) PROVE UNCHANGED D!Device!vars
    BY <2>1 DEF D!SendCommit, D!SendGoesOn, D!SendPush, D!SendMark, D!SendFinish, D!SendFail
  <2>2. ASSUME NEW k \in Socket, D!LoopGoesOn(k) PROVE [D!Device!Next]_(D!Device!vars)
    <3>1. CASE D!LoopFail(k)
      BY <1>2, <3>1 DEF OpenAreOwned, D!LoopFail, D!Close, D!Device!Next
    <3>2. CASE ~D!LoopFail(k)
      BY <2>2, <3>2 DEF D!LoopGoesOn, D!LoopStart, D!LoopList, D!LoopPush, D!LoopMark,
         D!LoopFinish
    <3>3. QED BY <3>1, <3>2
  <2>3. ASSUME NEW r \in D!Receiver, D!Kick(r) PROVE D!Device!Next
    BY <2>3 DEF D!Kick, D!Device!Next
  <2>4. ASSUME NEW r \in D!Receiver, NEW k \in Socket, D!Connect(r, k) PROVE D!Device!Next
    BY <2>4 DEF D!Connect, D!Device!Next
  <2>5. CASE D!Restart
    BY <2>5 DEF D!Restart, D!Device!Next
  <2>6. ASSUME NEW k \in Socket, D!ClientDrop(k) PROVE [D!Device!Next]_(D!Device!vars)
    BY <1>2, <2>6 DEF OpenAreOwned, D!ClientDrop, D!Close, D!Device!Next
  <2>7. ASSUME NEW m \in D!Message, NEW r \in D!Receiver, D!ReadByRest(m, r)
        PROVE  UNCHANGED D!Device!vars
    BY <2>7 DEF D!ReadByRest
  <2>8. CASE UNCHANGED D!vars
    BY <2>8 DEF D!vars
  <2>9. QED BY <1>2, <2>1, <2>2, <2>3, <2>4, <2>5, <2>6, <2>7, <2>8 DEF D!Next
<1>3. QED BY <1>1, <1>2, OpenStayOwned, PTL DEF D!Spec, D!Device!Spec
=============================================================================
