------------------------- MODULE ConversationProofs -------------------------
(***************************************************************************)
(* Proofs about the messages of a conversation, for any sends, users, and  *)
(* number of messages, events, attempts and handlers: what a client shows  *)
(* of them (StatusInv), what the server has of them (MessagesInv), and     *)
(* what becomes of the texts that a user edits (EditsInv).                 *)
(*                                                                         *)
(* StatusInv says that rows, events, pages and bubbles are true of what    *)
(* has happened, and of every send that no failure was wrongly put down to *)
(* how far it can have come (Once) and where its bubbles are (InOrder).    *)
(* MessagesInv says what a handler's read may still rely on when the       *)
(* handler writes.  EditsInv says of every text how far it has come, and   *)
(* what may be under way of it then.                                       *)
(***************************************************************************)
EXTENDS Conversation, SequenceTheorems, FiniteSetTheorems, TLAPS


Sent == Cardinality(Created)

RowStatus == {"SENT", "DELIVERED", "READ", "RECALLED"}
Shape  == [id : Own \cup Message, cid : Own \cup {None}, status : Local, at : Nat]
News   == [type : {"new", "delivered", "read", "recalled", "error"},
           about : Own \cup Message, status : RowStatus]
Waits  == [event : News, matched : BOOLEAN]
Calls  == [msg : Message, seen : RowStatus]

StatusTyped ==
  /\ author \in [Message -> Own \cup {Peer, None}]
  /\ status \in [Message -> RowStatus]
  /\ wire \in [Own -> Nat]
  /\ events \subseteq News /\ handlers \subseteq Waits
  /\ list \in Seq(Shape)
  /\ page # None => page \in Seq(Shape \cup {None})
  /\ delivering \subseteq Calls /\ cache \in [Message -> SUBSET Shape]
  /\ Created = 1 .. Sent /\ Sent \in Nat

(* What was done to a message, and what its row says.  A call that has     *)
(* read finds at least what it has read.                                   *)
RowsAreTrue ==
  /\ handed \cup readBy \cup recalled \subseteq Created
  /\ \A d \in delivering : d.msg \in Created /\ (d.seen # "SENT" => status[d.msg] # "SENT")
  /\ \A m \in Message :
       /\ m \in handed => status[m] # "SENT"
       /\ m \in readBy \ setBack => status[m] \in {"READ", "RECALLED"}
       /\ m \in recalled \ setBack => status[m] = "RECALLED"
       /\ status[m] = "RECALLED" => m \in recalled
       /\ status[m] = "DELIVERED" => m \in handed
       /\ status[m] = "READ" => m \in readBy

(* A bubble claims no more than has happened. *)
Justified(b) ==
  /\ b.status = "delivered" => b.id \in handed
  /\ b.status = "recalled" => b.id \in recalled
  /\ b.status = "read" => \E m \in readBy : b.at <= CreatedAt(m)

(* A bubble that is one of a message, or one that waits for its message *)
Belongs(b) ==
  /\ b.id \in Message =>
       /\ b.id \in Created /\ b.cid \in {None, author[b.id]} /\ b.at = CreatedAt(b.id)
  /\ b.id \in Own => b.cid = b.id /\ b.status \in {"sending", "failed", "read"} /\ b.at <= 2 * Sent + 1
  /\ b.status \in {"sending", "failed"} => b.cid \in Own

BubblesAreSound == \A i \in DOMAIN list : Justified(list[i]) /\ Belongs(list[i])

(* An event is about what has happened. *)
True(e) ==
  /\ e.type = "error" => e.about \in Own /\ e = Event("error", e.about, "SENT")
  /\ e.type # "error" => e.about \in Created
  /\ e.type = "new" =>
       /\ e.status = "DELIVERED" => e.about \in handed
       /\ e.status = "READ" => e.about \in readBy
       /\ e.status = "RECALLED" => e.about \in recalled
  /\ e.type = "delivered" => e.about \in handed
  /\ e.type = "read" => e.about \in readBy
  /\ e.type = "recalled" => e.about \in recalled
NewsIsTrue ==
  /\ \A e \in events : True(e)
  /\ \A h \in handlers : True(h.event) /\ h.event.type = "new"

(* What may be in a page about a message, and what the cache may hold of it *)
IsRow(b, m) ==
  /\ b \in Shape /\ b.id = m /\ b.cid \in {None, author[m]} /\ b.at = CreatedAt(m)
  /\ b.status \in {"sent", "delivered", "read", "recalled"}
  /\ Justified(b)

PageIsTrue ==
  page # None =>
    /\ Len(page) <= Sent
    /\ \A m \in DOMAIN page : page[m] # None => IsRow(page[m], m)

CacheIsTrue == \A m \in Message : \A b \in cache[m] : m \in Created /\ IsRow(b, m)

PeersAreShownOnce ==
  \A i, j \in DOMAIN list : i # j /\ list[i].id = list[j].id => IsOwn(list[i])

(* A send of which no failure was put down to it wrongly is under way      *)
(* once, or refused, or accepted, and it is shown as failed when neither   *)
(* is.                                                                     *)
Answered(c) == (\E e \in events : e.type = "error" /\ e.about = c) \/ \E m \in Message : author[m] = c
Once(c) ==
  /\ wire[c] <= 1
  /\ wire[c] = 1 => ~Answered(c)
  /\ (\E e \in events : e.type = "error" /\ e.about = c) => \A m \in Message : author[m] # c
  /\ \A m, n \in Message : author[m] = c /\ author[n] = c => m = n
  /\ \A i \in DOMAIN list : list[i].cid = c /\ list[i].status = "failed" => wire[c] = 0 /\ ~Answered(c)

(* Its bubble comes before the one of its message. *)
IsOf(b, c) == b.cid = c \/ (b.id \in Message /\ author[b.id] = c)
InOrder(c) ==
  /\ \A i, j \in DOMAIN list :
       i # j /\ list[i].cid = c /\ IsOf(list[j], c) => i < j /\ list[j].cid = None
  /\ \A i \in DOMAIN list, m \in Message :
       list[i].id = c /\ author[m] = c => list[i].at < CreatedAt(m)

UnblamedAreOnce == \A c \in Own \ blamed : Once(c) /\ InOrder(c)

StatusInv ==
  /\ StatusTyped /\ RowsAreTrue /\ BubblesAreSound /\ NewsIsTrue /\ PageIsTrue
  /\ CacheIsTrue /\ PeersAreShownOnce /\ UnblamedAreOnce
-----------------------------------------------------------------------------
(* Each is as late in an order as there are elements before it.            *)
LEMMA Ranks ==
  ASSUME NEW S, IsFiniteSet(S), NEW below \in [S -> SUBSET S],
         \A k \in S : k \notin below[k],
         \A j, k \in S : j \in below[k] => below[j] \subseteq below[k],
         \A j, k \in S : j # k => j \in below[k] \/ k \in below[j]
  PROVE  /\ Cardinality(S) \in Nat
         /\ \A k \in S : Cardinality(below[k]) \in 0 .. Cardinality(S) - 1
         /\ \A j, k \in S : j \in below[k] => Cardinality(below[j]) < Cardinality(below[k])
         /\ \A i \in 0 .. Cardinality(S) - 1 : \E k \in S : Cardinality(below[k]) = i
<1>0. Cardinality(S) \in Nat
  BY FS_CardinalityType
<1>1. ASSUME NEW T \in SUBSET S, NEW k \in T, NEW U \in SUBSET T, k \notin U
      PROVE  Cardinality(U) \in Nat /\ Cardinality(T) \in Nat /\ Cardinality(U) < Cardinality(T)
  <2>1. IsFiniteSet(T) /\ IsFiniteSet(U)
    BY FS_Subset
  <2>2. Cardinality(U) \in Nat /\ Cardinality(T) \in Nat
    BY <2>1, FS_CardinalityType
  <2>3. Cardinality(U) <= Cardinality(T) /\ (Cardinality(T) = Cardinality(U) => T = U)
    BY <2>1, FS_Subset
  <2>4. QED BY <1>1, <2>2, <2>3
<1>2. ASSUME NEW k \in S PROVE Cardinality(below[k]) \in 0 .. Cardinality(S) - 1
  <2>1. below[k] \in SUBSET S /\ S \in SUBSET S
    OBVIOUS
  <2>2. Cardinality(below[k]) \in Nat /\ Cardinality(below[k]) < Cardinality(S)
    BY <1>1, <2>1
  <2>3. QED BY <1>0, <2>2
<1>3. ASSUME NEW j \in S, NEW k \in S, j \in below[k] PROVE Cardinality(below[j]) < Cardinality(below[k])
  <2>1. below[k] \in SUBSET S /\ below[j] \in SUBSET below[k]
    BY <1>3
  <2>2. QED BY <1>1, <1>3, <2>1
<1> DEFINE rank == [k \in S |-> Cardinality(below[k])]
<1>4. rank \in Injection(S, 0 .. Cardinality(S) - 1)
  <2>1. rank \in [S -> 0 .. Cardinality(S) - 1]
    BY <1>2
  <2>2. ASSUME NEW j \in S, NEW k \in S, rank[j] = rank[k] PROVE j = k
    BY <1>0, <1>2, <1>3, <2>2
  <2> HIDE DEF rank
  <2>3. IsInjective(rank)
    BY <2>1, <2>2 DEF IsInjective
  <2>4. QED BY <2>1, <2>3 DEF Injection
<1>5. IsFiniteSet(0 .. Cardinality(S) - 1) /\ Cardinality(0 .. Cardinality(S) - 1) = Cardinality(S)
  <2>1. 0 \in Int /\ Cardinality(S) - 1 \in Int
    BY <1>0
  <2>2. QED BY <1>0, <2>1, FS_Interval
<1>6. rank \in Surjection(S, 0 .. Cardinality(S) - 1)
  <2> HIDE DEF rank
  <2>1. QED BY <1>4, <1>5, FS_Injection
<1>7. ASSUME NEW i \in 0 .. Cardinality(S) - 1 PROVE \E k \in S : Cardinality(below[k]) = i
  BY <1>6 DEF Surjection
<1>8. QED BY <1>0, <1>2, <1>3, <1>7

(* What a page makes of the list: its rows and what is pending, by time.   *)
Waiting(b, p) ==
  /\ b.cid \in TextOwn /\ b.status \in {"sending", "failed"}
  /\ \A i \in DOMAIN p : p[i] # None => {p[i].id, p[i].cid} \cap {b.id, b.cid} = {}

(* Where the bubbles of what it makes are from                             *)
Merging(p, l, from) ==
  /\ from \in [DOMAIN l -> DOMAIN (p \o list)]
  /\ \A i \in DOMAIN l : l[i] = (p \o list)[from[i]] /\ (from[i] <= Len(p) => l[i] # None)
  /\ \A i, j \in DOMAIN l : i # j => from[i] # from[j]
  /\ \A i, j \in DOMAIN l : l[i].at < l[j].at => i < j
  /\ \A i \in DOMAIN l : from[i] > Len(p) => Waiting(l[i], p)
  /\ \A k \in DOMAIN (p \o list) :
       /\ k <= Len(p) => (p \o list)[k] # None
       /\ k > Len(p) => Waiting((p \o list)[k], p)
       => \E i \in DOMAIN l : from[i] = k

LEMMA MergedIs ==
  ASSUME list \in Seq(Shape), NEW p \in Seq(Shape \cup {None}), NEW l, l = MergeLoadedMessagesWithPendingLocal(p)
  PROVE  /\ l \in Seq(Shape)
         /\ \E from : Merging(p, l, from)
<1> DEFINE all  == p \o list
           kept == {k \in DOMAIN all :
                      /\ k <= Len(p) => all[k] # None
                      /\ k > Len(p) =>
                           /\ all[k].cid \in TextOwn /\ all[k].status \in {"sending", "failed"}
                           /\ \A i \in DOMAIN p : p[i] # None =>
                                {p[i].id, p[i].cid} \cap {all[k].id, all[k].cid} = {}}
           below == [k \in kept |-> {j \in kept : all[j].at < all[k].at \/ (all[j].at = all[k].at /\ j < k)}]
           n == Cardinality(kept)
           source(i) == CHOOSE k \in kept : Cardinality(below[k]) = i - 1
<1>1. l = [i \in 1 .. n |-> all[source(i)]]
  BY DEF MergeLoadedMessagesWithPendingLocal
<1>2. /\ DOMAIN all = 1 .. Len(all) /\ Len(all) \in Nat /\ Len(p) \in Nat
      /\ \A k \in DOMAIN all : k \in Nat /\ all[k] \in Shape \cup {None} /\ (k > Len(p) => all[k] \in Shape)
  OBVIOUS
<1>3. \A k \in kept : all[k] \in Shape /\ all[k].at \in Nat /\ k \in Nat /\ k \in DOMAIN all
  <2> HIDE DEF all
  <2>1. \A k \in kept : k \in DOMAIN all /\ (k <= Len(p) => all[k] # None)
    OBVIOUS
  <2>2. \A k \in kept : all[k] \in Shape /\ k \in Nat
    BY <1>2, <2>1
  <2>3. \A b \in Shape : b.at \in Nat
    BY DEF Shape
  <2>4. QED BY <2>1, <2>2, <2>3
<1> HIDE DEF all
<1>4. IsFiniteSet(kept)
  <2>1. IsFiniteSet(1 .. Len(all))
    BY <1>2, FS_Interval
  <2>2. kept \in SUBSET (1 .. Len(all))
    BY <1>2
  <2>3. QED BY <2>1, <2>2, FS_Subset
<1>5. kept \subseteq DOMAIN all /\ \A k \in kept : k \in Nat /\ all[k].at \in Nat
  BY <1>3
<1> DEFINE Below(j, k) == all[j].at < all[k].at \/ (all[j].at = all[k].at /\ j < k)
<1>6. /\ \A k \in kept : k \notin below[k]
      /\ \A j, k \in kept : j \in below[k] => below[j] \subseteq below[k]
      /\ \A j, k \in kept : j # k => j \in below[k] \/ k \in below[j]
      /\ \A j, k \in kept : all[j].at < all[k].at => j \in below[k]
  <2> HIDE DEF kept
  <2>1. QED BY <1>5
<1>7. below \in [kept -> SUBSET kept]
  OBVIOUS
<1> HIDE DEF kept, below
<1>8. /\ n \in Nat
      /\ \A k \in kept : Cardinality(below[k]) \in 0 .. n - 1
      /\ \A j, k \in kept : j \in below[k] => Cardinality(below[j]) < Cardinality(below[k])
      /\ \A i \in 0 .. n - 1 : \E k \in kept : Cardinality(below[k]) = i
  BY <1>4, <1>6, <1>7, Ranks
<1>9. ASSUME NEW i \in 1 .. n PROVE source(i) \in kept /\ Cardinality(below[source(i)]) = i - 1
  <2>1. i - 1 \in 0 .. n - 1
    BY <1>8
  <2>2. QED BY <1>8, <2>1
<1> HIDE DEF n, source
<1> DEFINE from == [i \in DOMAIN l |-> source(i)]
<1>10. DOMAIN l = 1 .. n /\ \A i \in DOMAIN l : l[i] = all[source(i)]
  BY <1>1
<1>11. l \in Seq(Shape)
  <2>1. \A i \in 1 .. n : all[source(i)] \in Shape
    BY <1>3, <1>5, <1>9
  <2>2. l \in [1 .. n -> Shape]
    BY <1>1, <2>1
  <2>3. QED BY <1>8, <2>2, SeqDef
<1>12. from \in [DOMAIN l -> DOMAIN all] /\ \A i \in DOMAIN l : from[i] = source(i) /\ from[i] \in kept
  BY <1>5, <1>9, <1>10
<1>13. ASSUME NEW i \in DOMAIN l, NEW j \in DOMAIN l PROVE
        /\ i # j => from[i] # from[j]
        /\ l[i].at < l[j].at => i < j
  <2>1. /\ Cardinality(below[from[i]]) = i - 1 /\ Cardinality(below[from[j]]) = j - 1
        /\ from[i] \in kept /\ from[j] \in kept /\ i \in 1 .. n /\ j \in 1 .. n
    BY <1>9, <1>10, <1>12
  <2>2. i # j => from[i] # from[j]
    BY <1>8, <2>1
  <2>3. l[i].at < l[j].at => from[i] \in below[from[j]]
    BY <1>6, <1>10, <1>12, <2>1
  <2>4. l[i].at < l[j].at => i - 1 < j - 1
    BY <1>8, <2>1, <2>3
  <2>5. QED BY <1>8, <2>1, <2>2, <2>4
<1>14. \A i \in DOMAIN l : /\ from[i] > Len(p) => Waiting(l[i], p)
                           /\ from[i] <= Len(p) => l[i] # None
  BY <1>10, <1>12 DEF Waiting, kept
<1>15. ASSUME NEW k \in DOMAIN all, k <= Len(p) => all[k] # None, k > Len(p) => Waiting(all[k], p)
       PROVE  \E i \in DOMAIN l : from[i] = k
  <2>1. k \in kept
    BY <1>15 DEF Waiting, kept
  <2>2. Cardinality(below[k]) \in 0 .. n - 1
    BY <1>8, <2>1
  <2>3. PICK i \in 1 .. n : Cardinality(below[k]) = i - 1
    <3>1. Cardinality(below[k]) + 1 \in 1 .. n /\ Cardinality(below[k]) = (Cardinality(below[k]) + 1) - 1
      BY <1>8, <2>2
    <3>2. QED BY <3>1
  <2>4. source(i) = k
    <3>1. source(i) \in kept /\ Cardinality(below[source(i)]) = Cardinality(below[k])
      BY <1>9, <2>3
    <3>2. QED BY <1>6, <1>8, <2>1, <2>2, <3>1
  <2>5. QED BY <1>10, <2>4
<1>16. /\ from \in [DOMAIN l -> DOMAIN all]
       /\ \A i \in DOMAIN l : l[i] = all[from[i]]
  BY <1>10, <1>12
<1> HIDE DEF from
<1>17. Merging(p, l, from)
  BY <1>13, <1>14, <1>15, <1>16 DEF all, Merging
<1>18. QED BY <1>11, <1>17

LEMMA PageMerged ==
  ASSUME list \in Seq(Shape), page # None => page \in Seq(Shape \cup {None}), MergePage
  PROVE  page # None /\ page \in Seq(Shape \cup {None}) /\ list' \in Seq(Shape) /\ \E from : Merging(page, list', from)
<1>1. page # None /\ list' = MergeLoadedMessagesWithPendingLocal(page)
  BY DEF MergePage
<1>2. PICK l : l = list'
  OBVIOUS
<1>3. l \in Seq(Shape) /\ \E from : Merging(page, l, from)
  BY <1>1, <1>2, MergedIs
<1>4. QED BY <1>1, <1>2, <1>3

(* The first that has an id, which there is                                *)
LEMMA MinIsFirst ==
  ASSUME NEW S \in SUBSET Nat, S # {}
  PROVE  Min(S) \in S /\ \A x \in S : Min(S) <= x
<1> DEFINE Less == {p \in Nat \X Nat : p[1] < p[2]}
<1>1. IsWellFoundedOn(Less, Nat)
  BY NatLessThanWellFounded DEF OpToRel
<1>2. PICK x \in S : \A y \in S : <<y, x>> \notin Less
  <2> HIDE DEF Less
  <2>1. QED BY <1>1, WFMin
<1>3. ASSUME NEW y \in S PROVE x <= y
  <2>1. x \in Nat /\ y \in Nat
    OBVIOUS
  <2>2. y < x => <<y, x>> \in Less
    BY <2>1
  <2>3. QED BY <1>2, <2>1, <2>2
<1>4. QED BY <1>3 DEF Min

Replaces(b, o) == o.id = b.id \/ (b.cid # None /\ o.cid = b.cid)

(* Where it is put                                                         *)
Upserting(b, l, k) ==
  /\ k \in DOMAIN l /\ l[k] = b
  /\ \A i \in DOMAIN l : i # k => i \in DOMAIN list /\ l[i] = list[i]
  /\ k \in DOMAIN list => Replaces(b, list[k])
  /\ \A i \in DOMAIN list : Replaces(b, list[i]) => k <= i
  /\ DOMAIN list \subseteq DOMAIN l

LEMMA UpsertIs ==
  ASSUME list \in Seq(Shape), NEW b \in Shape, NEW l, l = UpsertMessage(b)
  PROVE  l \in Seq(Shape) /\ \E k : Upserting(b, l, k)
<1> DEFINE same == {i \in DOMAIN list : Replaces(b, list[i])}
<1>1. l = IF same = {} THEN Append(list, b) ELSE [list EXCEPT ![Min(same)] = b]
  BY DEF UpsertMessage, Replaces
<1>2. DOMAIN list = 1 .. Len(list) /\ Len(list) \in Nat /\ same \subseteq DOMAIN list /\ same \in SUBSET Nat
  OBVIOUS
<1>3. CASE same = {}
  <2>1. \A i \in DOMAIN list : ~Replaces(b, list[i])
    BY <1>3
  <2> HIDE DEF same
  <2>2. /\ l = Append(list, b) /\ l \in Seq(Shape) /\ Len(l) = Len(list) + 1
        /\ l[Len(list) + 1] = b /\ \A i \in DOMAIN list : l[i] = list[i]
    BY <1>1, <1>3
  <2>3. DOMAIN l = 1 .. Len(list) + 1
    BY <2>2
  <2>4. Len(list) + 1 \in DOMAIN l /\ Len(list) + 1 \notin DOMAIN list
    BY <1>2, <2>3
  <2>5. \A i \in DOMAIN l : i # Len(list) + 1 => i \in DOMAIN list
    BY <1>2, <2>3
  <2>6. Upserting(b, l, Len(list) + 1)
    BY <1>2, <2>1, <2>2, <2>3, <2>4, <2>5 DEF Upserting
  <2>7. QED BY <2>2, <2>6
<1>4. CASE same # {}
  <2>1. Min(same) \in same /\ \A i \in same : Min(same) <= i
    BY <1>2, <1>4, MinIsFirst
  <2>2. Min(same) \in DOMAIN list /\ Replaces(b, list[Min(same)])
    BY <2>1
  <2>3. \A i \in DOMAIN list : Replaces(b, list[i]) => Min(same) <= i
    BY <2>1
  <2> HIDE DEF same
  <2> DEFINE k == Min(same)
  <2> HIDE DEF k
  <2>4. k \in DOMAIN list /\ l = [list EXCEPT ![k] = b]
    BY <1>1, <1>4, <2>2 DEF k
  <2>5. l \in Seq(Shape) /\ DOMAIN l = DOMAIN list /\ l[k] = b
        /\ \A i \in DOMAIN l : i # k => l[i] = list[i]
    BY <2>4
  <2>6. Upserting(b, l, k)
    BY <2>2, <2>3, <2>4, <2>5 DEF k, Upserting
  <2>7. QED BY <2>5, <2>6
<1>5. QED BY <1>3, <1>4

-----------------------------------------------------------------------------
(* What every step leaves                                                  *)

LEMMA CreateIs ==
  ASSUME StatusTyped, NEW a \in Own \cup {Peer}, Create(a)
  PROVE  /\ Sent + 1 \in Message /\ author[Sent + 1] = None /\ author'[Sent + 1] = a
         /\ author' \in [Message -> Own \cup {Peer, None}]
         /\ status' \in [Message -> RowStatus]
         /\ \A m \in Message : m # Sent + 1 => author'[m] = author[m] /\ status'[m] = status[m]
         /\ status'[Sent + 1] = "SENT"
         /\ Created' = 1 .. Sent + 1 /\ Sent' = Sent + 1
<1>1. Sent + 1 \in Message /\ author' = [author EXCEPT ![Sent + 1] = a]
      /\ status' = [status EXCEPT ![Sent + 1] = "SENT"]
  BY DEF Create, Sent
<1>2. Created = 1 .. Sent /\ Sent \in Nat /\ author \in [Message -> Own \cup {Peer, None}]
      /\ status \in [Message -> RowStatus]
  BY DEF StatusTyped
<1>3. Sent + 1 \notin Created
  BY <1>2
<1>4. author[Sent + 1] = None
  BY <1>1, <1>3 DEF Created
<1>5. a # None
  BY IdAssumption
<1>6. Created' = Created \cup {Sent + 1}
  BY <1>1, <1>2, <1>5 DEF Created
<1>7. Created' = 1 .. Sent + 1
  BY <1>2, <1>6
<1>8. Cardinality(1 .. Sent + 1) = Sent + 1
  <2>1. 1 \in Int /\ Sent + 1 \in Int /\ ~(1 > Sent + 1) /\ (Sent + 1) - 1 + 1 = Sent + 1
    BY <1>2
  <2>2. QED BY <2>1, FS_Interval
<1>9. Sent' = Cardinality(Created')
  BY DEF Sent
<1>10. Sent' = Sent + 1
  BY <1>7, <1>8, <1>9
<1>11. status' \in [Message -> RowStatus]
  BY <1>1, <1>2 DEF RowStatus
<1>12. QED BY <1>1, <1>2, <1>4, <1>7, <1>10, <1>11

(* Rows, and what has happened, only get more.                             *)
Grows ==
  /\ Created \subseteq Created' /\ Created' = 1 .. Sent' /\ Sent' \in Nat /\ Sent <= Sent'
  /\ \A m \in Created : author'[m] = author[m]
  /\ author' \in [Message -> Own \cup {Peer, None}]
  /\ status' \in [Message -> RowStatus]
  /\ handed \subseteq handed' /\ readBy \subseteq readBy' /\ recalled \subseteq recalled'
  /\ blamed \subseteq blamed'

LEMMA RowsStay ==
  ASSUME StatusTyped, UNCHANGED <<author, status>>,
         handed \subseteq handed' /\ readBy \subseteq readBy' /\ recalled \subseteq recalled' /\ blamed \subseteq blamed'
  PROVE  Grows
<1>1. Created' = Created
  BY DEF Created
<1>2. Sent' = Sent
  BY <1>1 DEF Sent
<1>3. QED BY <1>1, <1>2 DEF StatusTyped, Grows

LEMMA StepsGrow ==
  ASSUME StatusTyped, [Next]_vars
  PROVE  Grows
<1> USE DEF history
<1>1. ASSUME NEW a \in Own \cup {Peer}, Create(a), UNCHANGED history PROVE Grows
  <2>1. Sent \in Nat /\ Created = 1 .. Sent
    BY DEF StatusTyped
  <2>2. \A m \in Created : m \in Message /\ m # Sent + 1
    BY <2>1 DEF Created
  <2>3. Created \subseteq Created' /\ Sent' \in Nat /\ Sent <= Sent'
    BY <1>1, <2>1, CreateIs
  <2>4. QED BY <1>1, <2>2, <2>3, CreateIs DEF Grows
<1>2. ASSUME NEW c \in Own, Accept(c) \/ Refuse(c) PROVE Grows
  BY <1>1, <1>2, RowsStay DEF Accept, Refuse, server
<1>3. CASE PeerSends
  BY <1>1, <1>3 DEF PeerSends
<1>4. CASE \/ \E m \in Message : MarkDeliveredRead(m) \/ PeerReads(m) \/ Recall(m)
           \/ \E d \in delivering : MarkDeliveredWrite(d)
  <2>1. author' = author /\ status' \in [Message -> RowStatus]
    BY <1>4 DEF MarkDeliveredRead, MarkDeliveredWrite, PeerReads, Recall, StatusTyped, RowStatus
  <2>2. /\ handed \subseteq handed' /\ readBy \subseteq readBy' /\ recalled \subseteq recalled'
        /\ blamed \subseteq blamed'
    BY <1>4 DEF MarkDeliveredRead, MarkDeliveredWrite, PeerReads, Recall
  <2>3. Created' = Created /\ Sent' = Sent
    BY <2>1 DEF Created, Sent
  <2>4. QED BY <2>1, <2>2, <2>3 DEF Grows, StatusTyped
<1>5. ASSUME NEW m \in Message, Push(m) PROVE Grows
  BY <1>5, RowsStay DEF Push, server
<1>6. ASSUME NEW c \in Own, Send(c) \/ CreateFailed(c) \/ EncryptionFails(c) \/ Retry(c) PROVE Grows
  BY <1>6, RowsStay DEF Send, CreateFailed, EncryptionFails, Retry, server
<1>7. ASSUME NEW e \in events, Lose(e) \/ TakeNew(e) \/ HandleDelivered(e) \/ HandleRead(e) PROVE Grows
  BY <1>7, RowsStay DEF Lose, TakeNew, HandleDelivered, HandleRead, server
<1>8. ASSUME NEW e \in events, HandleRecalled(e) \/ HandleError(e) PROVE Grows
  BY <1>8, RowsStay DEF HandleRecalled, HandleError, Blame, server
<1>9. ASSUME NEW h \in handlers, ApplyNew(h) PROVE Grows
  BY <1>9, RowsStay DEF ApplyNew, server
<1>10. CASE HandleErrorElsewhere
  BY <1>10, RowsStay DEF HandleErrorElsewhere, Blame, server
<1>11. CASE LoadPage \/ FallBack \/ MergePage
  BY <1>11, RowsStay DEF LoadPage, FallBack, MergePage, server
<1>12. CASE UNCHANGED vars
  BY <1>12, RowsStay DEF vars, server
<1>13. QED
  BY <1>2, <1>3, <1>4, <1>5, <1>6, <1>7, <1>8, <1>9, <1>10, <1>11, <1>12
  DEF Next, UserNext, ServerNext, ClientNext

-----------------------------------------------------------------------------
(* Types                                                                   *)

LEMMA ShapeIs ==
  /\ \A b \in Shape : b.id \in Own \cup Message /\ b.cid \in Own \cup {None} /\ b.status \in Local /\ b.at \in Nat
  /\ \A b \in Shape, s \in Local : [b EXCEPT !.status = s] \in Shape
  /\ \A b \in Shape, c \in Own, t \in Nat : [b EXCEPT !.id = c, !.status = "sending", !.at = t] \in Shape
<1>1. \A b \in Shape : b.id \in Own \cup Message /\ b.cid \in Own \cup {None} /\ b.status \in Local /\ b.at \in Nat
  BY DEF Shape
<1>2. \A b \in Shape, s \in Local : [b EXCEPT !.status = s] \in Shape
  BY DEF Shape
<1>3. \A b \in Shape, c \in Own, t \in Nat : [b EXCEPT !.id = c, !.status = "sending", !.at = t] \in Shape
  BY DEF Shape, Local
<1>4. QED BY <1>1, <1>2, <1>3

LEMMA MappedIs ==
  ASSUME list \in Seq(Shape), NEW l, l = [i \in DOMAIN list |-> l[i]],
         \A i \in DOMAIN list : l[i] \in Shape
  PROVE  l \in Seq(Shape)
<1>1. DOMAIN list = 1 .. Len(list) /\ Len(list) \in Nat
  OBVIOUS
<1>2. l \in [1 .. Len(list) -> Shape]
  BY <1>1
<1>3. QED BY <1>1, <1>2, SeqDef

LEMMA ElementsAre == list \in Seq(Shape) => \A i \in DOMAIN list : list[i] \in Shape
  OBVIOUS

LEMMA StatusesAre ==
  /\ {"sending", "failed", "sent", "delivered", "read", "recalled"} \subseteq Local
  /\ \A s \in RowStatus : LocalStatus[s] \in Local
  /\ \A s \in RowStatus : LocalStatus[s] \notin {"sending", "failed"}
  BY DEF Local, RowStatus, LocalStatus

LEMMA NewsIs ==
  /\ \A e \in News : e.about \in Own \cup Message /\ e.status \in RowStatus
  /\ \A h \in Waits : h.event \in News /\ h.matched \in BOOLEAN
  BY DEF News, Waits

(* What a message:new brings                                               *)
LEMMA NewIs ==
  ASSUME StatusTyped, NewsIsTrue, NEW h \in handlers
  PROVE  LET m == h.event.about  s == LocalStatus[h.event.status] IN
         /\ m \in Created /\ m \in Message /\ h.event.status \in RowStatus /\ CreatedAt(m) \in Nat
         /\ New(m, IF h.matched THEN "sent" ELSE s) \in Shape
         /\ New(m, s) \in Shape
<1> DEFINE m == h.event.about
           s == LocalStatus[h.event.status]
<1>1. h.event \in News /\ m \in Created
  BY NewsIs DEF NewsIsTrue, True, StatusTyped
<1>2. m \in Message /\ author[m] \in Own \cup {Peer} /\ CreatedAt(m) \in Nat
  BY <1>1 DEF Created, StatusTyped, Message, CreatedAt
<1>3. h.event.status \in RowStatus /\ s \in Local /\ "sent" \in Local
  BY <1>1, NewsIs, StatusesAre
<1>4. ASSUME NEW t \in Local PROVE New(m, t) \in Shape
  <2> HIDE DEF m
  <2>1. QED BY <1>2 DEF New, Shape
<1>5. QED BY <1>1, <1>2, <1>3, <1>4

LEMMA ListStaysTyped ==
  ASSUME StatusTyped, NewsIsTrue, [Next]_vars
  PROVE  list' \in Seq(Shape)
<1>0. list \in Seq(Shape) /\ \A i \in DOMAIN list : list[i] \in Shape
  BY ElementsAre DEF StatusTyped
<1>1. Now \in Nat /\ \A m \in Message : CreatedAt(m) \in Nat
  BY DEF Now, Sent, StatusTyped, Message, CreatedAt
<1>2. ASSUME NEW c \in Own, Send(c) \/ CreateFailed(c) PROVE list' \in Seq(Shape)
  <2>1. \A s \in {"sending", "failed"} : NewBubble(c, s) \in Shape
    BY <1>1 DEF NewBubble, Shape, Local
  <2>2. PICK s \in {"sending", "failed"} : list' = Append(list, NewBubble(c, s))
    BY <1>2 DEF Send, CreateFailed
  <2>3. QED BY <1>0, <2>1, <2>2
<1>3. ASSUME NEW c \in Own, EncryptionFails(c) PROVE list' \in Seq(Shape)
  BY <1>0, <1>3, ShapeIs, StatusesAre, MappedIs DEF EncryptionFails, UpdateMessageStatus, Each
<1>4. ASSUME NEW c \in Own, Retry(c) PROVE list' \in Seq(Shape)
  BY <1>0, <1>1, <1>4, ShapeIs, MappedIs DEF Retry, Each
<1>5. ASSUME NEW e \in events, HandleDelivered(e) PROVE list' \in Seq(Shape)
  BY <1>0, <1>5, ShapeIs, StatusesAre, MappedIs DEF HandleDelivered, UpdateMessageStatus, Each
<1>6. ASSUME NEW e \in events, HandleRead(e) PROVE list' \in Seq(Shape)
  BY <1>0, <1>6, ShapeIs, StatusesAre, MappedIs DEF HandleRead, MarkOwnMessagesReadThrough
<1>7. ASSUME NEW e \in events, HandleRecalled(e) PROVE list' \in Seq(Shape)
  BY <1>0, <1>7, ShapeIs, StatusesAre, MappedIs DEF HandleRecalled, UpdateMessageStatus, Each
<1>8. ASSUME NEW h \in handlers, ApplyNew(h) PROVE list' \in Seq(Shape)
  BY <1>0, <1>8, NewIs, UpsertIs DEF ApplyNew
<1>10. CASE MergePage
  BY <1>10, PageMerged DEF StatusTyped
<1>11. ASSUME NEW c, Blame(c) PROVE list' \in Seq(Shape)
  BY <1>0, <1>11, ShapeIs, StatusesAre, MappedIs DEF Blame, Each
<1>12. CASE HandleErrorElsewhere \/ \E e \in events : HandleError(e)
  BY <1>0, <1>11, <1>12 DEF HandleErrorElsewhere, HandleError
<1>13. CASE UNCHANGED list
  BY <1>0, <1>13
<1>14. ASSUME NEW c \in Own, Accept(c) \/ Refuse(c) PROVE UNCHANGED list
  BY <1>14 DEF Accept, Refuse, client
<1>15. ASSUME NEW m \in Message, Push(m) \/ MarkDeliveredRead(m) \/ PeerReads(m) \/ Recall(m)
       PROVE UNCHANGED list
  BY <1>15 DEF Push, MarkDeliveredRead, PeerReads, Recall, client
<1>16. ASSUME NEW e \in events, Lose(e) \/ TakeNew(e) PROVE UNCHANGED list
  BY <1>16 DEF Lose, TakeNew, client
<1>9. ASSUME NEW d \in delivering, MarkDeliveredWrite(d) PROVE UNCHANGED list
  BY <1>9 DEF MarkDeliveredWrite, client
<1>17. CASE PeerSends \/ LoadPage \/ FallBack \/ UNCHANGED vars
  BY <1>13, <1>17 DEF PeerSends, LoadPage, FallBack, vars, client
<1>18. QED
  BY <1>2, <1>3, <1>4, <1>5, <1>6, <1>7, <1>8, <1>9, <1>10, <1>12, <1>13, <1>14, <1>15, <1>16, <1>17
  DEF Next, UserNext, ServerNext, ClientNext

(* The steps that touch the list                                           *)
ListNext ==
  \/ \E c \in Own : Send(c) \/ CreateFailed(c) \/ EncryptionFails(c) \/ Retry(c)
  \/ \E e \in events : HandleDelivered(e) \/ HandleRead(e) \/ HandleRecalled(e) \/ HandleError(e)
  \/ \E h \in handlers : ApplyNew(h)
  \/ HandleErrorElsewhere \/ MergePage

LEMMA OthersLeaveIt == [Next]_vars => ListNext \/ UNCHANGED <<list, blamed>>
<1> SUFFICES ASSUME [Next]_vars PROVE ListNext \/ UNCHANGED <<list, blamed>>
  OBVIOUS
<1>1. ASSUME NEW c \in Own, Accept(c) \/ Refuse(c) PROVE UNCHANGED <<list, blamed>>
  BY <1>1 DEF Accept, Refuse, client, history
<1>2. ASSUME NEW m \in Message, Push(m) \/ MarkDeliveredRead(m) \/ PeerReads(m) \/ Recall(m)
      PROVE UNCHANGED <<list, blamed>>
  BY <1>2 DEF Push, MarkDeliveredRead, PeerReads, Recall, client, history
<1>3. ASSUME NEW e \in events, Lose(e) \/ TakeNew(e) PROVE UNCHANGED <<list, blamed>>
  BY <1>3 DEF Lose, TakeNew, client, history
<1>4. CASE PeerSends \/ LoadPage \/ FallBack \/ UNCHANGED vars
  BY <1>4 DEF PeerSends, LoadPage, FallBack, vars, client, history
<1>5. ASSUME NEW d \in delivering, MarkDeliveredWrite(d) PROVE UNCHANGED <<list, blamed>>
  BY <1>5 DEF MarkDeliveredWrite, client
<1>6. QED BY <1>1, <1>2, <1>3, <1>4, <1>5 DEF Next, UserNext, ServerNext, ClientNext, ListNext

LEMMA DeliveringStays ==
  ASSUME [Next]_vars
  PROVE  \/ UNCHANGED <<delivering, setBack>>
         \/ \E m \in Message : MarkDeliveredRead(m)
         \/ \E d \in delivering : MarkDeliveredWrite(d)
<1>1. ASSUME NEW c \in Own,
             Send(c) \/ CreateFailed(c) \/ EncryptionFails(c) \/ Retry(c) \/ Accept(c) \/ Refuse(c)
      PROVE  UNCHANGED <<delivering, setBack>>
  BY <1>1 DEF Send, CreateFailed, EncryptionFails, Retry, Accept, Refuse, server, history
<1>2. ASSUME NEW m \in Message, Push(m) \/ PeerReads(m) \/ Recall(m)
      PROVE  UNCHANGED <<delivering, setBack>>
  BY <1>2 DEF Push, PeerReads, Recall, server, history
<1>3. ASSUME NEW e \in events,
             \/ Lose(e) \/ TakeNew(e)
             \/ HandleDelivered(e) \/ HandleRead(e) \/ HandleRecalled(e) \/ HandleError(e)
      PROVE  UNCHANGED <<delivering, setBack>>
  BY <1>3 DEF Lose, TakeNew, HandleDelivered, HandleRead, HandleRecalled, HandleError, server, history
<1>4. ASSUME NEW h \in handlers, ApplyNew(h) PROVE UNCHANGED <<delivering, setBack>>
  BY <1>4 DEF ApplyNew, server, history
<1>5. CASE PeerSends \/ HandleErrorElsewhere \/ LoadPage \/ FallBack \/ MergePage \/ UNCHANGED vars
  BY <1>5 DEF PeerSends, HandleErrorElsewhere, LoadPage, FallBack, MergePage, vars, server, history
<1>6. QED
  BY <1>1, <1>2, <1>3, <1>4, <1>5 DEF Next, UserNext, ServerNext, ClientNext

LEMMA NetStaysTyped ==
  ASSUME StatusTyped, [Next]_vars
  PROVE  /\ wire' \in [Own -> Nat] /\ events' \subseteq News /\ handlers' \subseteq Waits
         /\ delivering' \subseteq Calls
<1> USE DEF StatusTyped
<1>0. \A t \in {"new", "delivered", "read", "recalled", "error"}, m \in Own \cup Message,
        s \in RowStatus : Event(t, m, s) \in News
  BY DEF Event, News
<1>1. \A e \in News, b \in BOOLEAN : [event |-> e, matched |-> b] \in Waits
  BY DEF Waits
<1>2. ASSUME NEW c \in Own, Send(c) \/ CreateFailed(c) \/ EncryptionFails(c) \/ Retry(c)
      PROVE  wire' \in [Own -> Nat] /\ UNCHANGED <<events, handlers>>
  BY <1>2 DEF Send, CreateFailed, EncryptionFails, Retry, net
<1>3. ASSUME NEW c \in Own, Accept(c) \/ Refuse(c)
      PROVE  wire' \in [Own -> Nat] /\ events' \subseteq News /\ UNCHANGED handlers
  <2>1. wire' \in [Own -> Nat] /\ UNCHANGED handlers
    BY <1>3 DEF Accept, Refuse, client
  <2>2. CASE Accept(c)
    <3>1. Sent + 1 \in Message
      BY <2>2, CreateIs DEF Accept
    <3>2. Event("new", Sent + 1, "SENT") \in News
      BY <1>0, <3>1 DEF RowStatus
    <3>3. events' = events \cup {Event("new", Sent + 1, "SENT")}
      BY <2>2 DEF Accept, Tell, Sent
    <3>4. QED BY <2>1, <3>2, <3>3
  <2>3. CASE Refuse(c)
    <3>1. Event("error", c, "SENT") \in News
      BY <1>0 DEF RowStatus
    <3>2. QED BY <2>1, <2>3, <3>1 DEF Refuse, Tell
  <2>4. QED BY <1>3, <2>2, <2>3
<1>4. ASSUME NEW m \in Message, Push(m) \/ MarkDeliveredRead(m) \/ PeerReads(m) \/ Recall(m)
      PROVE  events' \subseteq News /\ UNCHANGED <<wire, handlers>>
  <2>1. /\ Event("new", m, status[m]) \in News /\ Event("read", m, "SENT") \in News
        /\ Event("recalled", m, "SENT") \in News
    BY <1>0 DEF RowStatus
  <2>2. UNCHANGED <<wire, handlers>>
    BY <1>4 DEF Push, MarkDeliveredRead, PeerReads, Recall, net, client
  <2>3. events' \subseteq News
    BY <1>4, <2>1 DEF Push, MarkDeliveredRead, PeerReads, Recall, Tell, net
  <2>4. QED BY <2>2, <2>3
<1>5. ASSUME NEW e \in events, TakeNew(e)
      PROVE  events' \subseteq News /\ handlers' \subseteq Waits /\ UNCHANGED wire
  BY <1>1, <1>5 DEF TakeNew, Got
<1>6. ASSUME NEW e \in events,
             Lose(e) \/ HandleDelivered(e) \/ HandleRead(e) \/ HandleRecalled(e) \/ HandleError(e)
      PROVE  events' \subseteq News /\ UNCHANGED <<wire, handlers>>
  BY <1>6 DEF Lose, HandleDelivered, HandleRead, HandleRecalled, HandleError, Got, client
<1>7. ASSUME NEW h \in handlers, ApplyNew(h)
      PROVE  handlers' \subseteq Waits /\ UNCHANGED <<wire, events>>
  BY <1>7 DEF ApplyNew, net
<1>8. ASSUME PeerSends \/ HandleErrorElsewhere \/ LoadPage \/ FallBack \/ MergePage \/ UNCHANGED vars
      PROVE  UNCHANGED <<wire, events, handlers>>
  BY <1>8 DEF PeerSends, HandleErrorElsewhere, LoadPage, FallBack, MergePage, vars, net, client
<1>9. ASSUME NEW d \in delivering, MarkDeliveredWrite(d)
      PROVE  events' \subseteq News /\ UNCHANGED <<wire, handlers>>
  <2>1. Event("delivered", d.msg, "SENT") \in News
    BY <1>0 DEF Calls, RowStatus
  <2>2. QED BY <1>9, <2>1 DEF MarkDeliveredWrite, Tell, client
<1>10. delivering' \subseteq Calls
  <2>1. ASSUME NEW m \in Message, MarkDeliveredRead(m) PROVE delivering' \subseteq Calls
    BY <2>1 DEF MarkDeliveredRead, Calls
  <2>2. ASSUME NEW d \in delivering, MarkDeliveredWrite(d) PROVE delivering' \subseteq Calls
    BY <2>2 DEF MarkDeliveredWrite
  <2>3. QED BY <2>1, <2>2, DeliveringStays
<1>11. QED
  BY <1>2, <1>3, <1>4, <1>5, <1>6, <1>7, <1>8, <1>9, <1>10 DEF Next, UserNext, ServerNext, ClientNext

(* What a row says of what has happened                                    *)
LEMMA RowIs ==
  ASSUME StatusTyped, RowsAreTrue, NEW m \in Created
  PROVE  /\ Row(m) \in Shape /\ Row(m).id = m /\ Row(m).cid = None /\ Row(m).at = CreatedAt(m)
         /\ Row(m).status = LocalStatus[status[m]]
         /\ Row(m).status \in {"sent", "delivered", "read", "recalled"} /\ Justified(Row(m)) /\ IsRow(Row(m), m)
<1>1. m \in Message /\ status[m] \in RowStatus /\ CreatedAt(m) \in Nat
  BY DEF StatusTyped, Created, CreatedAt, Message
<1>2. /\ LocalStatus[status[m]] \in {"sent", "delivered", "read", "recalled"}
      /\ LocalStatus[status[m]] = "delivered" => status[m] = "DELIVERED"
      /\ LocalStatus[status[m]] = "read" => status[m] = "READ"
      /\ LocalStatus[status[m]] = "recalled" => status[m] = "RECALLED"
  BY <1>1 DEF LocalStatus, RowStatus
<1>3. Row(m) \in Shape
  BY <1>1, <1>2 DEF Row, Shape, Local
<1>4. /\ Row(m).id = m /\ Row(m).cid = None /\ Row(m).at = CreatedAt(m)
      /\ Row(m).status = LocalStatus[status[m]]
  BY DEF Row
<1>5. Justified(Row(m))
  BY <1>1, <1>2, <1>4 DEF Justified, RowsAreTrue
<1>6. IsRow(Row(m), m)
  BY <1>2, <1>3, <1>4, <1>5 DEF IsRow
<1>7. QED BY <1>2, <1>3, <1>4, <1>5, <1>6

(* What was true of a message stays true of it.                            *)
LEMMA RowStays ==
  ASSUME StatusTyped, Grows, NEW m \in Created, NEW b, IsRow(b, m)
  PROVE  m \in Created' /\ IsRow(b, m)'
<1>1. m \in Created' /\ author'[m] = author[m]
  BY DEF Grows
<1>2. Justified(b)'
  BY DEF IsRow, Justified, Grows
<1>3. QED BY <1>1, <1>2 DEF IsRow

LEMMA PageStep ==
  ASSUME StatusTyped, RowsAreTrue, PageIsTrue, CacheIsTrue, [Next]_vars
  PROVE  (page # None => page \in Seq(Shape \cup {None}))' /\ PageIsTrue'
<1>0. Grows
  BY StepsGrow
<1>a. /\ Created = 1 .. Sent /\ Sent \in Nat /\ Sent' \in Nat /\ Sent <= Sent'
      /\ \A m \in Created : m \in Message
  BY <1>0 DEF StatusTyped, Grows, Created
<1>1. CASE UNCHANGED page
  <2>1. (page # None => page \in Seq(Shape \cup {None}))'
    BY <1>1 DEF StatusTyped
  <2>2. SUFFICES ASSUME page # None PROVE PageIsTrue'
    BY <1>1, <2>1 DEF PageIsTrue
  <2>3. Len(page) \in Nat /\ DOMAIN page = 1 .. Len(page) /\ Len(page) <= Sent
    BY <2>2 DEF StatusTyped, PageIsTrue
  <2>4. Len(page') <= Sent'
    BY <1>1, <1>a, <2>3
  <2>5. ASSUME NEW m \in DOMAIN page, page[m] # None PROVE IsRow(page[m], m)'
    <3>1. PICK b : b = page[m]
      OBVIOUS
    <3>2. m \in Created /\ IsRow(b, m)
      BY <1>a, <2>2, <2>3, <2>5, <3>1 DEF PageIsTrue
    <3>3. IsRow(b, m)'
      BY <1>0, <3>2, RowStays
    <3>4. b = page'[m]
      BY <1>1, <3>1
    <3>5. QED BY <3>3, <3>4 DEF IsRow, Justified
  <2>6. QED BY <1>1, <2>1, <2>2, <2>4, <2>5 DEF PageIsTrue
<1>b. ASSUME page' \in [1 .. Sent -> Shape \cup {None}],
             \A m \in 1 .. Sent : page'[m] # None => IsRow(page'[m], m)
      PROVE  (page # None => page \in Seq(Shape \cup {None}))' /\ PageIsTrue'
  <2>1. page' \in Seq(Shape \cup {None})
    BY <1>a, <1>b, SeqDef
  <2>2. DOMAIN page' = 1 .. Sent /\ Len(page') = Sent
    BY <1>a, <1>b, <2>1
  <2>3. ASSUME NEW m \in 1 .. Sent, page'[m] # None PROVE IsRow(page[m], m)'
    <3>1. PICK b : b = page'[m]
      OBVIOUS
    <3>2. IsRow(b, m)'
      BY <1>0, <1>a, <1>b, <2>3, <3>1, RowStays
    <3>3. QED BY <3>1, <3>2 DEF IsRow, Justified
  <2>4. QED BY <1>a, <2>1, <2>2, <2>3 DEF PageIsTrue
<1>2. CASE LoadPage
  <2>1. page' = [m \in 1 .. Sent |-> Row(m)]
    BY <1>2 DEF LoadPage, Sent
  <2>2. \A m \in 1 .. Sent : Row(m) \in Shape /\ IsRow(Row(m), m)
    BY <1>a, RowIs
  <2>3. QED BY <1>b, <2>1, <2>2
<1>3. CASE FallBack
  <2>1. page' \in [1 .. Sent -> {None} \cup UNION {Cached(m) : m \in Created}]
    BY <1>3 DEF FallBack, Sent
  <2>2. ASSUME NEW m \in 1 .. Sent PROVE page'[m] = None \/ (page'[m] \in Shape /\ IsRow(page'[m], m))
    <3>1. m \in DOMAIN page' /\ m \in Created /\ m \in Message
      BY <1>a, <2>1
    <3>2. page'[m] = None \/ page'[m] \in cache[m]
      BY <1>3, <3>1 DEF FallBack, Cached
    <3>3. QED BY <3>1, <3>2 DEF CacheIsTrue, IsRow
  <2>3. page' \in [1 .. Sent -> Shape \cup {None}]
    BY <2>1, <2>2
  <2>4. QED BY <1>b, <2>2, <2>3
<1>4. CASE page' = None
  BY <1>4 DEF PageIsTrue
<1>5. ASSUME NEW c \in Own,
             Accept(c) \/ Refuse(c) \/ Send(c) \/ CreateFailed(c) \/ EncryptionFails(c) \/ Retry(c)
      PROVE UNCHANGED page
  BY <1>5 DEF Accept, Refuse, Send, CreateFailed, EncryptionFails, Retry, client
<1>6. ASSUME NEW m \in Message, Push(m) \/ MarkDeliveredRead(m) \/ PeerReads(m) \/ Recall(m)
      PROVE UNCHANGED page
  BY <1>6 DEF Push, MarkDeliveredRead, PeerReads, Recall, client
<1>7. ASSUME NEW e \in events,
             \/ Lose(e) \/ TakeNew(e)
             \/ HandleDelivered(e) \/ HandleRead(e) \/ HandleRecalled(e) \/ HandleError(e)
      PROVE UNCHANGED page
  BY <1>7 DEF Lose, TakeNew, HandleDelivered, HandleRead, HandleRecalled, HandleError, client
<1>8. ASSUME NEW h \in handlers, ApplyNew(h) PROVE UNCHANGED page
  BY <1>8 DEF ApplyNew
<1>9. ASSUME NEW d \in delivering, MarkDeliveredWrite(d) PROVE UNCHANGED page
  BY <1>9 DEF MarkDeliveredWrite, client
<1>10. CASE PeerSends \/ HandleErrorElsewhere \/ UNCHANGED vars
  BY <1>1, <1>10 DEF PeerSends, HandleErrorElsewhere, vars, client
<1>11. CASE MergePage
  BY <1>4, <1>11 DEF MergePage
<1>12. QED
  BY <1>1, <1>2, <1>3, <1>5, <1>6, <1>7, <1>8, <1>9, <1>10, <1>11
  DEF Next, UserNext, ServerNext, ClientNext

LEMMA NewIsRow ==
  ASSUME StatusTyped, NewsIsTrue, NEW h \in handlers
  PROVE  IsRow(New(h.event.about, LocalStatus[h.event.status]), h.event.about)
<1> DEFINE m == h.event.about
           s == LocalStatus[h.event.status]
           b == New(m, s)
<1>1. /\ m \in Message /\ h.event.status \in RowStatus /\ b \in Shape /\ True(h.event)
      /\ h.event.type = "new"
  BY NewIs DEF NewsIsTrue
<1>2. b.id = m /\ b.cid \in {None, author[m]} /\ b.at = CreatedAt(m) /\ b.status = s
  BY DEF New
<1>3. /\ s \in {"sent", "delivered", "read", "recalled"}
      /\ s = "delivered" => h.event.status = "DELIVERED"
      /\ s = "read" => h.event.status = "READ"
      /\ s = "recalled" => h.event.status = "RECALLED"
  BY <1>1 DEF LocalStatus, RowStatus
<1>4. CreatedAt(m) <= CreatedAt(m)
  BY <1>1 DEF Message, CreatedAt
<1> HIDE DEF b, s
<1>5. Justified(b)
  BY <1>1, <1>2, <1>3, <1>4 DEF Justified, True
<1>6. QED BY <1>1, <1>2, <1>3, <1>5 DEF IsRow, b, s

LEMMA PatchIs ==
  ASSUME StatusTyped, CacheIsTrue, NEW m \in Created, NEW s \in {"delivered", "read", "recalled"},
         s = "delivered" => m \in handed, s = "recalled" => m \in recalled, s = "read" => m \in readBy,
         NEW k \in Message, NEW b \in Patch(m, s)[k]
  PROVE  k \in Created /\ IsRow(b, k)
<1>1. m \in Message /\ cache \in [Message -> SUBSET Shape] /\ CreatedAt(m) <= CreatedAt(m)
  BY DEF StatusTyped, Created, Message, CreatedAt
<1>2. CASE b \in cache[k]
  BY <1>2 DEF CacheIsTrue
<1>3. CASE b \notin cache[k]
  <2>1. PICK o \in cache[m] : k = m /\ b = [o EXCEPT !.status = s]
    BY <1>1, <1>3 DEF Patch
  <2>2. IsRow(o, m) /\ o \in Shape
    BY <1>1, <2>1 DEF CacheIsTrue, IsRow
  <2>3. b \in Shape /\ b.id = o.id /\ b.cid = o.cid /\ b.at = o.at /\ b.status = s
    BY <2>1, <2>2, ShapeIs, StatusesAre DEF Shape
  <2>4. b.id = m /\ b.at = CreatedAt(m) /\ b.cid \in {None, author[m]}
    BY <2>2, <2>3 DEF IsRow
  <2>5. Justified(b)
    BY <1>1, <2>3, <2>4 DEF Justified
  <2>6. QED BY <2>1, <2>3, <2>4, <2>5 DEF IsRow
<1>4. QED BY <1>2, <1>3

LEMMA CacheStep ==
  ASSUME StatusTyped, RowsAreTrue, NewsIsTrue, CacheIsTrue, [Next]_vars
  PROVE  (cache \in [Message -> SUBSET Shape])' /\ CacheIsTrue'
<1>0. Grows
  BY StepsGrow
<1>1. SUFFICES /\ cache' = [m \in Message |-> cache'[m]]
               /\ \A m \in Message : \A b \in cache'[m] : m \in Created /\ IsRow(b, m)
  BY <1>0, RowStays DEF CacheIsTrue, IsRow
<1>a. cache \in [Message -> SUBSET Shape]
  BY DEF StatusTyped
<1>2. CASE UNCHANGED cache
  BY <1>2, <1>a DEF CacheIsTrue
<1>3. CASE LoadPage
  <2>1. cache' = [m \in Message |-> IF m \in Created THEN cache[m] \cup {Row(m)} ELSE cache[m]]
    BY <1>3 DEF LoadPage, Upsert
  <2>2. QED BY <2>1, RowIs DEF CacheIsTrue
<1>4. ASSUME NEW h \in handlers, ApplyNew(h)
      PROVE  /\ cache' = [m \in Message |-> cache'[m]]
             /\ \A m \in Message : \A b \in cache'[m] : m \in Created /\ IsRow(b, m)
  <2> DEFINE n == h.event.about
             b == New(n, LocalStatus[h.event.status])
  <2>1. n \in Created /\ IsRow(b, n)
    BY NewIs, NewIsRow
  <2>2. cache' = [cache EXCEPT ![n] = cache[n] \cup {b}]
    BY <1>4 DEF ApplyNew, Upsert
  <2> HIDE DEF n, b
  <2>3. QED BY <1>a, <2>1, <2>2 DEF CacheIsTrue
<1>5. ASSUME NEW e \in events, HandleDelivered(e) \/ HandleRead(e) \/ HandleRecalled(e)
      PROVE  /\ cache' = [m \in Message |-> cache'[m]]
             /\ \A m \in Message : \A b \in cache'[m] : m \in Created /\ IsRow(b, m)
  <2>1. True(e)
    BY DEF NewsIsTrue
  <2>2. PICK s \in {"delivered", "read", "recalled"} : e.type = s /\ cache' = Patch(e.about, s)
    BY <1>5 DEF HandleDelivered, HandleRead, HandleRecalled
  <2>3. /\ e.about \in Created
        /\ s = "delivered" => e.about \in handed
        /\ s = "recalled" => e.about \in recalled
        /\ s = "read" => e.about \in readBy
    BY <2>1, <2>2 DEF True
  <2>4. \A m \in Message : \A b \in cache'[m] : m \in Created /\ IsRow(b, m)
    BY <2>2, <2>3, PatchIs
  <2>5. cache' = [m \in Message |-> cache'[m]]
    BY <1>a, <2>2 DEF Patch
  <2>6. QED BY <2>4, <2>5
<1>6. ASSUME NEW c \in Own,
             Accept(c) \/ Refuse(c) \/ Send(c) \/ CreateFailed(c) \/ EncryptionFails(c) \/ Retry(c)
      PROVE UNCHANGED cache
  BY <1>6 DEF Accept, Refuse, Send, CreateFailed, EncryptionFails, Retry, client
<1>7. ASSUME NEW m \in Message, Push(m) \/ MarkDeliveredRead(m) \/ PeerReads(m) \/ Recall(m)
      PROVE UNCHANGED cache
  BY <1>7 DEF Push, MarkDeliveredRead, PeerReads, Recall, client
<1>8. ASSUME NEW e \in events, Lose(e) \/ TakeNew(e) \/ HandleError(e) PROVE UNCHANGED cache
  BY <1>8 DEF Lose, TakeNew, HandleError, client
<1>9. ASSUME NEW d \in delivering, MarkDeliveredWrite(d) PROVE UNCHANGED cache
  BY <1>9 DEF MarkDeliveredWrite, client
<1>10. CASE PeerSends \/ HandleErrorElsewhere \/ FallBack \/ MergePage \/ UNCHANGED vars
  BY <1>2, <1>10 DEF PeerSends, HandleErrorElsewhere, FallBack, MergePage, vars, client
<1>11. QED
  BY <1>2, <1>3, <1>4, <1>5, <1>6, <1>7, <1>8, <1>9, <1>10 DEF Next, UserNext, ServerNext, ClientNext

LEMMA RowsStep ==
  ASSUME StatusTyped, RowsAreTrue, NewsIsTrue, [Next]_vars
  PROVE  RowsAreTrue'
<1>0. Grows
  BY StepsGrow
<1>a. status \in [Message -> RowStatus] /\ delivering \subseteq Calls
  BY DEF StatusTyped
<1>1. CASE UNCHANGED <<status, delivering, handed, readBy, recalled, setBack>>
  BY <1>0, <1>1 DEF RowsAreTrue, Grows
<1> DEFINE Told(k) ==
       /\ k \in handed => status[k] # "SENT"
       /\ k \in readBy \ setBack => status[k] \in {"READ", "RECALLED"}
       /\ k \in recalled \ setBack => status[k] = "RECALLED"
       /\ status[k] = "RECALLED" => k \in recalled
       /\ status[k] = "DELIVERED" => k \in handed
       /\ status[k] = "READ" => k \in readBy
           Seen(d) == d.msg \in Created /\ (d.seen # "SENT" => status[d.msg] # "SENT")
<1>2. ASSUME NEW a \in Own \cup {Peer}, Create(a), UNCHANGED <<delivering, handed, readBy, recalled, setBack>>
      PROVE  RowsAreTrue'
  <2>1. Sent + 1 \in Message /\ Sent + 1 \notin Created /\ status'[Sent + 1] = "SENT"
        /\ \A m \in Message : m # Sent + 1 => status'[m] = status[m]
    BY <1>2, CreateIs DEF Created
  <2>2. Sent + 1 \notin handed \cup readBy \cup recalled
    BY <2>1 DEF RowsAreTrue
  <2>3. \A k \in Message : Told(k)'
    BY <1>2, <2>1, <2>2 DEF RowsAreTrue
  <2>4. (handed \cup readBy \cup recalled \subseteq Created)'
    BY <1>0, <1>2 DEF RowsAreTrue, Grows
  <2>5. ASSUME NEW d \in delivering' PROVE Seen(d)'
    <3>1. d \in delivering /\ d.msg \in Created /\ d.msg \in Created' /\ d.msg \in Message
      BY <1>0, <1>2, <2>5 DEF RowsAreTrue, Grows, Created
    <3>2. QED BY <2>1, <3>1 DEF RowsAreTrue
  <2>6. QED BY <2>3, <2>4, <2>5 DEF RowsAreTrue
<1>3. ASSUME NEW m \in Message, MarkDeliveredRead(m) PROVE RowsAreTrue'
  <2>1. m \in Created
    BY <1>3, IdAssumption DEF MarkDeliveredRead, Created
  <2>2. /\ delivering' = delivering \cup {[msg |-> m, seen |-> status[m]]}
        /\ UNCHANGED <<status, handed, readBy, recalled, setBack>>
    BY <1>3 DEF MarkDeliveredRead, history
  <2>3. (handed \cup readBy \cup recalled \subseteq Created)' /\ \A k \in Message : Told(k)'
    BY <1>0, <2>2 DEF RowsAreTrue, Grows
  <2>4. ASSUME NEW d \in delivering' PROVE Seen(d)'
    <3>1. d \in delivering \/ (d.msg = m /\ d.seen = status[m])
      BY <2>2, <2>4
    <3>2. QED BY <1>0, <2>1, <2>2, <3>1 DEF RowsAreTrue, Grows
  <2>5. QED BY <2>3, <2>4 DEF RowsAreTrue
<1>4. ASSUME NEW d \in delivering, MarkDeliveredWrite(d) PROVE RowsAreTrue'
  <2> DEFINE m == d.msg
  <2>1. m \in Created /\ m \in Message /\ (d.seen # "SENT" => status[m] # "SENT")
    BY DEF RowsAreTrue, Created
  <2>2. /\ delivering' \subseteq delivering
        /\ status' = IF d.seen = "SENT" THEN [status EXCEPT ![m] = "DELIVERED"] ELSE status
        /\ setBack' = IF d.seen = "SENT" /\ status[m] \in {"READ", "RECALLED"}
                      THEN setBack \cup {m} ELSE setBack
        /\ handed' = handed \cup {m} /\ UNCHANGED <<readBy, recalled>>
    BY <1>4 DEF MarkDeliveredWrite
  <2> HIDE DEF m
  <2>3. (handed \cup readBy \cup recalled \subseteq Created)'
    BY <1>0, <2>1, <2>2 DEF RowsAreTrue, Grows
  <2>4. ASSUME NEW k \in Message PROVE Told(k)'
    <3>1. CASE k # m \/ d.seen # "SENT"
      <4>1. status'[k] = status[k] /\ (k \in setBack => k \in setBack')
        BY <1>a, <2>2, <3>1
      <4>2. k \in handed' => status[k] # "SENT"
        BY <2>1, <2>2, <3>1 DEF RowsAreTrue
      <4>3. handed \subseteq handed' /\ UNCHANGED <<readBy, recalled>>
        BY <2>2
      <4>4. QED BY <4>1, <4>2, <4>3 DEF RowsAreTrue
    <3>2. CASE k = m /\ d.seen = "SENT"
      <4>1. status'[k] = "DELIVERED" /\ k \in handed' /\ UNCHANGED <<readBy, recalled>>
        BY <1>a, <2>2, <3>2
      <4>2. status[k] \in {"READ", "RECALLED"} => k \in setBack'
        BY <2>2, <3>2
      <4>3. setBack \subseteq setBack'
        BY <2>2
      <4>4. QED BY <4>1, <4>2, <4>3 DEF RowsAreTrue
    <3>3. QED BY <3>1, <3>2
  <2>5. ASSUME NEW c \in delivering' PROVE Seen(c)'
    <3>1. Seen(c)
      BY <2>2, <2>5 DEF RowsAreTrue
    <3>2. c.msg \in Message /\ c.msg \in Created'
      BY <1>0, <3>1 DEF Created, Grows
    <3>3. c.seen # "SENT" => status'[c.msg] # "SENT"
      BY <1>a, <2>1, <2>2, <3>1, <3>2
    <3>4. QED BY <3>2, <3>3
  <2>6. QED BY <2>3, <2>4, <2>5 DEF RowsAreTrue
<1>5. ASSUME NEW m \in Message, PeerReads(m) \/ Recall(m) PROVE RowsAreTrue'
  <2>1. m \in Created
    BY <1>5, IdAssumption DEF PeerReads, Recall, Created
  <2>2. UNCHANGED <<delivering, handed, setBack>>
    BY <1>5 DEF PeerReads, Recall
  <2>3. \/ /\ readBy' = readBy \cup {m} /\ UNCHANGED recalled
           /\ status' = IF status[m] # "RECALLED" THEN [status EXCEPT ![m] = "READ"] ELSE status
        \/ /\ recalled' = recalled \cup {m} /\ UNCHANGED readBy
           /\ status' = [status EXCEPT ![m] = "RECALLED"]
    BY <1>5 DEF PeerReads, Recall
  <2>4. (handed \cup readBy \cup recalled \subseteq Created)'
    BY <1>0, <2>1, <2>2, <2>3 DEF RowsAreTrue, Grows
  <2>5. ASSUME NEW k \in Message PROVE Told(k)' /\ (status[k] # "SENT" => status'[k] # "SENT")
    BY <1>a, <2>2, <2>3 DEF RowsAreTrue, RowStatus
  <2>6. ASSUME NEW d \in delivering' PROVE Seen(d)'
    <3>1. Seen(d)
      BY <2>2, <2>6 DEF RowsAreTrue
    <3>2. d.msg \in Message /\ d.msg \in Created'
      BY <1>0, <3>1 DEF Created, Grows
    <3>3. QED BY <2>5, <3>1, <3>2
  <2>7. QED BY <2>4, <2>5, <2>6 DEF RowsAreTrue
<1>6. ASSUME NEW c \in Own, Accept(c) PROVE RowsAreTrue'
  BY <1>2, <1>6 DEF Accept, history
<1>7. CASE PeerSends
  BY <1>2, <1>7 DEF PeerSends, history
<1>8. ASSUME NEW c \in Own, Refuse(c) \/ Send(c) \/ CreateFailed(c) \/ EncryptionFails(c) \/ Retry(c)
      PROVE  UNCHANGED <<status, delivering, handed, readBy, recalled, setBack>>
  BY <1>8 DEF Refuse, Send, CreateFailed, EncryptionFails, Retry, server, history
<1>9. ASSUME NEW m \in Message, Push(m)
      PROVE  UNCHANGED <<status, delivering, handed, readBy, recalled, setBack>>
  BY <1>9 DEF Push, server, history
<1>10. ASSUME NEW e \in events,
              \/ Lose(e) \/ TakeNew(e)
              \/ HandleDelivered(e) \/ HandleRead(e) \/ HandleRecalled(e) \/ HandleError(e)
      PROVE UNCHANGED <<status, delivering, handed, readBy, recalled, setBack>>
  BY <1>10 DEF Lose, TakeNew, HandleDelivered, HandleRead, HandleRecalled, HandleError,
               server, history
<1>11. ASSUME NEW h \in handlers, ApplyNew(h)
       PROVE UNCHANGED <<status, delivering, handed, readBy, recalled, setBack>>
  BY <1>11 DEF ApplyNew, server, history
<1>12. CASE HandleErrorElsewhere \/ LoadPage \/ FallBack \/ MergePage \/ UNCHANGED vars
  BY <1>1, <1>12 DEF HandleErrorElsewhere, LoadPage, FallBack, MergePage, vars, server, history
<1>13. QED
  BY <1>1, <1>3, <1>4, <1>5, <1>6, <1>7, <1>8, <1>9, <1>10, <1>11, <1>12
  DEF Next, UserNext, ServerNext, ClientNext

LEMMA TrueStays ==
  ASSUME Grows, NEW e, True(e)
  PROVE  True(e)'
  BY DEF Grows, True

LEMMA NewsStep ==
  ASSUME StatusTyped, RowsAreTrue, NewsIsTrue, [Next]_vars
  PROVE  NewsIsTrue'
<1>0. Grows
  BY StepsGrow
<1>1. SUFFICES /\ \A e \in events' : e \in events \/ True(e)'
               /\ \A h \in handlers' : h \in handlers \/ (h.event \in events /\ h.event.type = "new")
  BY <1>0, TrueStays DEF NewsIsTrue
<1>2. ASSUME NEW c \in Own, Send(c) \/ CreateFailed(c) \/ EncryptionFails(c) \/ Retry(c)
      PROVE  UNCHANGED <<events, handlers>>
  BY <1>2 DEF Send, CreateFailed, EncryptionFails, Retry, net
<1>3. ASSUME NEW c \in Own, Accept(c)
      PROVE  /\ \A e \in events' : e \in events \/ True(e)'
             /\ UNCHANGED handlers
  <2> DEFINE new == Event("new", Sent + 1, "SENT")
  <2>1. events' = events \cup {new} /\ UNCHANGED handlers
    BY <1>3 DEF Accept, Tell, Sent, client
  <2>2. Sent + 1 \in Created'
    BY <1>3, CreateIs DEF Accept, StatusTyped
  <2>3. ASSUME NEW e, e = new PROVE True(e)'
    BY <2>2, <2>3 DEF True, Event
  <2> HIDE DEF new
  <2>4. QED BY <2>1, <2>3
<1>4. ASSUME NEW c \in Own, Refuse(c)
      PROVE  /\ \A e \in events' : e \in events \/ True(e)'
             /\ UNCHANGED handlers
  <2> DEFINE new == Event("error", c, "SENT")
  <2>1. events' = events \cup {new} /\ UNCHANGED handlers
    BY <1>4 DEF Refuse, Tell, client
  <2>2. ASSUME NEW e, e = new PROVE True(e)'
    BY <2>2 DEF True, Event
  <2> HIDE DEF new
  <2>3. QED BY <2>1, <2>2
<1>5. ASSUME NEW m \in Message, Push(m) \/ MarkDeliveredRead(m) \/ PeerReads(m) \/ Recall(m)
      PROVE  /\ \A e \in events' : e \in events \/ True(e)'
             /\ UNCHANGED handlers
  <2>1. m \in Created /\ UNCHANGED handlers
    BY <1>5, IdAssumption DEF Push, MarkDeliveredRead, PeerReads, Recall, Created, client
  <2>2. m \in Created'
    BY <1>0, <2>1 DEF Grows
  <2>3. CASE Push(m)
    <3> DEFINE new == Event("new", m, status[m])
    <3>1. events' = events \cup {new} /\ UNCHANGED <<handed, readBy, recalled>>
      BY <2>3 DEF Push, Tell, history
    <3>2. m \in Message
      OBVIOUS
    <3>3. ASSUME NEW e, e = new PROVE True(e)'
      BY <2>2, <3>3, <3>1, <3>2 DEF True, Event, RowsAreTrue
    <3> HIDE DEF new
    <3>4. QED BY <2>1, <3>1, <3>3
  <2>4. ASSUME NEW t \in {"read", "recalled"}, events' = events \cup {Event(t, m, "SENT")},
               /\ t = "read" => m \in readBy'
               /\ t = "recalled" => m \in recalled'
        PROVE  \A e \in events' : e \in events \/ True(e)'
    <3>1. ASSUME NEW e, e = Event(t, m, "SENT") PROVE True(e)'
      BY <2>2, <2>4, <3>1 DEF True, Event
    <3>2. QED BY <2>4, <3>1
  <2>5. CASE MarkDeliveredRead(m)
    BY <2>1, <2>5 DEF MarkDeliveredRead, net
  <2>6. CASE PeerReads(m)
    BY <2>1, <2>4, <2>6 DEF PeerReads, Tell
  <2>7. CASE Recall(m)
    BY <2>1, <2>4, <2>7 DEF Recall, Tell
  <2>8. QED BY <1>5, <2>1, <2>3, <2>5, <2>6, <2>7
<1>6. ASSUME NEW e \in events, TakeNew(e)
      PROVE  /\ events' \subseteq events
             /\ \A h \in handlers' :
                  h \in handlers \/ (h.event \in events /\ h.event.type = "new")
  BY <1>6 DEF TakeNew, Got
<1>7. ASSUME NEW e \in events,
             Lose(e) \/ HandleDelivered(e) \/ HandleRead(e) \/ HandleRecalled(e) \/ HandleError(e)
      PROVE  events' \subseteq events /\ UNCHANGED handlers
  BY <1>7 DEF Lose, HandleDelivered, HandleRead, HandleRecalled, HandleError, Got, client
<1>8. ASSUME NEW h \in handlers, ApplyNew(h)
      PROVE  handlers' \subseteq handlers /\ UNCHANGED events
  BY <1>8 DEF ApplyNew, net
<1>9. CASE PeerSends \/ HandleErrorElsewhere \/ LoadPage \/ FallBack \/ MergePage \/ UNCHANGED vars
  BY <1>9 DEF PeerSends, HandleErrorElsewhere, LoadPage, FallBack, MergePage, vars, net, client
<1>10. ASSUME NEW d \in delivering, MarkDeliveredWrite(d)
       PROVE  /\ \A e \in events' : e \in events \/ True(e)'
              /\ UNCHANGED handlers
  <2> DEFINE new == Event("delivered", d.msg, "SENT")
  <2>1. events' = events \cup {new} /\ UNCHANGED handlers /\ d.msg \in handed'
    BY <1>10 DEF MarkDeliveredWrite, Tell, client
  <2>2. d.msg \in Created'
    BY <1>0 DEF RowsAreTrue, Grows
  <2>3. ASSUME NEW e, e = new PROVE True(e)'
    BY <2>1, <2>2, <2>3 DEF True, Event
  <2> HIDE DEF new
  <2>4. QED BY <2>1, <2>3
<1>11. QED
  BY <1>2, <1>3, <1>4, <1>5, <1>6, <1>7, <1>8, <1>9, <1>10 DEF Next, UserNext, ServerNext, ClientNext

-----------------------------------------------------------------------------
(* The bubbles                                                             *)

Sound(b) == Justified(b) /\ Belongs(b)

LEMMA IdsAre ==
  /\ \A m \in Message : m \in Nat /\ m \notin Own /\ m # None
  /\ None \notin Own /\ Peer \notin Own /\ Peer # None
  BY IdAssumption DEF Message

LEMMA SoundStays ==
  ASSUME StatusTyped, Grows, NEW b \in Shape, Sound(b)
  PROVE  Sound(b)'
<1>1. Justified(b)'
  BY DEF Sound, Justified, Grows
<1>2. Sent \in Nat /\ Sent' \in Nat /\ Sent <= Sent' /\ b.at \in Nat
  BY ShapeIs DEF StatusTyped, Grows
<1>3. b.at <= 2 * Sent + 1 => b.at <= 2 * Sent' + 1
  BY <1>2
<1>4. Belongs(b)'
  BY <1>3 DEF Sound, Belongs, Grows
<1>5. QED BY <1>1, <1>4 DEF Sound

(* How the handlers find a bubble                                          *)
LEMMA IsIs ==
  ASSUME NEW b \in Shape, Belongs(b)
  PROVE  /\ \A c \in Own : Is(b, c) => b.cid = c
         /\ \A m \in Message : Is(b, m) => b.id = m
  BY IdsAre, ShapeIs DEF Is, Belongs

LEMMA TurnedIsSound ==
  ASSUME StatusTyped, NEW b \in Shape, Sound(b)
  PROVE  /\ \A c \in Own : Is(b, c) => Sound([b EXCEPT !.status = "failed"])
         /\ \A c \in Own : Is(b, c) => Sound([b EXCEPT !.id = c, !.status = "sending", !.at = Now])
         /\ \A m \in Message : Is(b, m) /\ m \in handed => Sound([b EXCEPT !.status = "delivered"])
         /\ \A m \in Message : b.at <= CreatedAt(m) /\ m \in readBy => Sound([b EXCEPT !.status = "read"])
         /\ \A m \in Message : Is(b, m) /\ m \in recalled => Sound([b EXCEPT !.status = "recalled"])
<1> USE DEF Sound
<1>1. ASSUME NEW c \in Own, Is(b, c) PROVE Sound([b EXCEPT !.status = "failed"])
  <2>1. b.cid = c
    BY <1>1, IsIs
  <2>2. QED BY <2>1, IdsAre, ShapeIs DEF Shape, Belongs, Justified
<1>2. ASSUME NEW c \in Own, Is(b, c) PROVE Sound([b EXCEPT !.id = c, !.status = "sending", !.at = Now])
  <2>1. b.cid = c /\ c \notin Message
    BY <1>2, IsIs, IdsAre
  <2>2. Now <= 2 * Sent + 1 /\ Now \in Nat
    BY DEF Now, Sent, StatusTyped
  <2> HIDE DEF Now
  <2>3. QED BY <2>1, <2>2 DEF Shape, Belongs, Justified
<1>3. ASSUME NEW m \in Message, Is(b, m), m \in handed PROVE Sound([b EXCEPT !.status = "delivered"])
  <2>1. b.id = m /\ m \notin Own
    BY <1>3, IsIs, IdsAre
  <2>2. QED BY <1>3, <2>1 DEF Shape, Belongs, Justified
<1>4. ASSUME NEW m \in Message, b.at <= CreatedAt(m), m \in readBy PROVE Sound([b EXCEPT !.status = "read"])
  BY <1>4 DEF Shape, Belongs, Justified
<1>5. ASSUME NEW m \in Message, Is(b, m), m \in recalled PROVE Sound([b EXCEPT !.status = "recalled"])
  <2>1. b.id = m /\ m \notin Own
    BY <1>5, IsIs, IdsAre
  <2>2. QED BY <1>5, <2>1 DEF Shape, Belongs, Justified
<1>6. QED BY <1>1, <1>2, <1>3, <1>4, <1>5

(* The bubble that a message:new is turned into                            *)
Arrived(h) ==
  New(h.event.about, IF h.matched THEN "sent" ELSE LocalStatus[h.event.status])

LEMMA ArrivedIs ==
  ASSUME StatusTyped, NewsIsTrue, NEW h \in handlers, ApplyNew(h)
  PROVE  /\ h.event.type = "new" /\ h.event.about \in Created /\ list' = UpsertMessage(Arrived(h))
         /\ Arrived(h) \in Shape /\ Sound(Arrived(h))
         /\ Arrived(h).id = h.event.about
         /\ Arrived(h).cid = IF author[h.event.about] = Peer THEN None ELSE author[h.event.about]
         /\ Arrived(h).status \notin {"sending", "failed"}
         /\ list' \in Seq(Shape) /\ \E k : Upserting(Arrived(h), list', k)
<1> DEFINE m == h.event.about
<1>1. h.event \in News /\ m \in Created /\ h.event.type = "new" /\ True(h.event)
  BY NewsIs DEF ApplyNew, NewsIsTrue, True, StatusTyped
<1>2. m \in Message /\ author[m] \in Own \cup {Peer} /\ CreatedAt(m) \in Nat /\ m \notin Own
  BY <1>1, IdsAre DEF Created, StatusTyped, CreatedAt
<1>3. h.event.status \in RowStatus
  BY <1>1, NewsIs
<1>4. /\ Arrived(h).status \in Local /\ Arrived(h).status \notin {"sending", "failed"}
      /\ Arrived(h).status = "delivered" => h.event.status = "DELIVERED"
      /\ Arrived(h).status = "read" => h.event.status = "READ"
      /\ Arrived(h).status = "recalled" => h.event.status = "RECALLED"
  BY <1>3 DEF Arrived, New, LocalStatus, RowStatus, Local
<1>5. /\ Arrived(h).id = m /\ Arrived(h).cid = (IF author[m] = Peer THEN None ELSE author[m])
      /\ Arrived(h).at = CreatedAt(m)
  BY DEF Arrived, New
<1>6. Arrived(h) \in Shape
  BY NewIs DEF Arrived
<1>7. Justified(Arrived(h))
  <2>1. /\ h.event.status = "DELIVERED" => m \in handed
        /\ h.event.status = "READ" => m \in readBy
        /\ h.event.status = "RECALLED" => m \in recalled
    BY <1>1 DEF True
  <2>2. CreatedAt(m) <= CreatedAt(m)
    BY <1>2
  <2>3. QED BY <1>4, <1>5, <2>1, <2>2 DEF Justified
<1>8. Belongs(Arrived(h))
  BY <1>1, <1>2, <1>4, <1>5 DEF Belongs
<1>9. list' = UpsertMessage(Arrived(h))
  BY DEF ApplyNew, Arrived
<1>10. list' \in Seq(Shape) /\ \E k : Upserting(Arrived(h), list', k)
  <2> DEFINE l == list'
  <2>1. PICK b \in Shape : b = Arrived(h)
    BY <1>6
  <2>2. l = UpsertMessage(b)
    BY <1>9, <2>1
  <2> HIDE DEF l
  <2>3. l \in Seq(Shape) /\ \E k : Upserting(b, l, k)
    BY <2>2, UpsertIs DEF StatusTyped
  <2> USE DEF l
  <2>4. QED BY <2>1, <2>3
<1>11. QED BY <1>1, <1>4, <1>5, <1>6, <1>7, <1>8, <1>9, <1>10 DEF Sound

LEMMA PageRowsAre ==
  ASSUME StatusTyped, PageIsTrue, page # None, NEW m \in DOMAIN page, page[m] # None
  PROVE  /\ m \in Created /\ m \in Message /\ page[m] \in Shape
         /\ IsRow(page[m], m) /\ Sound(page[m])
<1>1. Len(page) <= Sent /\ DOMAIN page = 1 .. Len(page) /\ Len(page) \in Nat /\ Sent \in Nat
  BY DEF PageIsTrue, StatusTyped
<1>2. m \in Created /\ m \in Message /\ m \notin Own
  BY <1>1, IdsAre DEF StatusTyped, Created
<1>3. IsRow(page[m], m)
  BY DEF PageIsTrue
<1>4. QED BY <1>2, <1>3 DEF IsRow, Sound, Belongs

(* Where a bubble is from after a page was merged                          *)
LEMMA MergedFrom ==
  ASSUME StatusTyped, PageIsTrue, MergePage, NEW from, Merging(page, list', from), NEW i \in DOMAIN list'
  PROVE  \/ /\ from[i] \in DOMAIN page /\ from[i] \in Created /\ from[i] \in Message /\ page[from[i]] # None
            /\ list'[i] = page[from[i]] /\ IsRow(list'[i], from[i])
         \/ /\ from[i] - Len(page) \in DOMAIN list /\ list'[i] = list[from[i] - Len(page)]
            /\ Waiting(list'[i], page)
<1>0. page # None /\ page \in Seq(Shape \cup {None}) /\ list \in Seq(Shape)
  BY PageMerged DEF StatusTyped
<1>1. /\ from[i] \in DOMAIN (page \o list) /\ list'[i] = (page \o list)[from[i]]
      /\ from[i] <= Len(page) => list'[i] # None
      /\ from[i] > Len(page) => Waiting(list'[i], page)
  BY DEF Merging
<1>2. CASE from[i] <= Len(page)
  <2>1. from[i] \in DOMAIN page /\ list'[i] = page[from[i]]
    BY <1>0, <1>1, <1>2
  <2>2. QED BY <1>0, <1>1, <1>2, <2>1, PageRowsAre
<1>3. CASE ~(from[i] <= Len(page))
  <2>1. from[i] - Len(page) \in DOMAIN list /\ list'[i] = list[from[i] - Len(page)] /\ from[i] > Len(page)
    BY <1>0, <1>1, <1>3
  <2>2. QED BY <1>1, <2>1
<1>4. QED BY <1>2, <1>3

(* What a step puts into the list is sound as things were before.          *)
LEMMA BubblesTurn ==
  ASSUME StatusTyped, RowsAreTrue, BubblesAreSound, NewsIsTrue, PageIsTrue, [Next]_vars
  PROVE  \A i \in DOMAIN list' : list'[i] \in Shape /\ Sound(list'[i])
<1>0. Grows /\ list' \in Seq(Shape) /\ list \in Seq(Shape)
      /\ \A i \in DOMAIN list : list[i] \in Shape /\ Sound(list[i])
  BY StepsGrow, ListStaysTyped, ElementsAre DEF StatusTyped, BubblesAreSound, Sound
<1>2. \A i \in DOMAIN list' : list'[i] \in Shape
  <2>1. \A l \in Seq(Shape) : \A i \in DOMAIN l : l[i] \in Shape
    OBVIOUS
  <2>2. QED BY <1>0, <2>1
<1>3. ASSUME NEW c \in Own, Send(c) \/ CreateFailed(c) PROVE \A i \in DOMAIN list' : Sound(list'[i])
  <2>1. PICK s \in {"sending", "failed"} : list' = Append(list, NewBubble(c, s))
    BY <1>3 DEF Send, CreateFailed
  <2>2. Sound(NewBubble(c, s))
    <3>1. c \notin Message /\ Now = 2 * Sent + 1 /\ Now \in Nat /\ Now <= Now
      BY IdsAre DEF Now, Sent, StatusTyped
    <3> HIDE DEF Now
    <3>2. QED BY <3>1 DEF NewBubble, Sound, Justified, Belongs
  <2>3. ASSUME NEW i \in DOMAIN list'
        PROVE  (i \in DOMAIN list /\ list'[i] = list[i]) \/ list'[i] = NewBubble(c, s)
    BY <1>0, <2>1
  <2>4. QED BY <1>0, <2>2, <2>3
<1>4. ASSUME NEW c \in Own, EncryptionFails(c) PROVE \A i \in DOMAIN list' : Sound(list'[i])
  BY <1>0, <1>4, TurnedIsSound DEF EncryptionFails, UpdateMessageStatus, Each
<1>5. ASSUME NEW c \in Own, Retry(c) PROVE \A i \in DOMAIN list' : Sound(list'[i])
  BY <1>0, <1>5, TurnedIsSound DEF Retry, Each
<1>6. ASSUME NEW e \in events PROVE True(e)
  BY DEF NewsIsTrue
<1>7. ASSUME NEW e \in events, HandleDelivered(e) PROVE \A i \in DOMAIN list' : Sound(list'[i])
  <2>1. e.about \in handed /\ e.about \in Message
    BY <1>6, <1>7 DEF True, HandleDelivered, Created
  <2>2. QED BY <1>0, <1>7, <2>1, TurnedIsSound DEF HandleDelivered, UpdateMessageStatus, Each
<1>8. ASSUME NEW e \in events, HandleRead(e) PROVE \A i \in DOMAIN list' : Sound(list'[i])
  <2>1. e.about \in readBy /\ e.about \in Message
    BY <1>6, <1>8 DEF True, HandleRead, Created
  <2>2. QED BY <1>0, <1>8, <2>1, TurnedIsSound DEF HandleRead, MarkOwnMessagesReadThrough
<1>9. ASSUME NEW e \in events, HandleRecalled(e) PROVE \A i \in DOMAIN list' : Sound(list'[i])
  <2>1. e.about \in recalled /\ e.about \in Message
    BY <1>6, <1>9 DEF True, HandleRecalled, Created
  <2>2. QED BY <1>0, <1>9, <2>1, TurnedIsSound DEF HandleRecalled, UpdateMessageStatus, Each
<1>10. ASSUME NEW h \in handlers, ApplyNew(h) PROVE \A i \in DOMAIN list' : Sound(list'[i])
  <2>1. Sound(Arrived(h))
    BY <1>10, ArrivedIs
  <2>2. PICK k : Upserting(Arrived(h), list', k)
    BY <1>10, ArrivedIs
  <2>3. QED BY <1>0, <2>1, <2>2 DEF Upserting
<1>12. CASE MergePage
  <2>1. page # None /\ page \in Seq(Shape \cup {None})
    BY <1>12, PageMerged DEF StatusTyped
  <2>2. PICK from : Merging(page, list', from)
    BY <1>0, <1>12, <2>1, PageMerged DEF StatusTyped
  <2>4. ASSUME NEW i \in DOMAIN list' PROVE Sound(list'[i])
    BY <1>0, <1>12, <2>1, <2>2, MergedFrom, PageRowsAre
  <2>5. QED BY <1>2, <2>4
<1>13. ASSUME NEW c, Blame(c) PROVE \A i \in DOMAIN list' : Sound(list'[i])
  <2>1. PICK k \in Latest : list' = Each(list[k].cid, LAMBDA b : [b EXCEPT !.status = "failed"])
    BY <1>13 DEF Blame
  <2>2. list[k].cid \in Own
    BY <1>0 DEF Latest, Sending, Sound, Belongs
  <2>3. QED BY <1>0, <2>1, <2>2, TurnedIsSound DEF Each
<1>14. CASE HandleErrorElsewhere \/ \E e \in events : HandleError(e)
  BY <1>0, <1>13, <1>14 DEF HandleErrorElsewhere, HandleError
<1>15. CASE UNCHANGED list
  BY <1>0, <1>15
<1>16. QED
  BY <1>2, <1>3, <1>4, <1>5, <1>7, <1>8, <1>9, <1>10, <1>12, <1>14, <1>15, OthersLeaveIt DEF ListNext

LEMMA BubblesStep ==
  ASSUME StatusTyped, RowsAreTrue, BubblesAreSound, NewsIsTrue, PageIsTrue, [Next]_vars
  PROVE  BubblesAreSound'
<1>0. Grows
  BY StepsGrow
<1>1. ASSUME NEW b \in Shape, Sound(b) PROVE Sound(b)'
  BY <1>0, <1>1, SoundStays
<1>2. \A b \in Shape : Sound(b) => Justified(b)' /\ Belongs(b)'
  BY <1>1 DEF Sound
<1>3. ASSUME NEW i \in DOMAIN list' PROVE (Justified(list[i]) /\ Belongs(list[i]))'
  <2>1. PICK b : b = list'[i]
    OBVIOUS
  <2>2. Justified(b)' /\ Belongs(b)'
    BY <1>2, <2>1, BubblesTurn
  <2>3. QED BY <2>1, <2>2 DEF Justified, Belongs
<1>4. QED BY <1>3 DEF BubblesAreSound

(* What the handlers make of the bubbles they find                         *)
Same(b, o) == b.id = o.id /\ b.cid = o.cid /\ b.at = o.at

LEMMA FoundIs ==
  ASSUME StatusTyped, BubblesAreSound
  PROVE  /\ list \in Seq(Shape)
         /\ \A i \in DOMAIN list :
              /\ list[i] \in Shape /\ Belongs(list[i])
              /\ \A c \in Own : Is(list[i], c) <=> list[i].cid = c
              /\ \A m \in Message : Is(list[i], m) <=> list[i].id = m
<1>1. list \in Seq(Shape) /\ \A i \in DOMAIN list : list[i] \in Shape /\ Belongs(list[i])
  BY ElementsAre DEF StatusTyped, BubblesAreSound
<1>2. \A b \in Shape : Belongs(b) => /\ \A c \in Own : Is(b, c) <=> b.cid = c
                                   /\ \A m \in Message : Is(b, m) <=> b.id = m
  BY IsIs DEF Is
<1>3. QED BY <1>1, <1>2

LEMMA FailingTurns ==
  ASSUME StatusTyped, BubblesAreSound, NEW c \in Own, EncryptionFails(c)
  PROVE  /\ DOMAIN list' = DOMAIN list
         /\ \A i \in DOMAIN list :
              /\ Same(list'[i], list[i])
              /\ list'[i].status = IF list[i].cid = c THEN "failed" ELSE list[i].status
<1>1. list' = [i \in DOMAIN list |-> IF Is(list[i], c) THEN [list[i] EXCEPT !.status = "failed"] ELSE list[i]]
  BY DEF EncryptionFails, UpdateMessageStatus, Each
<1>2. \A b \in Shape : Same([b EXCEPT !.status = "failed"], b) /\ [b EXCEPT !.status = "failed"].status = "failed"
                     /\ Same(b, b)
  BY DEF Shape, Same
<1>3. QED BY <1>1, <1>2, FoundIs

LEMMA RetryTurns ==
  ASSUME StatusTyped, BubblesAreSound, NEW c \in Own, Retry(c)
  PROVE  /\ DOMAIN list' = DOMAIN list
         /\ \A i \in DOMAIN list :
              /\ list'[i].cid = list[i].cid
              /\ IF list[i].cid = c
                 THEN list'[i].id = c /\ list'[i].status = "sending" /\ list'[i].at = Now
                 ELSE list'[i] = list[i]
<1>1. list' = [i \in DOMAIN list |-> IF Is(list[i], c)
                 THEN [list[i] EXCEPT !.id = c, !.status = "sending", !.at = Now] ELSE list[i]]
  BY DEF Retry, Each
<1>2. \A b \in Shape : \A t :
        LET x == [b EXCEPT !.id = c, !.status = "sending", !.at = t]
        IN  x.id = c /\ x.status = "sending" /\ x.at = t /\ x.cid = b.cid
  BY DEF Shape
<1>3. ASSUME NEW i \in DOMAIN list
      PROVE  /\ list'[i].cid = list[i].cid
             /\ IF list[i].cid = c
                THEN list'[i].id = c /\ list'[i].status = "sending" /\ list'[i].at = Now
                ELSE list'[i] = list[i]
  <2>1. list[i] \in Shape
    BY DEF StatusTyped
  <2>2. Is(list[i], c) <=> list[i].cid = c
    BY FoundIs
  <2>3. list'[i] = IF Is(list[i], c) THEN [list[i] EXCEPT !.id = c, !.status = "sending", !.at = Now] ELSE list[i]
    BY <1>1
  <2>4. QED BY <1>2, <2>1, <2>2, <2>3
<1>4. QED BY <1>1, <1>3

LEMMA NewsTurns ==
  ASSUME StatusTyped, BubblesAreSound, NewsIsTrue, NEW e \in events
  PROVE  /\ HandleDelivered(e) =>
              /\ DOMAIN list' = DOMAIN list
              /\ \A i \in DOMAIN list :
                   /\ Same(list'[i], list[i])
                   /\ list'[i].status = IF list[i].id = e.about THEN "delivered" ELSE list[i].status
         /\ HandleRead(e) =>
              /\ DOMAIN list' = DOMAIN list
              /\ \A i \in DOMAIN list :
                   /\ Same(list'[i], list[i])
                   /\ \/ list'[i].status = list[i].status
                      \/ list'[i].status = "read" /\ list[i].status # "recalled"
         /\ HandleRecalled(e) =>
              /\ DOMAIN list' = DOMAIN list
              /\ \A i \in DOMAIN list :
                   /\ Same(list'[i], list[i])
                   /\ list'[i].status = IF list[i].id = e.about THEN "recalled" ELSE list[i].status
<1>0. e.type # "error" => e.about \in Message
  BY DEF NewsIsTrue, True, Created
<1>1. \A b \in Shape :
        /\ Same([b EXCEPT !.status = "delivered"], b) /\ [b EXCEPT !.status = "delivered"].status = "delivered"
        /\ Same([b EXCEPT !.status = "read"], b) /\ [b EXCEPT !.status = "read"].status = "read"
        /\ Same([b EXCEPT !.status = "recalled"], b) /\ [b EXCEPT !.status = "recalled"].status = "recalled"
        /\ Same(b, b)
  BY DEF Shape, Same
<1>2. ASSUME HandleDelivered(e)
      PROVE  /\ DOMAIN list' = DOMAIN list
             /\ \A i \in DOMAIN list :
                  /\ Same(list'[i], list[i])
                  /\ list'[i].status = IF list[i].id = e.about THEN "delivered" ELSE list[i].status
  <2>1. e.about \in Message
    BY <1>0, <1>2 DEF HandleDelivered
  <2>2. list' = [i \in DOMAIN list |-> IF Is(list[i], e.about) THEN [list[i] EXCEPT !.status = "delivered"] ELSE list[i]]
    BY <1>2 DEF HandleDelivered, UpdateMessageStatus, Each
  <2>3. \A i \in DOMAIN list : list[i] \in Shape /\ (Is(list[i], e.about) <=> list[i].id = e.about)
    BY <2>1, FoundIs
  <2>4. \A b \in Shape : /\ Same([b EXCEPT !.status = "delivered"], b) /\ Same(b, b)
                       /\ [b EXCEPT !.status = "delivered"].status = "delivered"
    BY <1>1
  <2>5. ASSUME NEW i \in DOMAIN list
        PROVE  /\ Same(list'[i], list[i])
               /\ list'[i].status = IF list[i].id = e.about THEN "delivered" ELSE list[i].status
    <3>1. list'[i] = IF list[i].id = e.about THEN [list[i] EXCEPT !.status = "delivered"] ELSE list[i]
      BY <2>2, <2>3
    <3>2. QED BY <2>3, <2>4, <3>1
  <2>6. QED BY <2>2, <2>5
<1>3. ASSUME HandleRead(e)
      PROVE  /\ DOMAIN list' = DOMAIN list
             /\ \A i \in DOMAIN list :
                  /\ Same(list'[i], list[i])
                  /\ \/ list'[i].status = list[i].status
                     \/ list'[i].status = "read" /\ list[i].status # "recalled"
  BY <1>1, <1>3, FoundIs DEF HandleRead, MarkOwnMessagesReadThrough
<1>4. ASSUME HandleRecalled(e)
      PROVE  /\ DOMAIN list' = DOMAIN list
             /\ \A i \in DOMAIN list :
                  /\ Same(list'[i], list[i])
                  /\ list'[i].status = IF list[i].id = e.about THEN "recalled" ELSE list[i].status
  <2>1. e.about \in Message
    BY <1>0, <1>4 DEF HandleRecalled
  <2>2. list' = [i \in DOMAIN list |-> IF Is(list[i], e.about) THEN [list[i] EXCEPT !.status = "recalled"] ELSE list[i]]
    BY <1>4 DEF HandleRecalled, UpdateMessageStatus, Each
  <2>3. \A i \in DOMAIN list : list[i] \in Shape /\ (Is(list[i], e.about) <=> list[i].id = e.about)
    BY <2>1, FoundIs
  <2>4. \A b \in Shape : /\ Same([b EXCEPT !.status = "recalled"], b) /\ Same(b, b)
                       /\ [b EXCEPT !.status = "recalled"].status = "recalled"
    BY <1>1
  <2>5. ASSUME NEW i \in DOMAIN list
        PROVE  /\ Same(list'[i], list[i])
               /\ list'[i].status = IF list[i].id = e.about THEN "recalled" ELSE list[i].status
    <3>1. list'[i] = IF list[i].id = e.about THEN [list[i] EXCEPT !.status = "recalled"] ELSE list[i]
      BY <2>2, <2>3
    <3>2. QED BY <2>3, <2>4, <3>1
  <2>6. QED BY <2>2, <2>5
<1>5. QED BY <1>2, <1>3, <1>4

LEMMA BlameTurns ==
  ASSUME StatusTyped, BubblesAreSound, NEW c, Blame(c)
  PROVE  \E k \in DOMAIN list :
           /\ list[k].status = "sending" /\ list[k].cid \in Own
           /\ blamed' = IF list[k].cid = c THEN blamed ELSE blamed \cup {list[k].cid}
           /\ DOMAIN list' = DOMAIN list
           /\ \A i \in DOMAIN list :
                /\ Same(list'[i], list[i])
                /\ list'[i].status = IF list[i].cid = list[k].cid THEN "failed" ELSE list[i].status
<1>1. PICK k \in Latest :
        /\ list' = Each(list[k].cid, LAMBDA b : [b EXCEPT !.status = "failed"])
        /\ blamed' = IF list[k].cid = c THEN blamed ELSE blamed \cup {list[k].cid}
  BY DEF Blame
<1>2. k \in DOMAIN list /\ list[k].status = "sending" /\ list[k].cid \in Own
  BY DEF Latest, Sending, BubblesAreSound, Belongs
<1>3. list' = [i \in DOMAIN list |-> IF Is(list[i], list[k].cid) THEN [list[i] EXCEPT !.status = "failed"] ELSE list[i]]
  BY <1>1 DEF Each
<1>4. \A b \in Shape : Same([b EXCEPT !.status = "failed"], b) /\ [b EXCEPT !.status = "failed"].status = "failed"
                     /\ Same(b, b)
  BY DEF Shape, Same
<1>5. \A i \in DOMAIN list : list[i] \in Shape /\ (Is(list[i], list[k].cid) <=> list[i].cid = list[k].cid)
  BY <1>2, FoundIs
<1>6. /\ DOMAIN list' = DOMAIN list
      /\ \A i \in DOMAIN list :
           /\ Same(list'[i], list[i])
           /\ list'[i].status = IF list[i].cid = list[k].cid THEN "failed" ELSE list[i].status
  BY <1>3, <1>4, <1>5
<1>7. QED BY <1>1, <1>2, <1>6

LEMMA PeersStep ==
  ASSUME StatusTyped, RowsAreTrue, BubblesAreSound, NewsIsTrue, PageIsTrue, PeersAreShownOnce, [Next]_vars
  PROVE  PeersAreShownOnce'
<1>0. Grows /\ list' \in Seq(Shape) /\ list \in Seq(Shape)
      /\ \A i \in DOMAIN list : list[i] \in Shape /\ Belongs(list[i]) /\ i \in Nat
  BY StepsGrow, ListStaysTyped, ElementsAre DEF StatusTyped, BubblesAreSound
<1>1. \A i \in DOMAIN list' : list'[i].id \in Own \cup Created
  BY BubblesTurn, ShapeIs DEF Sound, Belongs
<1> DEFINE Peers(x) == x \notin Own /\ author[x] = Peer
<1>2. SUFFICES \A i, j \in DOMAIN list' : i # j /\ Peers(list'[i].id) => list'[i].id # list'[j].id
  BY <1>0, <1>1, <1>2 DEF PeersAreShownOnce, IsOwn, Grows
<1>3. \A i, j \in DOMAIN list : i # j /\ Peers(list[i].id) => list[i].id # list[j].id
  BY DEF PeersAreShownOnce, IsOwn
<1> HIDE DEF Peers
<1>4. \A c \in Own : ~Peers(c)
  BY DEF Peers
(* Bubbles that get the id of a send, or keep theirs                       *)
<1>5. CASE /\ DOMAIN list' = DOMAIN list
           /\ \A i \in DOMAIN list : list'[i].id = list[i].id \/ list'[i].id \in Own
  BY <1>3, <1>4, <1>5
<1>6. ASSUME NEW c \in Own, Send(c) \/ CreateFailed(c)
      PROVE  \A i, j \in DOMAIN list' : i # j /\ Peers(list'[i].id) => list'[i].id # list'[j].id
  <2>1. PICK s \in {"sending", "failed"} : list' = Append(list, NewBubble(c, s))
    BY <1>6 DEF Send, CreateFailed
  <2>2. NewBubble(c, s).id = c
    BY DEF NewBubble
  <2>3. ASSUME NEW i \in DOMAIN list'
        PROVE  (i \in DOMAIN list /\ list'[i] = list[i]) \/ list'[i] = NewBubble(c, s)
    BY <1>0, <2>1
  <2>4. QED BY <1>3, <1>4, <2>2, <2>3
<1>7. ASSUME NEW c \in Own, EncryptionFails(c) \/ Retry(c)
      PROVE  DOMAIN list' = DOMAIN list /\ \A i \in DOMAIN list : list'[i].id = list[i].id \/ list'[i].id \in Own
  BY <1>7, FailingTurns, RetryTurns DEF Same
<1>9. ASSUME NEW e \in events, HandleDelivered(e) \/ HandleRead(e) \/ HandleRecalled(e)
      PROVE  DOMAIN list' = DOMAIN list /\ \A i \in DOMAIN list : list'[i].id = list[i].id
  BY <1>9, NewsTurns DEF Same
<1>11. ASSUME NEW c, Blame(c)
       PROVE  DOMAIN list' = DOMAIN list /\ \A i \in DOMAIN list : list'[i].id = list[i].id
  BY <1>11, BlameTurns DEF Same
<1>12. ASSUME NEW h \in handlers, ApplyNew(h)
       PROVE  \A i, j \in DOMAIN list' : i # j /\ Peers(list'[i].id) => list'[i].id # list'[j].id
  <2> DEFINE b == Arrived(h)
  <2>1. Peers(b.id) => b.cid = None
    BY <1>12, ArrivedIs DEF Peers
  <2>0. PICK k : Upserting(b, list', k)
    BY <1>12, ArrivedIs
  <2> HIDE DEF b
  <2>2. /\ k \in DOMAIN list' /\ list'[k] = b
        /\ \A i \in DOMAIN list' : i # k => i \in DOMAIN list /\ list'[i] = list[i]
        /\ k \in DOMAIN list => Replaces(b, list[k])
        /\ \A i \in DOMAIN list : Replaces(b, list[i]) => k <= i
    BY <2>0 DEF Upserting
  <2>3. ASSUME Peers(b.id), NEW i \in DOMAIN list', i # k, list'[i].id = b.id PROVE FALSE
    <3>1. i \in DOMAIN list /\ list[i].id = b.id
      BY <2>2, <2>3
    <3>2. k <= i
      BY <2>2, <3>1 DEF Replaces
    <3>3. k \in DOMAIN list
      <4>1. DOMAIN list' = 1 .. Len(list') /\ Len(list') \in Nat /\ DOMAIN list = 1 .. Len(list) /\ Len(list) \in Nat
        BY <1>0
      <4>2. QED BY <2>2, <3>1, <3>2, <4>1
    <3>4. list[k].id = b.id
      BY <2>1, <2>2, <2>3, <3>3 DEF Replaces
    <3>5. QED BY <1>3, <2>3, <3>1, <3>3, <3>4
  <2>4. QED BY <1>3, <2>2, <2>3
<1>13. CASE MergePage
  <2>1. page # None /\ page \in Seq(Shape \cup {None})
    BY <1>0, <1>13, PageMerged DEF StatusTyped
  <2>2. PICK from : Merging(page, list', from)
    BY <1>0, <1>13, <2>1, PageMerged DEF StatusTyped
  <2>3. ASSUME NEW i \in DOMAIN list'
        PROVE  \/ from[i] \in DOMAIN page /\ list'[i] = page[from[i]] /\ list'[i].id = from[i]
               \/ from[i] - Len(page) \in DOMAIN list /\ list'[i] = list[from[i] - Len(page)] /\ ~Peers(list'[i].id)
    <3>1. CASE Waiting(list'[i], page) /\ from[i] - Len(page) \in DOMAIN list /\ list'[i] = list[from[i] - Len(page)]
      <4>1. list'[i].cid \in Own /\ Belongs(list'[i]) /\ list'[i].id \in Own \cup Message
        BY <1>0, <3>1, OwnAssumption, ShapeIs DEF Waiting
      <4>2. QED BY <3>1, <4>1, IdsAre DEF Belongs, Peers
    <3>2. QED BY <1>13, <2>2, <3>1, MergedFrom DEF IsRow
  <2>4. ASSUME NEW i \in DOMAIN list', NEW j \in DOMAIN list', i # j, Peers(list'[i].id), list'[i].id = list'[j].id
        PROVE  FALSE
    <3>1. from[i] # from[j]
      BY <2>2, <2>4 DEF Merging
    <3>2. from[i] - Len(page) # from[j] - Len(page)
      <4>1. from[i] \in DOMAIN (page \o list) /\ from[j] \in DOMAIN (page \o list)
        BY <2>2 DEF Merging
      <4>2. from[i] \in Nat /\ from[j] \in Nat /\ Len(page) \in Nat
        BY <1>0, <2>1, <4>1
      <4>3. QED BY <3>1, <4>2
    <3>3. QED BY <1>3, <2>3, <2>4, <3>1, <3>2
  <2>5. QED BY <2>4
<1>14. CASE HandleErrorElsewhere \/ \E e \in events : HandleError(e)
  BY <1>5, <1>11, <1>14 DEF HandleErrorElsewhere, HandleError
<1>15. CASE UNCHANGED list
  BY <1>5, <1>15
<1>16. QED
  BY <1>5, <1>6, <1>7, <1>9, <1>12, <1>13, <1>14, <1>15, OthersLeaveIt DEF ListNext

-----------------------------------------------------------------------------
(* The sends                                                               *)

Failed(l, c) == \E i \in DOMAIN l : l[i].cid = c /\ l[i].status = "failed"
Refused(c)   == \E e \in events : e.type = "error" /\ e.about = c
Stored(c)    == \E m \in Message : author[m] = c

LEMMA OnceIs ==
  ASSUME NEW c
  PROVE  Once(c) <=>
           /\ wire[c] <= 1
           /\ wire[c] = 1 => ~Refused(c) /\ ~Stored(c)
           /\ Refused(c) => ~Stored(c)
           /\ \A m, n \in Message : author[m] = c /\ author[n] = c => m = n
           /\ Failed(list, c) => wire[c] = 0 /\ ~Refused(c) /\ ~Stored(c)
  BY DEF Once, Answered, Refused, Stored, Failed

(* What has no part in a send                                              *)
LEMMA OnceStays ==
  ASSUME NEW c, Once(c), wire'[c] = wire[c],
         \A e \in events' : e.type = "error" /\ e.about = c => e \in events,
         \A m \in Message : author'[m] = c => author[m] = c,
         Failed(list', c) => Failed(list, c)
  PROVE  Once(c)'
<1>1. (Refused(c)' => Refused(c)) /\ (Stored(c)' => Stored(c))
  BY DEF Refused, Stored
<1>2. Failed(list, c)' => Failed(list, c)
  BY DEF Failed
<1>3. QED BY <1>1, <1>2, OnceIs DEF Once, Answered, Refused, Stored, Failed

LEMMA TurnsFailed ==
  ASSUME NEW c, DOMAIN list' = DOMAIN list,
         \A i \in DOMAIN list : /\ list'[i].cid = list[i].cid
                                /\ list[i].cid = c => list'[i].status = list[i].status \/ list'[i].status # "failed"
  PROVE  Failed(list', c) => Failed(list, c)
  BY DEF Failed

LEMMA SendOnce ==
  ASSUME StatusTyped, RowsAreTrue, BubblesAreSound, NEW d \in Own,
         Send(d) \/ CreateFailed(d) \/ EncryptionFails(d) \/ Retry(d),
         NEW c \in Own, Once(c)
  PROVE  Once(c)'
<1>0. /\ author' = author /\ events' = events /\ wire \in [Own -> Nat] /\ list \in Seq(Shape)
      /\ \A i \in DOMAIN list : list[i] \in Shape
  BY ElementsAre DEF Send, CreateFailed, EncryptionFails, Retry, server, net, StatusTyped
<1>1. CASE Send(d) \/ CreateFailed(d)
  <2>1. PICK s \in {"sending", "failed"} :
          /\ list' = Append(list, NewBubble(d, s))
          /\ wire' = IF s = "sending" THEN [wire EXCEPT ![d] = @ + 1] ELSE wire
    BY <1>1 DEF Send, CreateFailed, net
  <2>2. NewBubble(d, s).cid = d /\ NewBubble(d, s).status = s
    BY DEF NewBubble
  <2>3. ASSUME NEW i \in DOMAIN list'
        PROVE  (i \in DOMAIN list /\ list'[i] = list[i]) \/ list'[i] = NewBubble(d, s)
    BY <1>0, <2>1
  <2>4. CASE c # d
    <3>1. Failed(list', c) => Failed(list, c)
      BY <2>2, <2>3, <2>4 DEF Failed
    <3>2. wire'[c] = wire[c]
      BY <1>0, <2>1, <2>4
    <3>3. QED BY <1>0, <3>1, <3>2, OnceStays
  <2>5. CASE c = d
    <3>1. wire[c] = 0 /\ ~Refused(c) /\ ~Stored(c) /\ \A i \in DOMAIN list : list[i].cid # c
      BY <1>1, <2>5 DEF Send, CreateFailed, Fresh, Unsent, Refused, Stored
    <3>2. ~Refused(c)' /\ ~Stored(c)'
      BY <1>0, <3>1 DEF Refused, Stored
    <3>3. Failed(list', c) => s = "failed"
      BY <2>2, <2>3, <3>1 DEF Failed
    <3>4. wire'[c] = IF s = "sending" THEN 1 ELSE 0
      BY <1>0, <2>1, <2>5, <3>1
    <3>5. QED BY <3>2, <3>3, <3>4 DEF Once, Answered, Refused, Stored, Failed
  <2>6. QED BY <2>4, <2>5
<1>2. CASE EncryptionFails(d)
  <2>1. /\ DOMAIN list' = DOMAIN list
        /\ \A i \in DOMAIN list : /\ Same(list'[i], list[i])
                                  /\ list'[i].status = IF list[i].cid = d THEN "failed" ELSE list[i].status
    BY <1>2, FailingTurns
  <2>2. wire[d] > 0 /\ wire' = [wire EXCEPT ![d] = @ - 1]
    BY <1>2 DEF EncryptionFails
  <2>3. CASE c # d
    <3>1. Failed(list', c) => Failed(list, c)
      BY <2>1, <2>3, TurnsFailed DEF Same
    <3>2. wire'[c] = wire[c]
      BY <1>0, <2>2, <2>3
    <3>3. QED BY <1>0, <3>1, <3>2, OnceStays
  <2>4. CASE c = d
    <3>1. wire[c] = 1 /\ ~Refused(c) /\ ~Stored(c) /\ wire'[c] = 0
      BY <1>0, <2>2, <2>4, OnceIs
    <3>2. ~Refused(c)' /\ ~Stored(c)'
      BY <1>0, <3>1 DEF Refused, Stored
    <3>3. QED BY <3>1, <3>2 DEF Once, Answered, Refused, Stored, Failed
  <2>5. QED BY <2>3, <2>4
<1>3. CASE Retry(d)
  <2>1. /\ DOMAIN list' = DOMAIN list
        /\ \A i \in DOMAIN list :
             /\ list'[i].cid = list[i].cid
             /\ IF list[i].cid = d THEN list'[i].status = "sending" ELSE list'[i] = list[i]
    BY <1>3, RetryTurns
  <2>2. Failed(list, d) /\ wire' = [wire EXCEPT ![d] = @ + 1]
    BY <1>3 DEF Retry, Failed
  <2>3. CASE c # d
    <3>1. Failed(list', c) => Failed(list, c)
      BY <2>1, <2>3 DEF Failed
    <3>2. wire'[c] = wire[c]
      BY <1>0, <2>2, <2>3
    <3>3. QED BY <1>0, <3>1, <3>2, OnceStays
  <2>4. CASE c = d
    <3>1. wire[c] = 0 /\ ~Refused(c) /\ ~Stored(c) /\ wire'[c] = 1
      BY <1>0, <2>2, <2>4, OnceIs
    <3>2. ~Refused(c)' /\ ~Stored(c)'
      BY <1>0, <3>1 DEF Refused, Stored
    <3>3. ~Failed(list', c)
      BY <2>1, <2>4 DEF Failed
    <3>4. QED BY <3>1, <3>2, <3>3 DEF Once, Answered, Refused, Stored, Failed
  <2>5. QED BY <2>3, <2>4
<1>4. QED BY <1>1, <1>2, <1>3

LEMMA AnswerOnce ==
  ASSUME StatusTyped, NewsIsTrue, NEW d \in Own, Accept(d) \/ Refuse(d), NEW c \in Own, Once(c)
  PROVE  Once(c)'
<1>0. /\ list' = list /\ wire[d] > 0 /\ wire' = [wire EXCEPT ![d] = @ - 1] /\ wire \in [Own -> Nat]
      /\ c # Peer /\ d # Peer /\ c # None /\ d # None
  BY IdAssumption DEF Accept, Refuse, client, StatusTyped
<1>1. Failed(list', c) => Failed(list, c)
  BY <1>0
<1>2. CASE c # d
  <2>1. wire'[c] = wire[c]
    BY <1>0, <1>2
  <2>2. CASE Accept(d)
    <3>1. \A e \in events' : e.type = "error" => e \in events
      BY <2>2 DEF Accept, Tell, Event
    <3>2. \A m \in Message : author'[m] = c => author[m] = c
      BY <1>2, <2>2, CreateIs DEF Accept
    <3>3. QED BY <1>1, <2>1, <3>1, <3>2, OnceStays
  <2>3. CASE Refuse(d)
    <3>1. \A e \in events' : e.about = c => e \in events
      BY <1>2, <2>3 DEF Refuse, Tell, Event
    <3>2. author' = author
      BY <2>3 DEF Refuse, server
    <3>3. QED BY <1>1, <2>1, <3>1, <3>2, OnceStays
  <2>4. QED BY <1>0, <2>2, <2>3
<1>3. CASE c = d
  <2>1. wire[c] = 1 /\ ~Refused(c) /\ ~Stored(c) /\ ~Failed(list, c) /\ wire'[c] = 0
    BY <1>0, <1>3, OnceIs
  <2>2. ~Failed(list', c)
    BY <1>0, <2>1
  <2>3. CASE Accept(d)
    <3>1. ~Refused(c)'
      BY <2>1, <2>3 DEF Accept, Tell, Event, Refused
    <3>2. \A m \in Message : author'[m] = c => m = Sent + 1
      BY <2>1, <2>3, CreateIs DEF Accept, Stored
    <3>3. QED BY <2>1, <2>2, <3>1, <3>2 DEF Once, Answered, Refused, Failed
  <2>4. CASE Refuse(d)
    <3>1. ~Stored(c)'
      BY <2>1, <2>4 DEF Refuse, server, Stored
    <3>2. QED BY <2>1, <2>2, <3>1 DEF Once, Answered, Stored, Failed
  <2>5. QED BY <1>0, <2>3, <2>4
<1>4. QED BY <1>2, <1>3

LEMMA ErrorOnce ==
  ASSUME StatusTyped, BubblesAreSound, NewsIsTrue, HandleErrorElsewhere \/ \E e \in events : HandleError(e),
         NEW c \in Own, c \notin blamed', Once(c)
  PROVE  Once(c)'
<1>0. /\ author' = author /\ wire' = wire /\ events' \subseteq events
  BY DEF HandleErrorElsewhere, HandleError, Got, server, net
<1>1. ASSUME NEW x, Blame(x)
      PROVE  \/ Failed(list', c) => Failed(list, c)
             \/ x = c
  <2>1. PICK k \in DOMAIN list :
          /\ list[k].status = "sending" /\ list[k].cid \in Own
          /\ blamed' = IF list[k].cid = x THEN blamed ELSE blamed \cup {list[k].cid}
          /\ DOMAIN list' = DOMAIN list
          /\ \A i \in DOMAIN list :
               /\ Same(list'[i], list[i])
               /\ list'[i].status = IF list[i].cid = list[k].cid THEN "failed" ELSE list[i].status
    BY <1>1, BlameTurns
  <2>2. CASE list[k].cid = c
    BY <2>1, <2>2
  <2>3. CASE list[k].cid # c
    <3>1. Failed(list', c) => Failed(list, c)
      BY <2>1, <2>3, TurnsFailed DEF Same
    <3>2. QED BY <3>1
  <2>4. QED BY <2>2, <2>3
<1>2. CASE Failed(list', c) => Failed(list, c)
  BY <1>0, <1>2, OnceStays
<1>3. CASE ~(Failed(list', c) => Failed(list, c))
  <2>1. c # None
    BY IdAssumption
  <2>2. PICK e \in events : HandleError(e) /\ e.about = c /\ Blame(c)
    <3>1. ~HandleErrorElsewhere
      BY <1>1, <1>3, <2>1 DEF HandleErrorElsewhere
    <3>2. PICK e \in events : HandleError(e)
      BY <3>1
    <3>3. list' # list
      BY <1>3
    <3>4. Blame(e.about)
      BY <3>2, <3>3 DEF HandleError
    <3>5. QED BY <1>1, <1>3, <3>2, <3>4
  <2>3. e.type = "error" /\ events' = events \ {e}
    BY <2>2 DEF HandleError, Got
  <2>4. \A f \in events : f.type = "error" /\ f.about = c => f = e
    BY <2>2, <2>3 DEF NewsIsTrue, True
  <2>5. Refused(c) /\ ~Refused(c)'
    BY <2>2, <2>3, <2>4 DEF Refused
  <2>6. wire[c] = 0 /\ ~Stored(c)
    BY <2>5, OnceIs DEF StatusTyped
  <2>7. ~Stored(c)' /\ wire'[c] = 0
    BY <1>0, <2>6 DEF Stored
  <2>8. QED BY <2>5, <2>7 DEF Once, Answered, Refused, Stored
<1>4. QED BY <1>2, <1>3

LEMMA OnceStep ==
  ASSUME StatusTyped, RowsAreTrue, BubblesAreSound, NewsIsTrue, PageIsTrue, [Next]_vars,
         NEW c \in Own, c \notin blamed', Once(c)
  PROVE  Once(c)'
<1> DEFINE Calm == /\ wire' = wire /\ author' = author
                   /\ \A e \in events' : e.type = "error" => e \in events
<1>0. list \in Seq(Shape) /\ list' \in Seq(Shape) /\ c # Peer
  BY ListStaysTyped, IdAssumption DEF StatusTyped
<1>1. ASSUME Calm, Failed(list', c) => Failed(list, c) PROVE Once(c)'
  BY <1>1, OnceStays
<1>2. ASSUME NEW d \in Own, Send(d) \/ CreateFailed(d) \/ EncryptionFails(d) \/ Retry(d) PROVE Once(c)'
  BY <1>2, SendOnce
<1>3. ASSUME NEW d \in Own, Accept(d) \/ Refuse(d) PROVE Once(c)'
  BY <1>3, AnswerOnce
<1>4. CASE HandleErrorElsewhere \/ \E e \in events : HandleError(e)
  BY <1>4, ErrorOnce
<1>5. CASE PeerSends
  <2>1. \A m \in Message : author'[m] = c => author[m] = c
    BY <1>0, <1>5, CreateIs DEF PeerSends
  <2>2. wire' = wire /\ events' = events /\ list' = list
    BY <1>5 DEF PeerSends, net, client
  <2>3. QED BY <2>1, <2>2, OnceStays
<1>6. ASSUME NEW m \in Message, Push(m) \/ MarkDeliveredRead(m) \/ PeerReads(m) \/ Recall(m) PROVE Once(c)'
  <2>1. Calm /\ list' = list
    BY <1>6 DEF Push, MarkDeliveredRead, PeerReads, Recall, Tell, Event, server, net, client
  <2>2. QED BY <1>1, <2>1
<1>7. ASSUME NEW e \in events, Lose(e) \/ TakeNew(e) PROVE Once(c)'
  <2>1. Calm /\ list' = list
    BY <1>7 DEF Lose, TakeNew, Got, server, client
  <2>2. QED BY <1>1, <2>1
<1>8. ASSUME NEW e \in events, HandleDelivered(e) \/ HandleRead(e) \/ HandleRecalled(e) PROVE Once(c)'
  <2>1. Calm
    BY <1>8 DEF HandleDelivered, HandleRead, HandleRecalled, Got, server
  <2>2. DOMAIN list' = DOMAIN list
        /\ \A i \in DOMAIN list : /\ list'[i].cid = list[i].cid
                                  /\ list'[i].status = list[i].status \/ list'[i].status # "failed"
    BY <1>8, NewsTurns DEF Same
  <2>3. Failed(list', c) => Failed(list, c)
    BY <2>2, TurnsFailed
  <2>4. QED BY <1>1, <2>1, <2>3
<1>9. ASSUME NEW d \in delivering, MarkDeliveredWrite(d) PROVE Once(c)'
  <2>1. Calm /\ list' = list
    BY <1>9 DEF MarkDeliveredWrite, Tell, Event, client
  <2>2. QED BY <1>1, <2>1
<1>10. ASSUME NEW h \in handlers, ApplyNew(h) PROVE Once(c)'
  <2>1. Calm
    BY <1>10 DEF ApplyNew, server, net
  <2>2. PICK k : Upserting(Arrived(h), list', k)
    BY <1>10, ArrivedIs
  <2>3. Arrived(h).status # "failed"
    BY <1>10, ArrivedIs
  <2>4. Failed(list', c) => Failed(list, c)
    BY <2>2, <2>3 DEF Failed, Upserting
  <2>5. QED BY <1>1, <2>1, <2>4
<1>11. CASE MergePage
  <2>1. Calm
    BY <1>11 DEF MergePage, server, net
  <2>3. PICK from : Merging(page, list', from)
    BY <1>0, <1>11, PageMerged DEF StatusTyped
  <2>4. ASSUME NEW i \in DOMAIN list', list'[i].status = "failed" PROVE \E j \in DOMAIN list : list[j] = list'[i]
    BY <1>11, <2>3, <2>4, MergedFrom DEF IsRow
  <2>5. Failed(list', c) => Failed(list, c)
    BY <2>4 DEF Failed
  <2>6. QED BY <1>1, <2>1, <2>5
<1>12. CASE LoadPage \/ FallBack \/ UNCHANGED vars
  <2>1. Calm /\ list' = list
    BY <1>12 DEF LoadPage, FallBack, vars, server, net, client
  <2>2. QED BY <1>1, <2>1
<1>13. QED
  BY <1>2, <1>3, <1>4, <1>5, <1>6, <1>7, <1>8, <1>9, <1>10, <1>11, <1>12
  DEF Next, UserNext, ServerNext, ClientNext

-----------------------------------------------------------------------------
(* The order of the bubbles of a send                                      *)

(* The bubble stays where it is, and keeps what it is about.               *)
LEMMA OrderStays ==
  ASSUME StatusTyped, BubblesAreSound, Grows, NEW c \in Own, InOrder(c),
         DOMAIN list' = DOMAIN list, \A i \in DOMAIN list : Same(list'[i], list[i]),
         \A m \in Message : author'[m] = c => author[m] = c
  PROVE  InOrder(c)'
<1>1. \A i \in DOMAIN list : IsOf(list[i], c)' => IsOf(list[i], c)
  BY DEF IsOf, Same
<1>2. \A i \in DOMAIN list, m \in Message : list'[i].id = c /\ author'[m] = c => list[i].at < CreatedAt(m)
  BY DEF InOrder, Same
<1>3. \A i, j \in DOMAIN list :
        i # j /\ list'[i].cid = c /\ IsOf(list[j], c)' => i < j /\ list'[j].cid = None
  BY <1>1 DEF InOrder, Same
<1>4. QED BY <1>2, <1>3 DEF InOrder, Same, IsOf, CreatedAt

LEMMA SendOrder ==
  ASSUME StatusTyped, BubblesAreSound, NEW d \in Own, Send(d) \/ CreateFailed(d) \/ Retry(d),
         NEW c \in Own, Once(c), InOrder(c)
  PROVE  InOrder(c)'
<1>0. /\ author' = author /\ list \in Seq(Shape)
      /\ c \notin Message /\ d \notin Message
  BY IdsAre DEF Send, CreateFailed, Retry, server, StatusTyped
<1>1. CASE Send(d) \/ CreateFailed(d)
  <2>1. PICK s \in {"sending", "failed"} : list' = Append(list, NewBubble(d, s))
    BY <1>1 DEF Send, CreateFailed
  <2>2. NewBubble(d, s).cid = d /\ NewBubble(d, s).id = d
    BY DEF NewBubble
  <2>3. ASSUME NEW i \in DOMAIN list'
        PROVE  (i \in DOMAIN list /\ list'[i] = list[i]) \/ list'[i] = NewBubble(d, s)
    BY <1>0, <2>1
  <2>4. CASE c # d
    <3>1. ASSUME NEW i \in DOMAIN list', list'[i].cid = c \/ list'[i].id = c \/ IsOf(list[i], c)'
          PROVE  i \in DOMAIN list /\ list'[i] = list[i]
      BY <1>0, <2>2, <2>3, <2>4, <3>1 DEF IsOf
    <3>2. \A i, j \in DOMAIN list' :
            i # j /\ list'[i].cid = c /\ IsOf(list[j], c)' => i < j /\ list'[j].cid = None
      BY <1>0, <3>1 DEF InOrder, IsOf
    <3>3. \A i \in DOMAIN list', m \in Message : list'[i].id = c /\ author[m] = c => list'[i].at < CreatedAt(m)
      BY <3>1 DEF InOrder
    <3>4. QED BY <1>0, <3>2, <3>3 DEF InOrder, CreatedAt
  <2>5. CASE c = d
    <3>1. (\A i \in DOMAIN list : list[i].cid # c) /\ \A m \in Message : author[m] # c
      BY <1>1, <2>5 DEF Send, CreateFailed, Fresh, Unsent
    <3>0. \A i \in DOMAIN list : list'[i] = list[i]
      BY <1>0, <2>1
    <3>2. \A i \in DOMAIN list' : IsOf(list[i], c)' => i \notin DOMAIN list
      BY <1>0, <3>0, <3>1 DEF IsOf
    <3>3. ASSUME NEW i \in DOMAIN list', NEW j \in DOMAIN list', i \notin DOMAIN list, j \notin DOMAIN list
          PROVE  i = j
      BY <1>0, <2>1, <3>3
    <3>4. \A i \in DOMAIN list' : list'[i].cid = c => i \notin DOMAIN list
      BY <3>0, <3>1
    <3>5. QED BY <1>0, <3>1, <3>2, <3>3, <3>4 DEF InOrder
  <2>6. QED BY <2>4, <2>5
<1>2. CASE Retry(d)
  <2>1. /\ DOMAIN list' = DOMAIN list
        /\ \A i \in DOMAIN list :
             /\ list'[i].cid = list[i].cid
             /\ IF list[i].cid = d THEN list'[i].id = d ELSE list'[i] = list[i]
    BY <1>2, RetryTurns
  <2>2. \A i \in DOMAIN list : IsOf(list[i], c)' => IsOf(list[i], c)
    BY <1>0, <2>1 DEF IsOf
  <2>3. \A i, j \in DOMAIN list' :
          i # j /\ list'[i].cid = c /\ IsOf(list[j], c)' => i < j /\ list'[j].cid = None
    BY <2>1, <2>2 DEF InOrder
  <2>4. CASE c # d
    <3>1. \A i \in DOMAIN list : list'[i].id = c => list'[i] = list[i]
      BY <2>1, <2>4
    <3>2. \A i \in DOMAIN list', m \in Message : list'[i].id = c /\ author[m] = c => list'[i].at < CreatedAt(m)
      BY <2>1, <3>1 DEF InOrder
    <3>3. QED BY <1>0, <2>3, <3>2 DEF InOrder, CreatedAt
  <2>5. CASE c = d
    <3>1. ~Stored(c)
      BY <1>2, <2>5, OnceIs DEF Retry, Failed
    <3>2. QED BY <1>0, <2>3, <3>1 DEF InOrder, Stored
  <2>6. QED BY <2>4, <2>5
<1>3. QED BY <1>1, <1>2

LEMMA CreateOrder ==
  ASSUME StatusTyped, BubblesAreSound, NEW a \in Own \cup {Peer}, Create(a), list' = list,
         NEW c \in Own, InOrder(c)
  PROVE  InOrder(c)'
<1>1. Sent \in Nat /\ Created = 1 .. Sent /\ \A m \in Message : m # Sent + 1 => author'[m] = author[m]
  BY CreateIs DEF StatusTyped
<1>2. \A i \in DOMAIN list : IsOf(list[i], c)' => IsOf(list[i], c)
  <2>1. \A i \in DOMAIN list : list[i].id \in Message => list[i].id # Sent + 1
    BY <1>1 DEF BubblesAreSound, Belongs
  <2>2. QED BY <1>1, <2>1 DEF IsOf
<1>3. ASSUME NEW i \in DOMAIN list, NEW m \in Message, list[i].id = c, author'[m] = c
      PROVE  list[i].at < CreatedAt(m)
  <2>1. CASE m # Sent + 1
    BY <1>1, <1>3, <2>1 DEF InOrder
  <2>2. CASE m = Sent + 1
    <3>1. list[i] \in Shape /\ Belongs(list[i])
      BY FoundIs
    <3>2. list[i].at <= 2 * Sent + 1 /\ list[i].at \in Nat
      BY <1>3, <3>1, ShapeIs DEF Belongs
    <3>3. QED BY <1>1, <2>2, <3>2 DEF CreatedAt
  <2>3. QED BY <2>1, <2>2
<1>4. \A i, j \in DOMAIN list :
        i # j /\ list[i].cid = c /\ IsOf(list[j], c)' => i < j /\ list[j].cid = None
  BY <1>2 DEF InOrder
<1>5. QED BY <1>3, <1>4 DEF InOrder, IsOf, CreatedAt

LEMMA ArrivalOrder ==
  ASSUME StatusTyped, BubblesAreSound, NewsIsTrue, NEW h \in handlers, ApplyNew(h),
         NEW c \in Own, Once(c), InOrder(c)
  PROVE  InOrder(c)'
<1> DEFINE b == Arrived(h)
           m == h.event.about
<1>0. /\ author' = author /\ list \in Seq(Shape) /\ list' \in Seq(Shape)
      /\ b.id = m /\ b.cid = (IF author[m] = Peer THEN None ELSE author[m])
      /\ m \in Message /\ m \notin Own /\ c # Peer /\ c # None
  BY ArrivedIs, IdsAre DEF ApplyNew, server, StatusTyped, Created
<1>1. PICK k : Upserting(b, list', k)
  BY ArrivedIs
<1> HIDE DEF b, m
<1>2. /\ k \in DOMAIN list' /\ list'[k] = b
      /\ \A i \in DOMAIN list' : i # k => i \in DOMAIN list /\ list'[i] = list[i]
      /\ k \in DOMAIN list => Replaces(b, list[k])
      /\ \A i \in DOMAIN list : Replaces(b, list[i]) => k <= i
  BY <1>1 DEF Upserting
<1>3. \A i \in DOMAIN list' : i # k => (IsOf(list[i], c)' <=> IsOf(list[i], c))
  BY <1>0, <1>2 DEF IsOf
<1>4. \A i \in DOMAIN list', n \in Message : list'[i].id = c /\ author[n] = c => list'[i].at < CreatedAt(n)
  BY <1>0, <1>2 DEF InOrder
<1>5. ASSUME NEW i \in DOMAIN list', NEW j \in DOMAIN list', i # j, list'[i].cid = c, IsOf(list[j], c)'
      PROVE  i < j /\ list'[j].cid = None
  <2>1. CASE i # k /\ j # k
    BY <1>2, <1>3, <1>5, <2>1 DEF InOrder
  <2>2. CASE i = k \/ j = k
    <3>1. author[m] = c /\ b.cid = c
      BY <1>0, <1>2, <1>5, <2>2 DEF IsOf
    <3>2. \A n \in DOMAIN list : Replaces(b, list[n]) => IsOf(list[n], c)
      BY <1>0, <3>1 DEF Replaces, IsOf
    <3>3. ASSUME NEW n \in DOMAIN list, n # k, list[n].cid = c PROVE FALSE
      <4>1. k <= n
        BY <1>0, <1>2, <3>1, <3>3 DEF Replaces
      <4>2. /\ DOMAIN list' = 1 .. Len(list') /\ Len(list') \in Nat
            /\ DOMAIN list = 1 .. Len(list) /\ Len(list) \in Nat
        BY <1>0
      <4>3. k \in DOMAIN list
        BY <1>2, <4>1, <4>2
      <4>4. IsOf(list[k], c)
        BY <1>2, <3>2, <4>3
      <4>5. n < k
        BY <3>3, <4>3, <4>4 DEF InOrder
      <4>6. QED BY <4>1, <4>2, <4>3, <4>5
    <3>4. i = k
      BY <1>2, <1>5, <2>2, <3>3
    <3>5. j \in DOMAIN list /\ list'[j] = list[j] /\ IsOf(list[j], c) /\ list[j].cid # c
      BY <1>2, <1>3, <1>5, <3>3, <3>4
    <3>6. list[j].id \in Message /\ author[list[j].id] = c
      BY <3>5 DEF IsOf
    <3>7. list[j].id = m
      BY <1>0, <3>1, <3>6, OnceIs
    <3>8. k <= j
      BY <1>0, <1>2, <3>5, <3>7 DEF Replaces
    <3>9. list[j].cid = None
      BY <3>5, <3>6 DEF BubblesAreSound, Belongs
    <3>10. k \in Nat /\ j \in Nat
      BY <1>0, <1>2
    <3>11. QED BY <1>5, <3>4, <3>5, <3>8, <3>9, <3>10
  <2>3. QED BY <2>1, <2>2
<1>6. QED BY <1>0, <1>4, <1>5 DEF InOrder, CreatedAt

LEMMA MergeOrder ==
  ASSUME StatusTyped, BubblesAreSound, PageIsTrue, MergePage,
         NEW c \in Own, Once(c), InOrder(c)
  PROVE  InOrder(c)'
<1>0. /\ author' = author /\ list \in Seq(Shape) /\ list' \in Seq(Shape)
      /\ page # None /\ page \in Seq(Shape \cup {None}) /\ c \notin Message /\ c # None
      /\ TextOwn \subseteq Own /\ None \notin Own
  BY PageMerged, IdsAre, OwnAssumption DEF MergePage, server, StatusTyped
<1>1. PICK from : Merging(page, list', from)
  BY <1>0, PageMerged DEF StatusTyped
<1> DEFINE old(i) == from[i] - Len(page)
           Paged(i) == /\ from[i] \in DOMAIN page /\ from[i] \in Message /\ page[from[i]] # None
                       /\ list'[i] = page[from[i]] /\ IsRow(list'[i], from[i])
           Kept(i)  == /\ old(i) \in DOMAIN list /\ list'[i] = list[old(i)]
                       /\ Waiting(list'[i], page)
<1>2. ASSUME NEW i \in DOMAIN list' PROVE Paged(i) \/ Kept(i)
  BY <1>1, MergedFrom
<1>3. \A i, j \in DOMAIN list' : i # j => from[i] # from[j] /\ old(i) # old(j)
  <2>1. ASSUME NEW i \in DOMAIN list' PROVE from[i] \in Nat
    <3>1. from[i] \in DOMAIN (page \o list)
      BY <1>1 DEF Merging
    <3>2. QED BY <1>0, <3>1
  <2>2. \A i, j \in DOMAIN list' : i # j => from[i] # from[j]
    BY <1>1 DEF Merging
  <2>3. Len(page) \in Nat
    BY <1>0
  <2>4. QED BY <2>1, <2>2, <2>3
<1> HIDE DEF old
<1>4. ASSUME NEW i \in DOMAIN list', NEW m \in Message, list'[i].id = c, author[m] = c
      PROVE  list'[i].at < CreatedAt(m)
  BY <1>0, <1>2, <1>4 DEF InOrder, IsRow
(* A row is of the send if its message is.                                 *)
<1>5. ASSUME NEW j \in DOMAIN list', Paged(j), IsOf(list'[j], c)
      PROVE  author[from[j]] = c /\ list'[j].cid \in {None, c} /\ list'[j].id = from[j]
  BY <1>0, <1>5 DEF IsOf, IsRow
(* A bubble that is kept has its clientMessageId.                          *)
<1>6. ASSUME NEW j \in DOMAIN list', Kept(j), IsOf(list'[j], c)
      PROVE  list'[j].cid = c /\ (list'[j].id = c \/ (list'[j].id \in Message /\ author[list'[j].id] = c))
  <2>1. list'[j].cid \in Own /\ Belongs(list'[j]) /\ list'[j].id \in Own \cup Message
    BY <1>0, <1>6, FoundIs, ShapeIs DEF Waiting
  <2>2. QED BY <1>0, <1>6, <2>1 DEF IsOf, Belongs
(* What is kept is not in the page.                                        *)
<1>7. ASSUME NEW i \in DOMAIN list', NEW j \in DOMAIN list', Kept(i), Paged(j)
      PROVE  {list'[j].id, list'[j].cid} \cap {list'[i].id, list'[i].cid} = {}
  BY <1>7 DEF Waiting
<1>8. ASSUME NEW i \in DOMAIN list', NEW j \in DOMAIN list', i # j, list'[i].cid = c, IsOf(list'[j], c)
      PROVE  i < j /\ list'[j].cid = None
  <2>0. IsOf(list'[i], c)
    BY <1>8 DEF IsOf
  <2> HIDE DEF Paged, Kept
  <2>1. CASE Paged(i) /\ Paged(j)
    <3>1. author[from[i]] = c /\ author[from[j]] = c /\ from[i] \in Message /\ from[j] \in Message
      BY <1>5, <1>8, <2>0, <2>1 DEF Paged
    <3>2. QED BY <1>3, <1>8, <3>1, OnceIs
  <2>2. CASE Paged(i) /\ Kept(j)
    BY <1>6, <1>7, <1>8, <2>2
  <2>3. CASE Kept(i) /\ Paged(j)
    <3>1. author[from[j]] = c /\ list'[j].cid \in {None, c} /\ list'[j].id = from[j] /\ from[j] \in Message
          /\ list'[j].at = CreatedAt(from[j])
      BY <1>5, <1>8, <2>3 DEF Paged, IsRow
    <3>2. list'[i].id = c \/ (list'[i].id \in Message /\ author[list'[i].id] = c)
      BY <1>6, <2>0, <2>3
    <3>3. list'[i].id # from[j] /\ list'[j].cid # c
      BY <1>7, <1>8, <2>3, <3>1
    <3>4. list'[i].id = c
      BY <3>1, <3>2, <3>3, OnceIs
    <3>5. list'[i].at < list'[j].at
      BY <1>4, <3>1, <3>4
    <3>6. i < j
      BY <1>1, <3>5 DEF Merging
    <3>7. QED BY <3>1, <3>3, <3>6
  <2>4. CASE Kept(i) /\ Kept(j)
    <3>1. list'[j].cid = c
      BY <1>6, <1>8, <2>4
    <3>2. /\ old(i) \in DOMAIN list /\ list[old(i)].cid = c /\ old(i) # old(j)
          /\ old(j) \in DOMAIN list /\ IsOf(list[old(j)], c) /\ list[old(j)].cid = c
      BY <1>3, <1>8, <2>4, <3>1 DEF Kept
    <3>3. QED BY <1>0, <3>2 DEF InOrder
  <2>5. QED BY <1>2, <2>1, <2>2, <2>3, <2>4
<1>9. \A j \in DOMAIN list' : IsOf(list[j], c)' <=> IsOf(list'[j], c)
  BY <1>0 DEF IsOf
<1>10. QED BY <1>0, <1>4, <1>8, <1>9 DEF InOrder, CreatedAt

LEMMA OrderStep ==
  ASSUME StatusTyped, RowsAreTrue, BubblesAreSound, NewsIsTrue, PageIsTrue, [Next]_vars,
         NEW c \in Own, Once(c), InOrder(c)
  PROVE  InOrder(c)'
<1> DEFINE Kept == /\ DOMAIN list' = DOMAIN list /\ \A i \in DOMAIN list : Same(list'[i], list[i])
<1>0. Grows /\ c # Peer
  BY StepsGrow, IdAssumption
<1>1. ASSUME author' = author, Kept PROVE InOrder(c)'
  BY <1>0, <1>1, OrderStays
<1>2. list' = list => Kept
  BY DEF Same
<1> HIDE DEF Kept
<1>3. ASSUME NEW d \in Own, Send(d) \/ CreateFailed(d) \/ Retry(d) PROVE InOrder(c)'
  BY <1>3, SendOrder
<1>4. ASSUME NEW d \in Own, EncryptionFails(d) PROVE InOrder(c)'
  <2>1. Kept
    BY <1>4, FailingTurns DEF Kept
  <2>2. QED BY <1>1, <1>4, <2>1 DEF EncryptionFails, server
<1>5. ASSUME NEW d \in Own, Accept(d) PROVE InOrder(c)'
  BY <1>5, CreateOrder DEF Accept, client
<1>6. CASE PeerSends
  BY <1>6, CreateOrder DEF PeerSends, client
<1>7. ASSUME NEW d \in Own, Refuse(d) PROVE InOrder(c)'
  BY <1>1, <1>2, <1>7 DEF Refuse, server, client
<1>8. ASSUME NEW m \in Message, Push(m) \/ MarkDeliveredRead(m) \/ PeerReads(m) \/ Recall(m)
      PROVE  InOrder(c)'
  BY <1>1, <1>2, <1>8 DEF Push, MarkDeliveredRead, PeerReads, Recall, server, client
<1>9. ASSUME NEW e \in events, Lose(e) \/ TakeNew(e) PROVE InOrder(c)'
  BY <1>1, <1>2, <1>9 DEF Lose, TakeNew, server, client
<1>10. ASSUME NEW e \in events, HandleDelivered(e) \/ HandleRead(e) \/ HandleRecalled(e) PROVE InOrder(c)'
  <2>1. Kept
    BY <1>10, NewsTurns DEF Kept
  <2>2. QED BY <1>1, <1>10, <2>1 DEF HandleDelivered, HandleRead, HandleRecalled, server
<1>11. ASSUME NEW d \in delivering, MarkDeliveredWrite(d) PROVE InOrder(c)'
  BY <1>1, <1>2, <1>11 DEF MarkDeliveredWrite, client
<1>12. ASSUME NEW h \in handlers, ApplyNew(h) PROVE InOrder(c)'
  BY <1>12, ArrivalOrder
<1>13. CASE MergePage
  BY <1>13, MergeOrder
<1>14. ASSUME NEW x, Blame(x) PROVE Kept
  BY <1>14, BlameTurns DEF Kept
<1>15. CASE HandleErrorElsewhere \/ \E e \in events : HandleError(e)
  <2>1. Kept /\ author' = author
    BY <1>2, <1>14, <1>15 DEF HandleErrorElsewhere, HandleError, server
  <2>2. QED BY <1>1, <2>1
<1>16. CASE LoadPage \/ FallBack \/ UNCHANGED vars
  BY <1>1, <1>2, <1>16 DEF LoadPage, FallBack, vars, server, client
<1>17. QED
  BY <1>3, <1>4, <1>5, <1>6, <1>7, <1>8, <1>9, <1>10, <1>11, <1>12, <1>13, <1>15, <1>16
  DEF Next, UserNext, ServerNext, ClientNext

LEMMA StatusInit == Init => StatusInv
<1> SUFFICES ASSUME Init PROVE StatusInv
  OBVIOUS
<1>1. Created = {}
  BY DEF Init, Created
<1>2. Sent = 0
  BY <1>1, FS_EmptySet DEF Sent
<1>3. /\ \A m \in Message : author[m] = None /\ status[m] = "SENT"
      /\ list = <<>> /\ events = {} /\ handlers = {} /\ page = None /\ wire = [c \in Own |-> 0]
      /\ handed = {} /\ readBy = {} /\ recalled = {} /\ delivering = {}
      /\ \A m \in Message : cache[m] = {}
  BY DEF Init
<1>4. DOMAIN list = {}
  BY <1>3
<1>5. StatusTyped
  BY <1>1, <1>2, <1>3 DEF Init, StatusTyped, RowStatus
<1>6. RowsAreTrue
  BY <1>1, <1>3 DEF RowsAreTrue
<1>7. BubblesAreSound /\ PeersAreShownOnce
  BY <1>4 DEF BubblesAreSound, PeersAreShownOnce
<1>8. NewsIsTrue /\ PageIsTrue /\ CacheIsTrue
  BY <1>3 DEF NewsIsTrue, PageIsTrue, CacheIsTrue
<1>9. ASSUME NEW c \in Own PROVE Once(c) /\ InOrder(c)
  <2>1. c # None
    BY IdAssumption
  <2>2. QED BY <1>3, <1>4, <2>1 DEF Once, Answered, InOrder
<1>10. QED BY <1>5, <1>6, <1>7, <1>8, <1>9 DEF StatusInv, UnblamedAreOnce

LEMMA StatusStep == StatusInv /\ [Next]_vars => StatusInv'
<1> SUFFICES ASSUME StatusInv, [Next]_vars PROVE StatusInv'
  OBVIOUS
<1> USE DEF StatusInv
<1>0. Grows
  BY StepsGrow
<1>1. StatusTyped'
  BY <1>0, ListStaysTyped, NetStaysTyped, PageStep, CacheStep DEF StatusTyped, Grows
<1>2. /\ RowsAreTrue' /\ BubblesAreSound' /\ NewsIsTrue' /\ PageIsTrue' /\ CacheIsTrue'
      /\ PeersAreShownOnce'
  BY RowsStep, BubblesStep, NewsStep, PageStep, CacheStep, PeersStep
<1>3. ASSUME NEW c \in Own, c \notin blamed' PROVE (Once(c) /\ InOrder(c))'
  <2>1. c \notin blamed
    BY <1>0, <1>3 DEF Grows
  <2>2. Once(c) /\ InOrder(c)
    BY <2>1 DEF UnblamedAreOnce
  <2>3. QED BY <1>3, <2>2, OnceStep, OrderStep
<1>4. UnblamedAreOnce'
  BY <1>3 DEF UnblamedAreOnce
<1>5. QED BY <1>1, <1>2, <1>4

(* The rows, the news and the bubbles are true of what has happened, and a *)
(* send that nothing was blamed on wrongly is under way once.              *)
THEOREM StatusIsInvariant == Spec => []StatusInv
<1>1. QED BY StatusInit, StatusStep, PTL DEF Spec

(* No bubble claims more than has happened, and what the peer has sent is  *)
(* shown once.                                                             *)
THEOREM BubblesAreJustified == Spec => []ShownIsJustified
<1>1. StatusInv => ShownIsJustified
  <2> SUFFICES ASSUME StatusInv PROVE ShownIsJustified
    OBVIOUS
  <2>1. \A i \in DOMAIN list : Justified(list[i])
    BY DEF StatusInv, BubblesAreSound
  <2>2. \A i, j \in DOMAIN list : i # j /\ list[i].id = list[j].id => IsOwn(list[i])
    BY DEF StatusInv, PeersAreShownOnce
  <2>3. QED BY <2>1, <2>2 DEF ShownIsJustified, Justified
<1>2. QED BY <1>1, StatusIsInvariant, PTL

(* A text is stored twice only if a failure was wrongly put down to it.    *)
THEOREM TwiceOnlyWhenBlamed == Spec => []SentTwiceWasBlamed
<1>1. StatusInv => SentTwiceWasBlamed
  <2> SUFFICES ASSUME StatusInv, NEW m \in Created, NEW n \in Created, m # n, author[m] = author[n],
                      author[m] \notin blamed \cup {Peer}
               PROVE  FALSE
    BY DEF SentTwiceWasBlamed
  <2>1. m \in Message /\ n \in Message /\ author[m] \in Own \ blamed
    BY DEF StatusInv, StatusTyped, Created
  <2>2. Once(author[m])
    BY <2>1 DEF StatusInv, UnblamedAreOnce
  <2>3. QED BY <2>1, <2>2 DEF Once
<1>2. QED BY <1>1, StatusIsInvariant, PTL

-----------------------------------------------------------------------------
(* What a step does to the statuses, and to the texts                      *)

LEMMA RanksAre ==
  /\ \A s \in Local : Rank[s] \in 0 .. 4
  /\ Rank["sending"] = 0 /\ Rank["failed"] = 0 /\ Rank["sent"] = 1
  /\ Rank["delivered"] = 2 /\ Rank["read"] = 3 /\ Rank["recalled"] = 4
  BY DEF Rank, Local

(* What is there after a page was merged                                   *)
LEMMA WhatIsMerged ==
  ASSUME StatusTyped, PageIsTrue, MergePage
  PROVE  /\ page # None /\ page' = None
         /\ \A m \in DOMAIN page : page[m] # None => page[m].id = m /\ m \in Created
         /\ \A i \in DOMAIN list' :
              \/ list'[i].id \in DOMAIN page /\ page[list'[i].id] # None /\ list'[i] = page[list'[i].id]
              \/ \E k \in DOMAIN list : list'[i] = list[k]
         /\ \A m \in DOMAIN page : page[m] # None => \E i \in DOMAIN list' : list'[i] = page[m]
         /\ \A k \in DOMAIN list : Waiting(list[k], page) => \E i \in DOMAIN list' : list'[i] = list[k]
<1>0. page # None /\ page' = None /\ page \in Seq(Shape \cup {None}) /\ list \in Seq(Shape)
  BY PageMerged DEF MergePage, StatusTyped
<1>1. \A m \in DOMAIN page : page[m] # None => page[m].id = m /\ m \in Created
  BY <1>0, PageRowsAre DEF IsRow
<1>2. PICK from : Merging(page, list', from)
  BY <1>0, PageMerged
<1>3. ASSUME NEW i \in DOMAIN list'
      PROVE  \/ list'[i].id \in DOMAIN page /\ page[list'[i].id] # None /\ list'[i] = page[list'[i].id]
             \/ \E k \in DOMAIN list : list'[i] = list[k]
  BY <1>2, MergedFrom DEF IsRow
<1>4. ASSUME NEW m \in DOMAIN page, page[m] # None PROVE \E i \in DOMAIN list' : list'[i] = page[m]
  <2>1. m \in DOMAIN (page \o list) /\ (page \o list)[m] = page[m] /\ m <= Len(page)
    BY <1>0
  <2>2. ~(m > Len(page))
    BY <1>0
  <2>3. QED BY <1>2, <1>4, <2>1, <2>2 DEF Merging
<1>5. ASSUME NEW k \in DOMAIN list, Waiting(list[k], page) PROVE \E i \in DOMAIN list' : list'[i] = list[k]
  <2>1. Len(page) + k \in DOMAIN (page \o list) /\ (page \o list)[Len(page) + k] = list[k]
    BY <1>0
  <2>2. ~(Len(page) + k <= Len(page))
    BY <1>0
  <2>3. QED BY <1>2, <1>5, <2>1, <2>2 DEF Merging
<1>6. QED BY <1>0, <1>1, <1>3, <1>4, <1>5

GoesBack(m, j) ==
  Shown(m) # {} /\ list'[j].id = m /\ (\A s \in Shown(m) : Rank[list'[j].status] < Rank[s])

Excused(m, j) ==
  \/ /\ list'[j].status = "delivered"
     /\ \E e \in events \ events' : e.type = "delivered" /\ e.about = m
  \/ list'[j].status = "failed" /\ author[m] \in blamed
  \/ \E h \in handlers \ handlers' : h.event.about = m
  \/ /\ page # None /\ page' = None
     /\ \/ page[m].status # LocalStatus[status[m]]
        \/ "read" \in Shown(m) /\ m \notin readBy
        \/ m \in setBack

LEMMA StatusGoesBack ==
  ASSUME StatusInv, [Next]_vars, NEW m \in Message, NEW j \in DOMAIN list', GoesBack(m, j)
  PROVE  Excused(m, j)
<1> USE DEF StatusInv
<1>0. /\ list \in Seq(Shape) /\ list' \in Seq(Shape) /\ m \notin Own
      /\ \A i \in DOMAIN list : list[i] \in Shape /\ Belongs(list[i]) /\ Justified(list[i])
      /\ list'[j].id = m /\ list'[j].status \in Local
  BY ListStaysTyped, ElementsAre, BubblesTurn, ShapeIs, IdsAre DEF StatusTyped, BubblesAreSound, GoesBack
<1>1. \A i \in DOMAIN list : list[i].status \in Local
  BY <1>0, ShapeIs
(* It is below everything that is shown.                                   *)
<1>2. ASSUME NEW i \in DOMAIN list, list[i].id = m PROVE Rank[list'[j].status] < Rank[list[i].status]
  BY <1>2 DEF GoesBack, Shown
<1>3. ASSUME NEW i \in DOMAIN list, list[i].id = m PROVE list'[j].status # list[i].status
  <2>1. Rank[list[i].status] \in 0 .. 4
    BY <1>1, RanksAre
  <2>2. QED BY <1>2, <1>3, <2>1
<1>4. ASSUME j \in DOMAIN list, list'[j].id = list[j].id, list'[j].status = list[j].status PROVE FALSE
  BY <1>0, <1>3, <1>4
(* A bubble of the message that fails, and was not pending                 *)
<1>5. ASSUME j \in DOMAIN list, Same(list'[j], list[j]), NEW d \in Own, list[j].cid = d PROVE author[m] = d
  BY <1>0, <1>5, IdsAre DEF Same, Belongs
<1>6. ASSUME NEW d \in Own, Send(d) \/ CreateFailed(d) PROVE FALSE
  <2>1. PICK s \in {"sending", "failed"} : list' = Append(list, NewBubble(d, s))
    BY <1>6 DEF Send, CreateFailed
  <2>2. NewBubble(d, s).id = d
    BY DEF NewBubble
  <2>3. (j \in DOMAIN list /\ list'[j] = list[j]) \/ list'[j] = NewBubble(d, s)
    BY <1>0, <2>1
  <2>4. QED BY <1>0, <1>4, <2>2, <2>3
<1>7. ASSUME NEW d \in Own, EncryptionFails(d) PROVE Excused(m, j)
  <2>1. /\ j \in DOMAIN list /\ Same(list'[j], list[j])
        /\ list'[j].status = IF list[j].cid = d THEN "failed" ELSE list[j].status
    BY <1>7, FailingTurns
  <2>2. list[j].cid = d /\ list'[j].status = "failed"
    BY <1>4, <2>1 DEF Same
  <2>3. author[m] = d
    BY <1>5, <2>1, <2>2
  <2>4. d \in blamed
    <3>1. SUFFICES ASSUME d \notin blamed PROVE FALSE
      OBVIOUS
    <3>2. Once(d) /\ Stored(d)
      BY <2>3, <3>1 DEF UnblamedAreOnce, Stored
    <3>3. wire[d] > 0 /\ wire[d] \in Nat
      BY <1>7 DEF EncryptionFails, StatusTyped
    <3>4. QED BY <3>2, <3>3, OnceIs
  <2>5. QED BY <2>2, <2>3, <2>4 DEF Excused
<1>8. ASSUME NEW d \in Own, Retry(d) PROVE FALSE
  <2>1. /\ j \in DOMAIN list
        /\ IF list[j].cid = d THEN list'[j].id = d ELSE list'[j] = list[j]
    BY <1>8, RetryTurns
  <2>2. QED BY <1>0, <1>4, <2>1
<1>9. ASSUME NEW e \in events, HandleDelivered(e) PROVE Excused(m, j)
  <2>1. /\ j \in DOMAIN list /\ Same(list'[j], list[j])
        /\ list'[j].status = IF list[j].id = e.about THEN "delivered" ELSE list[j].status
    BY <1>9, NewsTurns
  <2>2. list'[j].status = "delivered" /\ e.about = m
    BY <1>0, <1>4, <2>1 DEF Same
  <2>3. e \in events \ events' /\ e.type = "delivered"
    BY <1>9 DEF HandleDelivered, Got
  <2>4. QED BY <2>2, <2>3 DEF Excused
<1>10. ASSUME NEW e \in events, HandleRead(e) PROVE FALSE
  <2>1. /\ j \in DOMAIN list /\ Same(list'[j], list[j])
        /\ \/ list'[j].status = list[j].status
           \/ list'[j].status = "read" /\ list[j].status # "recalled"
    BY <1>10, NewsTurns
  <2>2. list'[j].status = "read" /\ list[j].status # "recalled" /\ list[j].id = m
    BY <1>0, <1>4, <2>1 DEF Same
  <2>3. 3 < Rank[list[j].status]
    BY <1>2, <2>1, <2>2, RanksAre
  <2>4. list[j].status \in {"sending", "failed", "sent", "delivered", "read"}
    BY <1>1, <2>1, <2>2 DEF Local
  <2>5. QED BY <2>3, <2>4, RanksAre
<1>11. ASSUME NEW e \in events, HandleRecalled(e) PROVE FALSE
  <2>1. /\ j \in DOMAIN list /\ Same(list'[j], list[j])
        /\ list'[j].status = IF list[j].id = e.about THEN "recalled" ELSE list[j].status
    BY <1>11, NewsTurns
  <2>2. list'[j].status = "recalled" /\ list[j].id = m
    BY <1>0, <1>4, <2>1 DEF Same
  <2>3. 4 < Rank[list[j].status] /\ Rank[list[j].status] \in 0 .. 4
    BY <1>1, <1>2, <2>1, <2>2, RanksAre
  <2>4. QED BY <2>3
<1>13. ASSUME NEW h \in handlers, ApplyNew(h) PROVE Excused(m, j)
  <2>1. PICK k : Upserting(Arrived(h), list', k)
    BY <1>13, ArrivedIs
  <2>2. j = k
    BY <1>4, <2>1 DEF Upserting
  <2>3. h.event.about = m
    BY <1>0, <1>13, <2>1, <2>2, ArrivedIs DEF Upserting
  <2>4. h \in handlers \ handlers'
    BY <1>13 DEF ApplyNew
  <2>5. QED BY <2>3, <2>4 DEF Excused
<1>14. ASSUME NEW x, Blame(x) PROVE Excused(m, j)
  <2>1. PICK k \in DOMAIN list :
          /\ list[k].status = "sending" /\ list[k].cid \in Own
          /\ blamed' = IF list[k].cid = x THEN blamed ELSE blamed \cup {list[k].cid}
          /\ DOMAIN list' = DOMAIN list
          /\ \A i \in DOMAIN list :
               /\ Same(list'[i], list[i])
               /\ list'[i].status = IF list[i].cid = list[k].cid THEN "failed" ELSE list[i].status
    BY <1>14, BlameTurns
  <2> DEFINE d == list[k].cid
  <2>2. j \in DOMAIN list /\ list[j].cid = d /\ list'[j].status = "failed" /\ list[j].id = m
    BY <1>0, <1>4, <2>1 DEF Same
  <2>3. author[m] = d
    BY <1>5, <2>1, <2>2
  <2>4. d \in blamed
    <3>1. SUFFICES ASSUME d \notin blamed PROVE FALSE
      OBVIOUS
    <3>2. j # k
      BY <1>2, <2>1, <2>2, RanksAre
    <3>3. InOrder(d) /\ d \in Own /\ d # None
      BY <2>1, <3>1, IdsAre DEF UnblamedAreOnce
    <3>4. IsOf(list[j], d)
      BY <2>2 DEF IsOf
    <3>5. QED BY <2>1, <2>2, <3>2, <3>3, <3>4 DEF InOrder
  <2>5. QED BY <2>2, <2>3, <2>4 DEF Excused
<1>15. CASE HandleErrorElsewhere \/ \E e \in events : HandleError(e)
  <2>1. CASE list' = list
    BY <1>4, <2>1
  <2>2. CASE HandleErrorElsewhere
    BY <1>14, <2>2 DEF HandleErrorElsewhere
  <2>3. ASSUME NEW e \in events, HandleError(e), Blame(e.about) PROVE Excused(m, j)
    BY <1>14, <2>3
  <2>4. QED BY <1>15, <2>1, <2>2, <2>3 DEF HandleError
<1>16. CASE MergePage
  <2>1. page # None /\ page' = None
    BY <1>16, WhatIsMerged
  <2>2. ~\E k \in DOMAIN list : list'[j] = list[k]
    BY <1>0, <1>3
  <2>3. m \in DOMAIN page /\ list'[j] = page[m] /\ m \in Created
    BY <1>0, <1>16, <2>2, WhatIsMerged
  <2>4. CASE page[m].status # LocalStatus[status[m]] \/ m \in setBack
    BY <2>1, <2>4 DEF Excused
  <2>5. CASE page[m].status = LocalStatus[status[m]] /\ m \notin setBack
    <3>1. PICK i \in DOMAIN list : list[i].id = m
      BY DEF GoesBack, Shown
    <3>2. Rank[LocalStatus[status[m]]] < Rank[list[i].status]
      BY <1>2, <2>3, <2>5, <3>1
    <3>3. status[m] \in RowStatus
      BY DEF StatusTyped
    <3>4. /\ status[m] = "SENT" => Rank[LocalStatus[status[m]]] = 1
          /\ status[m] = "DELIVERED" => Rank[LocalStatus[status[m]]] = 2
          /\ status[m] = "READ" => Rank[LocalStatus[status[m]]] = 3
          /\ status[m] = "RECALLED" => Rank[LocalStatus[status[m]]] = 4
      BY RanksAre DEF LocalStatus
    <3>5. list[i].status = "read"
      <4>1. list[i].status = "delivered" => status[m] # "SENT"
        BY <1>0, <3>1 DEF Justified, RowsAreTrue
      <4>2. list[i].status = "recalled" => status[m] = "RECALLED"
        BY <1>0, <2>5, <3>1 DEF Justified, RowsAreTrue
      <4>3. list[i].status \in Local
        BY <1>1
      <4>4. QED BY <3>2, <3>3, <3>4, <4>1, <4>2, <4>3, RanksAre DEF Local, RowStatus
    <3>6. m \notin readBy
      BY <2>5, <3>2, <3>4, <3>5, RanksAre DEF RowsAreTrue
    <3>7. "read" \in Shown(m)
      BY <3>1, <3>5 DEF Shown
    <3>8. QED BY <2>1, <3>6, <3>7 DEF Excused
  <2>6. QED BY <2>4, <2>5
<1>17. CASE list' = list
  BY <1>4, <1>17
<1>18. QED
  BY <1>6, <1>7, <1>8, <1>9, <1>10, <1>11, <1>13, <1>15, <1>16, <1>17, OthersLeaveIt DEF ListNext

(* On the screen, the status of a message goes back only with late news.   *)
THEOREM BackOnlyWithLateNews == Spec => OnlyLateNewsGoesBack
<1>1. ASSUME StatusInv, [Next]_vars, NEW m \in Message, NEW j \in DOMAIN list', GoesBack(m, j)
      PROVE  Excused(m, j)
  BY <1>1, StatusGoesBack
<1>2. StatusInv /\ [Next]_vars =>
        [\A m \in Message, j \in DOMAIN list' :
           Shown(m) # {} /\ list'[j].id = m /\ (\A s \in Shown(m) : Rank[list'[j].status] < Rank[s]) =>
             \/ /\ list'[j].status = "delivered"
                /\ \E e \in events \ events' : e.type = "delivered" /\ e.about = m
             \/ list'[j].status = "failed" /\ author[m] \in blamed
             \/ \E h \in handlers \ handlers' : h.event.about = m
             \/ /\ page # None /\ page' = None
                /\ \/ page[m].status # LocalStatus[status[m]]
                   \/ "read" \in Shown(m) /\ m \notin readBy
                   \/ m \in setBack]_vars
  BY <1>1 DEF GoesBack, Excused
<1>3. QED BY <1>2, StatusIsInvariant, PTL DEF Spec, OnlyLateNewsGoesBack

LEMMA TextStays ==
  ASSUME StatusInv, [Next]_vars, NEW c \in TextOwn, ShowsText(list, c), ~ShowsText(list', c)
  PROVE  /\ page # None /\ page' = None
         /\ \/ \E m \in Created : author[m] = c /\ (m \in DOMAIN page => page[m] = None)
            \/ \E i \in DOMAIN list : list[i].id = c /\ list[i].status = "read"
<1> USE DEF StatusInv
<1>0. /\ list \in Seq(Shape) /\ list' \in Seq(Shape) /\ c \in Own /\ c \notin Message /\ c # None
      /\ \A i \in DOMAIN list : list[i] \in Shape /\ Belongs(list[i])
  BY ListStaysTyped, ElementsAre, IdsAre, OwnAssumption DEF StatusTyped, BubblesAreSound
<1>1. PICK i \in DOMAIN list : IsOf(list[i], c)
  BY DEF ShowsText, IsOf
<1>2. ASSUME NEW j \in DOMAIN list', IsOf(list'[j], c) PROVE FALSE
  BY <1>2 DEF ShowsText, IsOf
<1>3. ASSUME i \in DOMAIN list', list'[i].id = list[i].id, list'[i].cid = list[i].cid PROVE FALSE
  BY <1>1, <1>2, <1>3 DEF IsOf
(* What is shown of the text is its message, or is pending.                *)
<1>4. list[i].id \in Message => author[list[i].id] = c /\ list[i].id \in Created
  BY <1>0, <1>1 DEF IsOf, Belongs
<1>5. list[i].id \notin Message => list[i].id = c /\ list[i].cid = c /\ list[i].status \in {"sending", "failed", "read"}
  BY <1>0, <1>1, ShapeIs DEF IsOf, Belongs
<1>6. ASSUME NEW d \in Own, Send(d) \/ CreateFailed(d) PROVE FALSE
  <2>1. PICK s \in {"sending", "failed"} : list' = Append(list, NewBubble(d, s))
    BY <1>6 DEF Send, CreateFailed
  <2>2. i \in DOMAIN list' /\ list'[i] = list[i]
    BY <1>0, <2>1
  <2>3. QED BY <1>3, <2>2
<1>7. ASSUME NEW d \in Own, EncryptionFails(d) PROVE FALSE
  BY <1>3, <1>7, FailingTurns DEF Same
<1>8. ASSUME NEW d \in Own, Retry(d) PROVE FALSE
  <2>1. /\ i \in DOMAIN list' /\ list'[i].cid = list[i].cid
        /\ IF list[i].cid = d THEN list'[i].id = d ELSE list'[i] = list[i]
    BY <1>8, RetryTurns
  <2>2. list[i].cid = d
    BY <1>3, <2>1
  <2>3. c = d
    BY <1>0, <1>4, <1>5, <2>2, IdsAre DEF Belongs
  <2>4. QED BY <1>2, <2>1, <2>2, <2>3 DEF IsOf
<1>9. ASSUME NEW e \in events, HandleDelivered(e) \/ HandleRead(e) \/ HandleRecalled(e) PROVE FALSE
  BY <1>3, <1>9, NewsTurns DEF Same
<1>11. ASSUME NEW x, Blame(x) PROVE FALSE
  BY <1>3, <1>11, BlameTurns DEF Same
<1>12. CASE HandleErrorElsewhere \/ \E e \in events : HandleError(e)
  BY <1>3, <1>11, <1>12 DEF HandleErrorElsewhere, HandleError
<1>13. ASSUME NEW h \in handlers, ApplyNew(h) PROVE FALSE
  <2> DEFINE b == Arrived(h)
             m == h.event.about
  <2>1. /\ b.id = m /\ b.cid = (IF author[m] = Peer THEN None ELSE author[m]) /\ m \in Message
        /\ \E k : Upserting(b, list', k)
    BY <1>13, ArrivedIs DEF Created
  <2> HIDE DEF b, m
  <2>2. PICK k : Upserting(b, list', k)
    BY <2>1
  <2>3. i \in DOMAIN list'
    BY <2>2 DEF Upserting
  <2>4. i = k
    BY <1>3, <2>2, <2>3 DEF Upserting
  <2>5. Replaces(b, list[i]) /\ list'[i] = b
    BY <2>2, <2>4 DEF Upserting
  <2>6. author[m] = c
    <3>1. CASE list[i].id = m
      BY <1>4, <2>1, <3>1
    <3>2. CASE b.cid # None /\ list[i].cid = b.cid
      BY <1>0, <1>4, <1>5, <2>1, <3>2 DEF Belongs
    <3>3. QED BY <2>1, <2>5, <3>1, <3>2 DEF Replaces
  <2>7. QED BY <1>2, <2>1, <2>3, <2>5, <2>6 DEF IsOf
<1>14. CASE MergePage
  <2>1. /\ page # None /\ page' = None
        /\ \A m \in DOMAIN page : page[m] # None => page[m].id = m /\ m \in Created
        /\ \A m \in DOMAIN page : page[m] # None => \E j \in DOMAIN list' : list'[j] = page[m]
        /\ \A k \in DOMAIN list : Waiting(list[k], page) => \E j \in DOMAIN list' : list'[j] = list[k]
    BY <1>14, WhatIsMerged
  <2>2. CASE list[i].id \in Message
    <3> DEFINE m == list[i].id
    <3>1. author[m] = c /\ m \in Created
      BY <1>4, <2>2
    <3> HIDE DEF m
    <3>2. m \in DOMAIN page => page[m] = None
      <4>1. SUFFICES ASSUME m \in DOMAIN page, page[m] # None PROVE FALSE
        OBVIOUS
      <4>2. PICK j \in DOMAIN list' : list'[j] = page[m]
        BY <2>1, <4>1
      <4>3. list'[j].id = m
        BY <2>1, <4>1, <4>2
      <4>4. QED BY <1>2, <2>2, <3>1, <4>2, <4>3 DEF IsOf, m
    <3>3. QED BY <2>1, <3>1, <3>2
  <2>3. CASE list[i].id \notin Message
    <3>1. list[i].id = c /\ list[i].cid = c /\ list[i].status \in {"sending", "failed", "read"}
      BY <1>5, <2>3
    <3>2. list[i].status = "read"
      <4>1. SUFFICES ASSUME list[i].status \in {"sending", "failed"} PROVE FALSE
        BY <3>1
      <4>2. ASSUME NEW m \in DOMAIN page, page[m] # None PROVE {page[m].id, page[m].cid} \cap {c} = {}
        <5>1. page[m].id # c
          BY <1>0, <2>1, <4>2 DEF Created
        <5>2. page[m].cid # c
          BY <1>2, <2>1, <4>2 DEF IsOf
        <5>3. QED BY <5>1, <5>2
      <4>3. Waiting(list[i], page)
        BY <3>1, <4>1, <4>2 DEF Waiting
      <4>4. PICK j \in DOMAIN list' : list'[j] = list[i]
        BY <2>1, <4>3
      <4>5. QED BY <1>1, <1>2, <4>4
    <3>3. QED BY <2>1, <3>1, <3>2
  <2>4. QED BY <2>2, <2>3
<1>15. CASE list' = list
  BY <1>3, <1>15
<1>16. QED
  BY <1>6, <1>7, <1>8, <1>9, <1>12, <1>13, <1>14, <1>15, OthersLeaveIt DEF ListNext

(* A text stays on the screen until its message takes its place.           *)
THEOREM TextsStayOnTheScreen == Spec => TextsAreKept
<1>1. StatusInv /\ [Next]_vars =>
        [\A c \in TextOwn : ShowsText(list, c) /\ ~ShowsText(list', c) =>
           /\ page # None /\ page' = None
           /\ \/ \E m \in Created : author[m] = c /\ (m \in DOMAIN page => page[m] = None)
              \/ \E i \in DOMAIN list : list[i].id = c /\ list[i].status = "read"]_vars
  BY TextStays
<1>2. QED BY <1>1, StatusIsInvariant, PTL DEF Spec, TextsAreKept

-----------------------------------------------------------------------------
(* Messages: the rows of the server                                        *)


(* The sender of a committed message is a user and not a receiver of it. *)
CommittedHaveSenders ==
  \A m \in M!Message : M!Exists(m) => sender[m] \in User \ receivers[m]

(* A message is not committed while its transaction is open. *)
OpenSendsAreUnseen ==
  \A x \in sending : x.msg <= created /\ ~M!Exists(x.msg)

(* createdAt is given out before the commit, to one transaction each. *)
CommittedAreCreated == \A m \in M!Message : M!Exists(m) => m <= created
OneSendEach == \A x, y \in sending : x.msg = y.msg => x = y

(* The members of a direct conversation never change, so that all of them  *)
(* but the sender have a delivery.                                         *)
DirectReachesPeer ==
  kind = "DIRECT" =>
    /\ \A x \in sending : member \subseteq x.to \cup {x.from}
    /\ \A m \in M!Message : M!Exists(m) => member \subseteq receivers[m] \cup {sender[m]}

(* Only a receiver's row is marked, and only of a committed message. *)
ReceiptsHaveRows ==
  /\ \A m \in M!Message : \A u \in User :
       <<m, u>> \in delivered \cup read => M!Exists(m) /\ u \in receivers[m]
  /\ \A u \in User : lastRead[u] # 0 => M!Exists(lastRead[u])

(* What markDelivered has read: a row, which stays, and a status, which    *)
(* never comes back to SENT once it has left it.                           *)
MarkingSawRows ==
  \A c \in marking :
    /\ M!Exists(c.msg) /\ c.user \in receivers[c.msg]
    /\ c.seen # "SENT" => rowStatus[c.msg] # "SENT"

(* A recall or an edit is of a committed message. *)
ChangingExist == \A m \in recalling \cup editing : M!Exists(m)

MessagesInv ==
  /\ M!TypeOK
  /\ CommittedHaveSenders
  /\ OpenSendsAreUnseen
  /\ CommittedAreCreated
  /\ OneSendEach
  /\ DirectReachesPeer
  /\ ReceiptsHaveRows
  /\ MarkingSawRows
  /\ ChangingExist
  /\ M!StatusIsJustified
  /\ M!DeliveredIsShown
  /\ M!LastReadIsRead

-----------------------------------------------------------------------------
(* Each action keeps the invariant.  The conjuncts it cannot disturb come   *)
(* last: none of their variables changes.                                  *)

(* A step of SendBegin keeps the inductive invariant.                      *)
LEMMA SendBeginKeeps ==
  ASSUME MessagesInv, NEW u \in User, M!SendBegin(u)
  PROVE  MessagesInv'
<1>1. M!TypeOK'
  <2> DEFINE new == [msg |-> created + 1, from |-> u, to |-> member \ {u}]
  <2>1. /\ sending' = sending \cup {new} /\ created < MaxMessages /\ created' = created + 1
        /\ UNCHANGED <<M!members, sender, receivers, rowStatus, M!changes, M!receipts, M!calls>>
    BY DEF M!SendBegin
  <2>2. M!TypeOK /\ created \in 0 .. MaxMessages /\ member \in SUBSET User /\ MaxMessages \in Nat
    BY BoundAssumption DEF MessagesInv, M!TypeOK
  <2>3. new \in M!Sending
    BY <2>1, <2>2 DEF M!Sending, M!Message
  <2>4. created' \in 0 .. MaxMessages
    BY <2>1, <2>2
  <2> HIDE DEF new
  <2>5. QED BY <2>1, <2>2, <2>3, <2>4 DEF M!TypeOK, M!members, M!changes, M!receipts, M!calls
<1>2. OpenSendsAreUnseen'
  BY UserAssumption, BoundAssumption, CallsAssumption DEF MessagesInv, M!TypeOK,
    OpenSendsAreUnseen, M!Exists, M!Message, M!Status, M!Call, M!Sending,
    CommittedAreCreated, M!SendBegin, M!members, M!receipts, M!changes, M!calls
<1>3. CommittedAreCreated'
  BY UserAssumption, BoundAssumption, CallsAssumption DEF MessagesInv, M!TypeOK,
    CommittedAreCreated, M!Exists, M!Message, M!Status, M!Call, M!Sending, M!SendBegin,
    M!members, M!receipts, M!changes, M!calls
<1>4. OneSendEach'
  <2>1. \A x \in sending : x.msg # created + 1
    BY BoundAssumption, CallsAssumption DEF MessagesInv, M!TypeOK, OpenSendsAreUnseen,
      M!Sending, M!Message
  <2> DEFINE new == [msg |-> created + 1, from |-> u, to |-> member \ {u}]
  <2>2. sending' = sending \cup {new} /\ new.msg = created + 1
    BY DEF M!SendBegin
  <2> HIDE DEF new
  <2>3. OneSendEach
    BY DEF MessagesInv
  <2>4. ASSUME NEW x \in sending', NEW y \in sending', x.msg = y.msg PROVE x = y
    BY <2>1, <2>2, <2>3, <2>4 DEF OneSendEach
  <2>5. QED BY <2>4 DEF OneSendEach
<1>5. DirectReachesPeer'
  BY UserAssumption, BoundAssumption, CallsAssumption DEF MessagesInv, M!TypeOK,
    DirectReachesPeer, M!Exists, M!Message, M!Status, M!Call, M!Sending, M!SendBegin,
    M!members, M!receipts, M!changes, M!calls
<1>6. /\ CommittedHaveSenders' /\ ReceiptsHaveRows' /\ MarkingSawRows' /\
        ChangingExist' /\ M!StatusIsJustified' /\ M!DeliveredIsShown' /\
        M!LastReadIsRead'
  BY DEF MessagesInv, CommittedHaveSenders, M!Exists, ReceiptsHaveRows, MarkingSawRows,
    ChangingExist, M!StatusIsJustified, M!Readers, M!DeliveredIsShown,
    M!LastReadIsRead, M!SendBegin, M!members, M!receipts, M!changes, M!calls
<1>7. QED
  BY <1>1, <1>2, <1>3, <1>4, <1>5, <1>6 DEF MessagesInv

(* A step of SendCommit keeps the inductive invariant.                     *)
LEMMA SendCommitKeeps ==
  ASSUME MessagesInv, NEW x \in sending, M!SendCommit(x)
  PROVE  MessagesInv'
<1>1. M!TypeOK'
  BY UserAssumption, BoundAssumption, CallsAssumption DEF MessagesInv, M!TypeOK,
    M!Message, M!Status, M!Call, M!Sending, M!SendCommit, M!members, M!receipts,
    M!changes, M!calls
<1>2. CommittedHaveSenders'
  BY UserAssumption, BoundAssumption, CallsAssumption DEF MessagesInv, M!TypeOK,
    CommittedHaveSenders, M!Exists, M!Message, M!Status, M!Call, M!Sending, M!SendCommit,
    M!members, M!receipts, M!changes, M!calls
<1>3. OpenSendsAreUnseen'
  BY UserAssumption, BoundAssumption, CallsAssumption DEF MessagesInv, M!TypeOK,
    OpenSendsAreUnseen, M!Exists, M!Message, M!Status, M!Call, M!Sending, OneSendEach,
    M!SendCommit, M!members, M!receipts, M!changes, M!calls
<1>4. CommittedAreCreated'
  BY UserAssumption, BoundAssumption, CallsAssumption DEF MessagesInv, M!TypeOK,
    CommittedAreCreated, M!Exists, M!Message, M!Status, M!Call, M!Sending,
    OpenSendsAreUnseen, M!SendCommit, M!members, M!receipts, M!changes, M!calls
<1>5. OneSendEach'
  BY UserAssumption, BoundAssumption, CallsAssumption DEF MessagesInv, M!TypeOK,
    OneSendEach, M!Message, M!Status, M!Call, M!Sending, M!Exists, M!SendCommit,
    M!members, M!receipts, M!changes, M!calls
<1>6. DirectReachesPeer'
  BY UserAssumption, BoundAssumption, CallsAssumption DEF MessagesInv, M!TypeOK,
    DirectReachesPeer, M!Exists, M!Message, M!Status, M!Call, M!Sending, M!SendCommit,
    M!members, M!receipts, M!changes, M!calls
<1>7. ReceiptsHaveRows'
  BY UserAssumption, BoundAssumption, CallsAssumption DEF MessagesInv, M!TypeOK,
    ReceiptsHaveRows, M!Exists, M!Message, M!Status, M!Call, M!Sending,
    OpenSendsAreUnseen, M!SendCommit, M!members, M!receipts, M!changes, M!calls
<1>8. MarkingSawRows'
  BY UserAssumption, BoundAssumption, CallsAssumption DEF MessagesInv, M!TypeOK,
    MarkingSawRows, M!Exists, M!Message, M!Status, M!Call, M!Sending, OpenSendsAreUnseen,
    M!SendCommit, M!members, M!receipts, M!changes, M!calls
<1>9. ChangingExist'
  BY UserAssumption, BoundAssumption, CallsAssumption DEF MessagesInv, M!TypeOK,
    ChangingExist, M!Exists, M!Message, M!Status, M!Call, M!Sending, M!SendCommit,
    M!members, M!receipts, M!changes, M!calls
<1>10. M!StatusIsJustified'
  BY UserAssumption, BoundAssumption, CallsAssumption DEF MessagesInv, M!TypeOK,
    M!StatusIsJustified, M!Readers, M!Message, M!Status, M!Call, M!Sending, M!Exists,
    OpenSendsAreUnseen, M!SendCommit, M!members, M!receipts, M!changes, M!calls
<1>11. M!DeliveredIsShown'
  BY UserAssumption, BoundAssumption, CallsAssumption DEF MessagesInv, M!TypeOK,
    M!DeliveredIsShown, M!Message, M!Status, M!Call, M!Sending, M!Exists,
    OpenSendsAreUnseen, ReceiptsHaveRows, M!SendCommit, M!members, M!receipts, M!changes,
    M!calls
<1>12. M!LastReadIsRead'
  BY UserAssumption, BoundAssumption, CallsAssumption DEF MessagesInv, M!TypeOK,
    M!LastReadIsRead, M!Message, M!Status, M!Call, M!Sending, M!Exists,
    OpenSendsAreUnseen, ReceiptsHaveRows, M!SendCommit, M!members, M!receipts, M!changes,
    M!calls
<1>13. QED
  BY <1>1, <1>2, <1>3, <1>4, <1>5, <1>6, <1>7, <1>8, <1>9, <1>10, <1>11, <1>12 DEF
    MessagesInv

(* A step of MarkDeliveredRead keeps the inductive invariant.              *)
LEMMA MarkDeliveredReadKeeps ==
  ASSUME MessagesInv,
         NEW m \in M!Message, NEW u \in User, M!MarkDeliveredRead(m, u)
  PROVE  MessagesInv'
<1>1. M!TypeOK'
  <2> DEFINE new == [msg |-> m, user |-> u, seen |-> rowStatus[m]]
  <2>1. /\ M!Exists(m) /\ marking' = marking \cup {new}
        /\ UNCHANGED <<M!members, M!rows, rowStatus, M!changes, M!receipts, recalling, editing>>
    BY DEF M!MarkDeliveredRead
  <2>2. M!TypeOK
    BY DEF MessagesInv
  <2>3. new \in M!Call
    BY <2>1, <2>2 DEF M!TypeOK, M!Call, M!Exists, M!Status
  <2> HIDE DEF new
  <2>4. QED BY <2>1, <2>2, <2>3 DEF M!TypeOK, M!members, M!rows, M!changes, M!receipts
<1>2. MarkingSawRows'
  BY UserAssumption, BoundAssumption, CallsAssumption DEF MessagesInv, M!TypeOK,
    MarkingSawRows, M!Exists, M!Message, M!Status, M!Call, M!Sending, M!MarkDeliveredRead,
    M!members, M!rows, M!receipts, M!changes
<1>3. /\ CommittedHaveSenders' /\ OpenSendsAreUnseen' /\ CommittedAreCreated' /\
        OneSendEach' /\ DirectReachesPeer' /\ ReceiptsHaveRows' /\
        ChangingExist' /\ M!StatusIsJustified' /\ M!DeliveredIsShown' /\
        M!LastReadIsRead'
  BY DEF MessagesInv, CommittedHaveSenders, M!Exists, OpenSendsAreUnseen,
    CommittedAreCreated, OneSendEach, DirectReachesPeer, ReceiptsHaveRows,
    ChangingExist, M!StatusIsJustified, M!Readers, M!DeliveredIsShown,
    M!LastReadIsRead, M!MarkDeliveredRead, M!members, M!rows, M!receipts, M!changes
<1>4. QED
  BY <1>1, <1>2, <1>3 DEF MessagesInv

(* A step of MarkDeliveredWrite keeps the inductive invariant.             *)
LEMMA MarkDeliveredWriteKeeps ==
  ASSUME MessagesInv, NEW c \in marking,
         M!MarkDeliveredWrite(c)
  PROVE  MessagesInv'
<1>1. M!TypeOK'
  BY SMTT(30), UserAssumption, BoundAssumption, CallsAssumption DEF MessagesInv, M!TypeOK,
    M!Message, M!Status, M!Call, M!MarkDeliveredWrite, M!members, M!rows,
    M!changes
<1>2. CommittedHaveSenders'
  BY UserAssumption, BoundAssumption, CallsAssumption DEF MessagesInv, M!TypeOK,
    CommittedHaveSenders, M!Exists, M!Message, M!Status, M!Call, M!Sending,
    MarkingSawRows, M!MarkDeliveredWrite, M!members, M!rows, M!changes
<1>3. OpenSendsAreUnseen'
  BY UserAssumption, BoundAssumption, CallsAssumption DEF MessagesInv, M!TypeOK,
    OpenSendsAreUnseen, M!Exists, M!Message, M!Status, M!Call, M!Sending, MarkingSawRows,
    M!MarkDeliveredWrite, M!members, M!rows, M!changes
<1>4. CommittedAreCreated'
  BY UserAssumption, BoundAssumption, CallsAssumption DEF MessagesInv, M!TypeOK,
    CommittedAreCreated, M!Exists, M!Message, M!Status, M!Call, M!Sending, MarkingSawRows,
    M!MarkDeliveredWrite, M!members, M!rows, M!changes
<1>5. DirectReachesPeer'
  BY UserAssumption, BoundAssumption, CallsAssumption DEF MessagesInv, M!TypeOK,
    DirectReachesPeer, M!Exists, M!Message, M!Status, M!Call, M!Sending, MarkingSawRows,
    M!MarkDeliveredWrite, M!members, M!rows, M!changes
<1>6. ReceiptsHaveRows'
  BY UserAssumption, BoundAssumption, CallsAssumption DEF MessagesInv, M!TypeOK,
    ReceiptsHaveRows, M!Exists, M!Message, M!Status, M!Call, M!Sending, MarkingSawRows,
    M!MarkDeliveredWrite, M!members, M!rows, M!changes
<1>7. MarkingSawRows'
  BY UserAssumption, BoundAssumption, CallsAssumption DEF MessagesInv, M!TypeOK,
    MarkingSawRows, M!Exists, M!Message, M!Status, M!Call, M!Sending,
    M!MarkDeliveredWrite, M!members, M!rows, M!changes
<1>8. ChangingExist'
  BY UserAssumption, BoundAssumption, CallsAssumption DEF MessagesInv, M!TypeOK,
    ChangingExist, M!Exists, M!Message, M!Status, M!Call, M!Sending, M!MarkDeliveredWrite,
    M!members, M!rows, M!changes
<1>9. M!StatusIsJustified'
  BY UserAssumption, BoundAssumption, CallsAssumption DEF MessagesInv, M!TypeOK,
    M!StatusIsJustified, M!Readers, M!Message, M!Status, M!Call, M!Sending, M!Exists,
    MarkingSawRows, M!MarkDeliveredWrite, M!members, M!rows, M!changes
<1>10. M!DeliveredIsShown'
  BY UserAssumption, BoundAssumption, CallsAssumption DEF MessagesInv, M!TypeOK,
    M!DeliveredIsShown, M!Message, M!Status, M!Call, M!Sending, M!Exists, MarkingSawRows,
    M!MarkDeliveredWrite, M!members, M!rows, M!changes
<1>11. /\ OneSendEach' /\ M!LastReadIsRead'
  BY DEF MessagesInv, OneSendEach, M!LastReadIsRead, M!MarkDeliveredWrite, M!members,
    M!rows, M!changes
<1>12. QED
  BY <1>1, <1>2, <1>3, <1>4, <1>5, <1>6, <1>7, <1>8, <1>9, <1>10, <1>11 DEF MessagesInv

(* A step of MarkRead keeps the inductive invariant.                       *)
LEMMA MarkReadKeeps ==
  ASSUME MessagesInv, NEW m \in M!Message, NEW u \in User,
         M!MarkRead(u, m)
  PROVE  MessagesInv'
<1>1. M!TypeOK'
  BY SMTT(30), UserAssumption, BoundAssumption, CallsAssumption DEF MessagesInv, M!TypeOK,
    M!Message, M!Status, M!Call, M!MarkRead, M!UnreadUpTo, M!members, M!rows,
    M!changes, M!calls
<1>2. CommittedHaveSenders'
  BY UserAssumption, BoundAssumption, CallsAssumption DEF MessagesInv, M!TypeOK,
    CommittedHaveSenders, M!Exists, M!Message, M!Status, M!Call, M!Sending, M!MarkRead,
    M!UnreadUpTo, M!members, M!rows, M!changes, M!calls
<1>3. OpenSendsAreUnseen'
  BY UserAssumption, BoundAssumption, CallsAssumption DEF MessagesInv, M!TypeOK,
    OpenSendsAreUnseen, M!Exists, M!Message, M!Status, M!Call, M!Sending, M!MarkRead,
    M!UnreadUpTo, M!members, M!rows, M!changes, M!calls
<1>4. CommittedAreCreated'
  BY UserAssumption, BoundAssumption, CallsAssumption DEF MessagesInv, M!TypeOK,
    CommittedAreCreated, M!Exists, M!Message, M!Status, M!Call, M!Sending, M!MarkRead,
    M!UnreadUpTo, M!members, M!rows, M!changes, M!calls
<1>5. DirectReachesPeer'
  BY UserAssumption, BoundAssumption, CallsAssumption DEF MessagesInv, M!TypeOK,
    DirectReachesPeer, M!Exists, M!Message, M!Status, M!Call, M!Sending, M!MarkRead,
    M!UnreadUpTo, M!members, M!rows, M!changes, M!calls
<1>6. ReceiptsHaveRows'
  BY UserAssumption, BoundAssumption, CallsAssumption DEF MessagesInv, M!TypeOK,
    ReceiptsHaveRows, M!Exists, M!Message, M!Status, M!Call, M!Sending, M!MarkRead,
    M!UnreadUpTo, M!members, M!rows, M!changes, M!calls
<1>7. MarkingSawRows'
  BY UserAssumption, BoundAssumption, CallsAssumption DEF MessagesInv, M!TypeOK,
    MarkingSawRows, M!Exists, M!Message, M!Status, M!Call, M!Sending, M!MarkRead,
    M!UnreadUpTo, M!members, M!rows, M!changes, M!calls
<1>8. ChangingExist'
  BY UserAssumption, BoundAssumption, CallsAssumption DEF MessagesInv, M!TypeOK,
    ChangingExist, M!Exists, M!Message, M!Status, M!Call, M!Sending, M!MarkRead,
    M!UnreadUpTo, M!members, M!rows, M!changes, M!calls
<1>9. M!StatusIsJustified'
  <2>1. u \in receivers[m] => <<m, u>> \in read'
    BY BoundAssumption, CallsAssumption DEF M!MarkRead, M!UnreadUpTo, M!Exists,
      MessagesInv, M!TypeOK, M!Message
  <2>2. sender[m] # u => u \in M!Readers(m)
    BY DEF M!MarkRead, M!WasMember, M!Readers, MessagesInv, M!TypeOK, DirectReachesPeer
  <2>3. UNCHANGED <<kind, sender, receivers, recalledAt>>
        /\ delivered \subseteq delivered' /\ read \subseteq read'
    BY DEF M!MarkRead, M!members, M!rows, M!changes
  <2>4. ASSUME NEW n \in M!Message PROVE M!Readers(n)' = M!Readers(n)
    BY <2>3 DEF M!Readers
  <2>5. CASE sender[m] # u /\ rowStatus[m] # "RECALLED"
    <3>1. rowStatus' = [rowStatus EXCEPT ![m] = "READ"]
      BY <2>5 DEF M!MarkRead
    <3>2. QED BY <2>1, <2>2, <2>3, <2>4, <2>5, <3>1 DEF M!StatusIsJustified,
      MessagesInv, M!TypeOK
  <2>6. CASE ~(sender[m] # u /\ rowStatus[m] # "RECALLED")
    <3>1. rowStatus' = rowStatus
      BY <2>6 DEF M!MarkRead
    <3>2. QED BY <2>3, <2>4, <3>1 DEF M!StatusIsJustified, MessagesInv
  <2>7. QED BY <2>5, <2>6
<1>10. M!DeliveredIsShown'
  BY UserAssumption, BoundAssumption, CallsAssumption DEF MessagesInv, M!TypeOK,
    M!DeliveredIsShown, M!Message, M!Status, M!Call, M!Sending, M!Exists, M!MarkRead,
    M!UnreadUpTo, M!members, M!rows, M!changes, M!calls
<1>11. M!LastReadIsRead'
  BY UserAssumption, BoundAssumption, CallsAssumption DEF MessagesInv, M!TypeOK,
    M!LastReadIsRead, M!Message, M!Status, M!Call, M!Sending, M!Exists, M!MarkRead,
    M!UnreadUpTo, M!members, M!rows, M!changes, M!calls
<1>12. /\ OneSendEach'
  BY DEF MessagesInv, OneSendEach, M!MarkRead, M!UnreadUpTo, M!members, M!rows, M!changes,
    M!calls
<1>13. QED
  BY <1>1, <1>2, <1>3, <1>4, <1>5, <1>6, <1>7, <1>8, <1>9, <1>10, <1>11, <1>12 DEF
    MessagesInv

(* A step of MarkReadByRest keeps the inductive invariant.                 *)
LEMMA MarkReadByRestKeeps ==
  ASSUME MessagesInv, NEW m \in M!Message, NEW u \in User,
         M!MarkReadByRest(u, m)
  PROVE  MessagesInv'
<1>1. M!TypeOK'
  BY SMTT(30), UserAssumption, BoundAssumption, CallsAssumption DEF MessagesInv, M!TypeOK,
    M!Message, M!Status, M!Call, M!MarkReadByRest, M!UnreadUpTo, M!members,
    M!rows, M!changes, M!calls
<1>2. ReceiptsHaveRows'
  BY UserAssumption, BoundAssumption, CallsAssumption DEF MessagesInv, M!TypeOK,
    ReceiptsHaveRows, M!Exists, M!Message, M!Status, M!Call, M!Sending, M!MarkReadByRest,
    M!UnreadUpTo, M!members, M!rows, M!changes, M!calls
<1>3. M!StatusIsJustified'
  BY UserAssumption, BoundAssumption, CallsAssumption DEF MessagesInv, M!TypeOK,
    M!StatusIsJustified, M!Readers, M!Message, M!Status, M!Call, M!Sending, M!Exists,
    M!MarkReadByRest, M!UnreadUpTo, M!members, M!rows, M!changes, M!calls
<1>4. M!DeliveredIsShown'
  BY UserAssumption, BoundAssumption, CallsAssumption DEF MessagesInv, M!TypeOK,
    M!DeliveredIsShown, M!Message, M!Status, M!Call, M!Sending, M!Exists,
    M!MarkReadByRest, M!UnreadUpTo, M!members, M!rows, M!changes, M!calls
<1>5. M!LastReadIsRead'
  BY UserAssumption, BoundAssumption, CallsAssumption DEF MessagesInv, M!TypeOK,
    M!LastReadIsRead, M!Message, M!Status, M!Call, M!Sending, M!Exists, M!MarkReadByRest,
    M!UnreadUpTo, M!members, M!rows, M!changes, M!calls
<1>6. /\ CommittedHaveSenders' /\ OpenSendsAreUnseen' /\ CommittedAreCreated' /\
        OneSendEach' /\ DirectReachesPeer' /\ MarkingSawRows' /\
        ChangingExist'
  BY DEF MessagesInv, CommittedHaveSenders, M!Exists, OpenSendsAreUnseen,
    CommittedAreCreated, OneSendEach, DirectReachesPeer, MarkingSawRows,
    ChangingExist, M!MarkReadByRest, M!UnreadUpTo, M!members, M!rows, M!changes, M!calls
<1>7. QED
  BY <1>1, <1>2, <1>3, <1>4, <1>5, <1>6 DEF MessagesInv

(* A step of RecallRead keeps the inductive invariant.                     *)
LEMMA RecallReadKeeps ==
  ASSUME MessagesInv, NEW m \in M!Message, NEW u \in User,
         M!RecallRead(u, m)
  PROVE  MessagesInv'
<1>1. M!TypeOK'
  BY UserAssumption, BoundAssumption, CallsAssumption DEF MessagesInv, M!TypeOK,
    M!Message, M!Status, M!Call, M!Sending, M!RecallRead, M!members, M!rows, M!receipts,
    M!changes
<1>2. ChangingExist'
  BY UserAssumption, BoundAssumption, CallsAssumption DEF MessagesInv, M!TypeOK,
    ChangingExist, M!Exists, M!Message, M!Status, M!Call, M!Sending, M!RecallRead,
    M!members, M!rows, M!receipts, M!changes
<1>3. /\ CommittedHaveSenders' /\ OpenSendsAreUnseen' /\ CommittedAreCreated' /\
        OneSendEach' /\ DirectReachesPeer' /\ ReceiptsHaveRows' /\
        MarkingSawRows' /\ M!StatusIsJustified' /\ M!DeliveredIsShown' /\
        M!LastReadIsRead'
  BY DEF MessagesInv, CommittedHaveSenders, M!Exists, OpenSendsAreUnseen,
    CommittedAreCreated, OneSendEach, DirectReachesPeer, ReceiptsHaveRows,
    MarkingSawRows, M!StatusIsJustified, M!Readers, M!DeliveredIsShown,
    M!LastReadIsRead, M!RecallRead, M!members, M!rows, M!receipts, M!changes
<1>4. QED
  BY <1>1, <1>2, <1>3 DEF MessagesInv

(* A step of RecallWrite keeps the inductive invariant.                    *)
LEMMA RecallWriteKeeps ==
  ASSUME MessagesInv, NEW m \in M!Message, M!RecallWrite(m)
  PROVE  MessagesInv'
<1>1. M!TypeOK'
  BY UserAssumption, BoundAssumption, CallsAssumption DEF MessagesInv, M!TypeOK,
    M!Message, M!Status, M!Call, M!Sending, M!RecallWrite, M!members, M!rows, M!receipts
<1>2. CommittedHaveSenders'
  BY UserAssumption, BoundAssumption, CallsAssumption DEF MessagesInv, M!TypeOK,
    CommittedHaveSenders, M!Exists, M!Message, M!Status, M!Call, M!Sending, ChangingExist,
    M!RecallWrite, M!members, M!rows, M!receipts
<1>3. OpenSendsAreUnseen'
  BY UserAssumption, BoundAssumption, CallsAssumption DEF MessagesInv, M!TypeOK,
    OpenSendsAreUnseen, M!Exists, M!Message, M!Status, M!Call, M!Sending, ChangingExist,
    M!RecallWrite, M!members, M!rows, M!receipts
<1>4. CommittedAreCreated'
  BY UserAssumption, BoundAssumption, CallsAssumption DEF MessagesInv, M!TypeOK,
    CommittedAreCreated, M!Exists, M!Message, M!Status, M!Call, M!Sending, ChangingExist,
    M!RecallWrite, M!members, M!rows, M!receipts
<1>5. DirectReachesPeer'
  BY UserAssumption, BoundAssumption, CallsAssumption DEF MessagesInv, M!TypeOK,
    DirectReachesPeer, M!Exists, M!Message, M!Status, M!Call, M!Sending, ChangingExist,
    M!RecallWrite, M!members, M!rows, M!receipts
<1>6. ReceiptsHaveRows'
  BY UserAssumption, BoundAssumption, CallsAssumption DEF MessagesInv, M!TypeOK,
    ReceiptsHaveRows, M!Exists, M!Message, M!Status, M!Call, M!Sending, M!RecallWrite,
    M!members, M!rows, M!receipts
<1>7. MarkingSawRows'
  BY UserAssumption, BoundAssumption, CallsAssumption DEF MessagesInv, M!TypeOK,
    MarkingSawRows, M!Exists, M!Message, M!Status, M!Call, M!Sending, M!RecallWrite,
    M!members, M!rows, M!receipts
<1>8. ChangingExist'
  BY UserAssumption, BoundAssumption, CallsAssumption DEF MessagesInv, M!TypeOK,
    ChangingExist, M!Exists, M!Message, M!Status, M!Call, M!Sending, M!RecallWrite,
    M!members, M!rows, M!receipts
<1>9. M!StatusIsJustified'
  BY UserAssumption, BoundAssumption, CallsAssumption DEF MessagesInv, M!TypeOK,
    M!StatusIsJustified, M!Readers, M!Message, M!Status, M!Call, M!Sending, M!Exists,
    M!RecallWrite, M!members, M!rows, M!receipts
<1>10. M!DeliveredIsShown'
  BY UserAssumption, BoundAssumption, CallsAssumption DEF MessagesInv, M!TypeOK,
    M!DeliveredIsShown, M!Message, M!Status, M!Call, M!Sending, M!Exists, M!RecallWrite,
    M!members, M!rows, M!receipts
<1>11. /\ OneSendEach' /\ M!LastReadIsRead'
  BY DEF MessagesInv, OneSendEach, M!LastReadIsRead, M!RecallWrite, M!members, M!rows,
    M!receipts
<1>12. QED
  BY <1>1, <1>2, <1>3, <1>4, <1>5, <1>6, <1>7, <1>8, <1>9, <1>10, <1>11 DEF MessagesInv

(* A step of EditRead keeps the inductive invariant.                       *)
LEMMA EditReadKeeps ==
  ASSUME MessagesInv, NEW m \in M!Message, NEW u \in User,
         M!EditRead(u, m)
  PROVE  MessagesInv'
<1>1. M!TypeOK'
  BY UserAssumption, BoundAssumption, CallsAssumption DEF MessagesInv, M!TypeOK,
    M!Message, M!Status, M!Call, M!Sending, M!EditRead, M!members, M!rows, M!receipts,
    M!changes
<1>2. ChangingExist'
  BY UserAssumption, BoundAssumption, CallsAssumption DEF MessagesInv, M!TypeOK,
    ChangingExist, M!Exists, M!Message, M!Status, M!Call, M!Sending, M!EditRead,
    M!members, M!rows, M!receipts, M!changes
<1>3. /\ CommittedHaveSenders' /\ OpenSendsAreUnseen' /\ CommittedAreCreated' /\
        OneSendEach' /\ DirectReachesPeer' /\ ReceiptsHaveRows' /\
        MarkingSawRows' /\ M!StatusIsJustified' /\ M!DeliveredIsShown' /\
        M!LastReadIsRead'
  BY DEF MessagesInv, CommittedHaveSenders, M!Exists, OpenSendsAreUnseen,
    CommittedAreCreated, OneSendEach, DirectReachesPeer, ReceiptsHaveRows,
    MarkingSawRows, M!StatusIsJustified, M!Readers, M!DeliveredIsShown,
    M!LastReadIsRead, M!EditRead, M!members, M!rows, M!receipts, M!changes
<1>4. QED
  BY <1>1, <1>2, <1>3 DEF MessagesInv

(* A step of EditWrite keeps the inductive invariant.                      *)
LEMMA EditWriteKeeps ==
  ASSUME MessagesInv, NEW m \in M!Message, M!EditWrite(m)
  PROVE  MessagesInv'
<1>1. M!TypeOK'
  BY UserAssumption, BoundAssumption, CallsAssumption DEF MessagesInv, M!TypeOK,
    M!Message, M!Status, M!Call, M!Sending, M!EditWrite, M!members, M!rows, M!receipts
<1>2. ChangingExist'
  BY UserAssumption, BoundAssumption, CallsAssumption DEF MessagesInv, M!TypeOK,
    ChangingExist, M!Exists, M!Message, M!Status, M!Call, M!Sending, M!EditWrite,
    M!members, M!rows, M!receipts
<1>3. /\ CommittedHaveSenders' /\ OpenSendsAreUnseen' /\ CommittedAreCreated' /\
        OneSendEach' /\ DirectReachesPeer' /\ ReceiptsHaveRows' /\
        MarkingSawRows' /\ M!StatusIsJustified' /\ M!DeliveredIsShown' /\
        M!LastReadIsRead'
  BY DEF MessagesInv, CommittedHaveSenders, M!Exists, OpenSendsAreUnseen,
    CommittedAreCreated, OneSendEach, DirectReachesPeer, ReceiptsHaveRows,
    MarkingSawRows, M!StatusIsJustified, M!Readers, M!DeliveredIsShown,
    M!LastReadIsRead, M!EditWrite, M!members, M!rows, M!receipts
<1>4. QED
  BY <1>1, <1>2, <1>3 DEF MessagesInv

(* A step of LeaveGroup keeps the inductive invariant.                     *)
LEMMA LeaveGroupKeeps ==
  ASSUME MessagesInv, NEW u \in User, M!LeaveGroup(u)
  PROVE  MessagesInv'
<1>1. M!TypeOK'
  BY UserAssumption, BoundAssumption, CallsAssumption DEF MessagesInv, M!TypeOK,
    M!Message, M!Status, M!Call, M!Sending, M!LeaveGroup, M!rows, M!receipts, M!changes,
    M!calls
<1>2. DirectReachesPeer'
  BY UserAssumption, BoundAssumption, CallsAssumption DEF MessagesInv, M!TypeOK,
    DirectReachesPeer, M!Exists, M!Message, M!Status, M!Call, M!Sending, M!LeaveGroup,
    M!rows, M!receipts, M!changes, M!calls
<1>3. /\ CommittedHaveSenders' /\ OpenSendsAreUnseen' /\ CommittedAreCreated' /\
        OneSendEach' /\ ReceiptsHaveRows' /\ MarkingSawRows' /\ ChangingExist' /\
        M!StatusIsJustified' /\ M!DeliveredIsShown' /\ M!LastReadIsRead'
  BY DEF MessagesInv, CommittedHaveSenders, M!Exists, OpenSendsAreUnseen,
    CommittedAreCreated, OneSendEach, ReceiptsHaveRows, MarkingSawRows,
    ChangingExist, M!StatusIsJustified, M!Readers, M!DeliveredIsShown,
    M!LastReadIsRead, M!LeaveGroup, M!rows, M!receipts, M!changes, M!calls
<1>4. QED
  BY <1>1, <1>2, <1>3 DEF MessagesInv

(* A step of JoinGroup keeps the inductive invariant.                      *)
LEMMA JoinGroupKeeps ==
  ASSUME MessagesInv, NEW u \in User, M!JoinGroup(u)
  PROVE  MessagesInv'
<1>1. M!TypeOK'
  BY UserAssumption, BoundAssumption, CallsAssumption DEF MessagesInv, M!TypeOK,
    M!Message, M!Status, M!Call, M!Sending, M!JoinGroup, M!rows, M!receipts, M!changes,
    M!calls
<1>2. DirectReachesPeer'
  BY UserAssumption, BoundAssumption, CallsAssumption DEF MessagesInv, M!TypeOK,
    DirectReachesPeer, M!Exists, M!Message, M!Status, M!Call, M!Sending, M!JoinGroup,
    M!rows, M!receipts, M!changes, M!calls
<1>3. /\ CommittedHaveSenders' /\ OpenSendsAreUnseen' /\ CommittedAreCreated' /\
        OneSendEach' /\ ReceiptsHaveRows' /\ MarkingSawRows' /\ ChangingExist' /\
        M!StatusIsJustified' /\ M!DeliveredIsShown' /\ M!LastReadIsRead'
  BY DEF MessagesInv, CommittedHaveSenders, M!Exists, OpenSendsAreUnseen,
    CommittedAreCreated, OneSendEach, ReceiptsHaveRows, MarkingSawRows,
    ChangingExist, M!StatusIsJustified, M!Readers, M!DeliveredIsShown,
    M!LastReadIsRead, M!JoinGroup, M!rows, M!receipts, M!changes, M!calls
<1>4. QED
  BY <1>1, <1>2, <1>3 DEF MessagesInv

(* A step of Unfriend keeps the inductive invariant.                       *)
LEMMA UnfriendKeeps ==
  ASSUME MessagesInv, M!Unfriend
  PROVE  MessagesInv'
<1>1. M!TypeOK'
  BY UserAssumption, BoundAssumption, CallsAssumption DEF MessagesInv, M!TypeOK,
    M!Message, M!Status, M!Call, M!Sending, M!Unfriend, M!rows, M!receipts, M!changes,
    M!calls
<1>2. /\ CommittedHaveSenders' /\ OpenSendsAreUnseen' /\ CommittedAreCreated' /\
        OneSendEach' /\ DirectReachesPeer' /\ ReceiptsHaveRows' /\
        MarkingSawRows' /\ ChangingExist' /\ M!StatusIsJustified' /\
        M!DeliveredIsShown' /\ M!LastReadIsRead'
  BY DEF MessagesInv, CommittedHaveSenders, M!Exists, OpenSendsAreUnseen,
    CommittedAreCreated, OneSendEach, DirectReachesPeer, ReceiptsHaveRows,
    MarkingSawRows, ChangingExist, M!StatusIsJustified, M!Readers,
    M!DeliveredIsShown, M!LastReadIsRead, M!Unfriend, M!rows, M!receipts, M!changes, M!calls
<1>3. QED
  BY <1>1, <1>2 DEF MessagesInv

-----------------------------------------------------------------------------
(* The initial state satisfies the inductive invariant. *)
LEMMA MessagesInit == M!Init => MessagesInv
  BY UserAssumption, BoundAssumption, CallsAssumption DEF M!Init, MessagesInv, M!TypeOK,
    M!Message, M!Status, M!Call, M!Sending, M!Exists, CommittedHaveSenders,
    OpenSendsAreUnseen, CommittedAreCreated, OneSendEach, DirectReachesPeer,
    ReceiptsHaveRows, MarkingSawRows, ChangingExist, M!StatusIsJustified, M!Readers,
    M!DeliveredIsShown, M!LastReadIsRead

(* Every step keeps the inductive invariant. *)
LEMMA MessagesStep == MessagesInv /\ [M!Next]_(M!vars) => MessagesInv'
<1> SUFFICES ASSUME MessagesInv, [M!Next]_(M!vars) PROVE MessagesInv'
  OBVIOUS
<1>1. CASE M!Next
  BY <1>1, SendBeginKeeps, SendCommitKeeps, MarkDeliveredReadKeeps, MarkDeliveredWriteKeeps,
     MarkReadKeeps, MarkReadByRestKeeps, RecallReadKeeps, RecallWriteKeeps, EditReadKeeps,
     EditWriteKeeps, LeaveGroupKeeps, JoinGroupKeeps, UnfriendKeeps
  DEF M!Next
<1>2. CASE UNCHANGED M!vars
  BY <1>2 DEF M!vars, M!members, M!rows, M!receipts, M!changes, M!calls, MessagesInv,
    M!TypeOK, M!Message, M!Call, M!Sending, M!Exists, CommittedHaveSenders,
    OpenSendsAreUnseen, CommittedAreCreated, OneSendEach, DirectReachesPeer,
    ReceiptsHaveRows, MarkingSawRows, ChangingExist, M!StatusIsJustified, M!Readers,
    M!DeliveredIsShown, M!LastReadIsRead
<1>3. QED BY <1>1, <1>2

(* The inductive invariant holds in every reachable state. *)
THEOREM MessagesAreInvariant == M!Spec => []MessagesInv
  BY MessagesInit, MessagesStep, PTL DEF M!Spec

(* Every variable keeps its type. *)
THEOREM MessagesTypeCorrect == M!Spec => []M!TypeOK
<1>1. MessagesInv => M!TypeOK BY DEF MessagesInv
<1>2. QED BY <1>1, MessagesAreInvariant, PTL

(* However markDelivered, markRead and recallMessage interleave, a status  *)
(* the sender is shown has the row behind it that it stands for.           *)
THEOREM StatusStandsForRows == M!Spec => []StatusIsJustified
<1>1. MessagesInv => StatusIsJustified BY DEF MessagesInv, StatusIsJustified
<1>2. QED BY <1>1, MessagesAreInvariant, PTL

(* A delivery that a receiver has yet to read has reached the status. *)
THEOREM DeliveryReachesStatus == M!Spec => []DeliveredIsShown
<1>1. MessagesInv => DeliveredIsShown BY DEF MessagesInv, DeliveredIsShown
<1>2. QED BY <1>1, MessagesAreInvariant, PTL

(* lastReadMessageId names a message the member has read. *)
THEOREM LastReadHasBeenRead == M!Spec => []LastReadIsRead
<1>1. MessagesInv => LastReadIsRead BY DEF MessagesInv, LastReadIsRead
<1>2. QED BY <1>1, MessagesAreInvariant, PTL

-----------------------------------------------------------------------------
(* A status that goes back, in one step and for one message. *)
GoesBackByStaleDelivery(m) ==
  M!Rank[rowStatus'[m]] < M!Rank[rowStatus[m]] =>
    /\ rowStatus'[m] = "DELIVERED"
    /\ \E c \in marking : c.msg = m /\ c.seen = "SENT"

(* No step but the write of a markDelivered that saw SENT takes a status   *)
(* back.                                                                   *)
LEMMA StepGoesBackOnlyStale ==
  ASSUME MessagesInv, [M!Next]_(M!vars), NEW m \in M!Message
  PROVE  GoesBackByStaleDelivery(m)
<1>1. CASE UNCHANGED rowStatus
  BY <1>1 DEF GoesBackByStaleDelivery, M!Rank, MessagesInv, M!TypeOK, M!Status
<1>2. ASSUME NEW x \in sending, M!SendCommit(x) PROVE GoesBackByStaleDelivery(m)
  BY <1>2 DEF M!SendCommit, GoesBackByStaleDelivery, M!Rank, MessagesInv, M!TypeOK,
    M!Status, OpenSendsAreUnseen, M!Exists, M!Sending
<1>3. ASSUME NEW c \in marking, M!MarkDeliveredWrite(c) PROVE GoesBackByStaleDelivery(m)
  BY <1>3 DEF M!MarkDeliveredWrite, GoesBackByStaleDelivery, M!Rank, MessagesInv,
    M!TypeOK, M!Status, M!Call
<1>4. ASSUME NEW u \in User, NEW n \in M!Message, M!MarkRead(u, n)
      PROVE  GoesBackByStaleDelivery(m)
  BY <1>4 DEF M!MarkRead, GoesBackByStaleDelivery, M!Rank, MessagesInv, M!TypeOK, M!Status
<1>5. ASSUME NEW n \in M!Message, M!RecallWrite(n) PROVE GoesBackByStaleDelivery(m)
  BY <1>5 DEF M!RecallWrite, GoesBackByStaleDelivery, M!Rank, MessagesInv, M!TypeOK,
    M!Status
<1>6. \/ UNCHANGED rowStatus
      \/ \E x \in sending : M!SendCommit(x)
      \/ \E c \in marking : M!MarkDeliveredWrite(c)
      \/ \E u \in User, n \in M!Message : M!MarkRead(u, n)
      \/ \E n \in M!Message : M!RecallWrite(n)
  BY DEF M!Next, M!vars, M!SendBegin, M!LeaveGroup, M!JoinGroup, M!MarkDeliveredRead,
    M!MarkReadByRest, M!RecallRead, M!EditRead, M!EditWrite, M!Unfriend
<1>7. QED BY <1>1, <1>2, <1>3, <1>4, <1>5, <1>6

(* The only way back for a message's status is the window between the read *)
(* and the write of markDelivered.                                         *)
THEOREM StatusGoesBackOnlyStale == M!Spec => OnlyStaleDeliveryGoesBack
<1>1. MessagesInv /\ [M!Next]_(M!vars) =>
        [\A m \in M!Message :
           M!Rank[rowStatus'[m]] < M!Rank[rowStatus[m]] =>
             /\ rowStatus'[m] = "DELIVERED"
             /\ \E c \in marking : c.msg = m /\ c.seen = "SENT"]_(M!vars)
  BY StepGoesBackOnlyStale DEF GoesBackByStaleDelivery
<1>2. QED BY <1>1, MessagesAreInvariant, PTL DEF M!Spec, OnlyStaleDeliveryGoesBack,
  M!OnlyStaleDeliveryGoesBack

-----------------------------------------------------------------------------
(* MessageEdits                                                            *)

(* What the variables of MessageEdits have in them *)
EditsTyped ==
  /\ bubble \in [Edited -> [status : E!Status, text : Nat]]
  /\ sends \in [Edited -> Nat] /\ row \in [Edited -> Nat] /\ saved \in [Edited -> Nat]
  /\ \A s \in saves : s.of \in Edited /\ s.text \in Nat \ {0} /\ s.at \in {"encrypting", "sent"}
  /\ \A s \in saves : s = [of |-> s.of, text |-> s.text, at |-> s.at]
  /\ \A e \in news : /\ e.of \in Edited /\ e.text \in Nat \ {0} /\ e.type \in {"new", "edited", "recalled"}
                     /\ e = [type |-> e.type, of |-> e.of, text |-> e.text]
  /\ written \in Nat /\ hurried \subseteq Edited /\ missed \subseteq Edited

SavesOf(c)  == {s \in saves : s.of = c}
NewsOf(c)   == {e \in news : e.of = c}

(* How far a bubble has come, and what may be under way of it then *)
StageIsTrue(c) ==
  /\ bubble[c].status = "none" => sends[c] = 0 /\ NewsOf(c) = {} /\ row[c] = 0
  /\ bubble[c].status \in {"none", "sending", "failed"} => SavesOf(c) = {} /\ \A e \in NewsOf(c) : e.type = "new"
  /\ sends[c] > 0 => E!Pending(c) /\ NewsOf(c) = {} /\ (row[c] = 0 \/ c \in missed)
  /\ \A e \in NewsOf(c) : e.type = "new" => E!Pending(c) /\ row[c] = e.text /\ NewsOf(c) = {e}
  /\ E!Pending(c) /\ row[c] > 0 /\ c \notin missed => NewsOf(c) # {}
  /\ bubble[c].status = "recalled" \/ (\E e \in NewsOf(c) : e.type = "recalled") => row[c] = 0

(* While the user does not hurry and nothing is lost, all that is under    *)
(* way, or has arrived, is the text that was saved last.                   *)
TextIsSaved(c) ==
  /\ sends[c] > 0 => sends[c] = saved[c]
  /\ E!Pending(c) => bubble[c].text = saved[c]
  /\ \A e \in NewsOf(c) : e.type \in {"new", "edited"} => e.text = saved[c]
  /\ \A s, x \in SavesOf(c) : s.text = saved[c] /\ s = x
  /\ \A e \in NewsOf(c) : e.type = "edited" => SavesOf(c) = {} /\ (row[c] = 0 \/ row[c] = saved[c])
  /\ ~E!Pending(c) /\ SavesOf(c) = {} /\ (\A e \in NewsOf(c) : e.type # "edited") /\ row[c] > 0 =>
       row[c] = saved[c] /\ bubble[c].text = saved[c]

TextIsKept(c) == StageIsTrue(c) /\ (c \notin hurried \cup missed => TextIsSaved(c))

EditsInv == EditsTyped /\ \A c \in Edited : TextIsKept(c)

(* The types are kept by every step. *)
LEMMA EditsStayTyped ==
  ASSUME EditsTyped, [E!Next]_(E!vars)
  PROVE  EditsTyped'
<1> USE DEF EditsTyped, E!Status
<1>1. ASSUME NEW c \in Edited, NEW works \in BOOLEAN, E!SubmitMessageDraft(c, works) PROVE EditsTyped'
  BY <1>1 DEF E!SubmitMessageDraft, E!Writes, E!server
<1>2. ASSUME NEW c \in Edited, E!RetryTextMessage(c) PROVE EditsTyped'
  BY <1>2 DEF E!RetryTextMessage, E!server, E!history
<1>3. ASSUME NEW c \in Edited, E!EncryptionFails(c) PROVE EditsTyped'
  BY <1>3 DEF E!EncryptionFails, E!server, E!history
<1>4. ASSUME NEW c \in Edited, E!Accept(c) PROVE EditsTyped'
  <2> DEFINE new == [type |-> "new", of |-> c, text |-> sends[c]]
  <2>1. /\ news' = news \cup {new} /\ row' = [row EXCEPT ![c] = sends[c]] /\ sends' = [sends EXCEPT ![c] = 0]
        /\ UNCHANGED <<bubble, saves, written, saved, hurried, missed>>
    BY <1>4 DEF E!Accept, E!history
  <2>2. new.of \in Edited /\ new.text \in Nat \ {0} /\ new.type = "new"
        /\ new = [type |-> new.type, of |-> new.of, text |-> new.text]
    BY <1>4 DEF E!Accept
  <2> HIDE DEF new
  <2>3. QED BY <2>1, <2>2
<1>5. ASSUME NEW c \in Edited, E!Refuse(c) PROVE EditsTyped'
  BY <1>5 DEF E!Refuse, E!Blame, E!server, E!history
<1>6. ASSUME NEW c \in Edited, E!OpenForm(c) \/ E!EditRefusedHere(c) PROVE EditsTyped'
  BY <1>6 DEF E!OpenForm, E!EditRefusedHere, E!server, E!history
<1>7. ASSUME NEW c \in Edited, E!EditPending(c) PROVE EditsTyped'
  BY <1>7 DEF E!EditPending, E!Writes, E!server
<1>8. ASSUME NEW c \in Edited, E!EditMessage(c) PROVE EditsTyped'
  <2> DEFINE s == [of |-> c, text |-> written + 1, at |-> "encrypting"]
  <2>1. saves' = saves \cup {s} /\ UNCHANGED <<bubble, sends, row, news>>
    BY <1>8 DEF E!EditMessage, E!server
  <2>2. /\ written' = written + 1 /\ saved' = [saved EXCEPT ![c] = written + 1] /\ missed' = missed
        /\ hurried' \subseteq hurried \cup {c}
    BY <1>8 DEF E!EditMessage, E!Writes
  <2>3. s.of \in Edited /\ s.text \in Nat \ {0} /\ s.at = "encrypting" /\ s = [of |-> s.of, text |-> s.text, at |-> s.at]
    OBVIOUS
  <2> HIDE DEF s
  <2>4. QED BY <2>1, <2>2, <2>3
<1>9. ASSUME NEW c \in Edited, E!RecallMessage(c) PROVE EditsTyped'
  <2> DEFINE new == [type |-> "recalled", of |-> c, text |-> 1]
  <2>1. /\ news' = news \cup {new} /\ row' = [row EXCEPT ![c] = 0]
        /\ UNCHANGED <<bubble, sends, saves, written, saved, hurried, missed>>
    BY <1>9 DEF E!RecallMessage, E!history
  <2>2. new.of \in Edited /\ new.text \in Nat \ {0} /\ new.type = "recalled"
        /\ new = [type |-> new.type, of |-> new.of, text |-> new.text]
    OBVIOUS
  <2> HIDE DEF new
  <2>3. QED BY <2>1, <2>2
<1>10. ASSUME NEW s \in saves, E!SaveEnds(s) PROVE EditsTyped'
  <2> DEFINE t == [s EXCEPT !.at = "sent"]
  <2>1. saves' = (saves \ {s}) \cup {t} /\ UNCHANGED <<bubble, sends, row, news, written, saved, hurried, missed>>
    BY <1>10 DEF E!SaveEnds, E!server, E!history
  <2>2. t.of = s.of /\ t.text = s.text /\ t.at = "sent" /\ t = [of |-> t.of, text |-> t.text, at |-> t.at]
    <3>1. s = [of |-> s.of, text |-> s.text, at |-> s.at]
      OBVIOUS
    <3>2. t = [of |-> s.of, text |-> s.text, at |-> "sent"]
      BY <3>1
    <3> HIDE DEF t
    <3>3. QED BY <3>2
  <2> HIDE DEF t
  <2>3. QED BY <2>1, <2>2
<1>11. ASSUME NEW s \in saves, E!EditEncryptionFails(s) \/ E!ServerRefusesEdit(s) PROVE EditsTyped'
  BY <1>11 DEF E!EditEncryptionFails, E!ServerRefusesEdit, E!server
<1>12. ASSUME NEW s \in saves, E!ServerEdits(s) PROVE EditsTyped'
  <2> DEFINE new == [type |-> "edited", of |-> s.of, text |-> s.text]
  <2>1. /\ news' = news \cup {new} /\ row' = [row EXCEPT ![s.of] = s.text] /\ saves' = saves \ {s}
        /\ UNCHANGED <<bubble, sends, written, saved, hurried, missed>>
    BY <1>12 DEF E!ServerEdits, E!history
  <2>2. new.of \in Edited /\ new.text \in Nat \ {0} /\ new.type = "edited"
        /\ new = [type |-> new.type, of |-> new.of, text |-> new.text]
    OBVIOUS
  <2> HIDE DEF new
  <2>3. QED BY <2>1, <2>2
<1>13. ASSUME NEW e \in news, E!HandleNew(e) PROVE EditsTyped'
  BY <1>13 DEF E!HandleNew, E!Got, E!history
<1>14. ASSUME NEW e \in news, E!HandleEdited(e) PROVE EditsTyped'
  BY <1>14 DEF E!HandleEdited, E!Got, E!history
<1>15. ASSUME NEW e \in news, E!HandleRecalled(e) PROVE EditsTyped'
  BY <1>15 DEF E!HandleRecalled, E!Got, E!history
<1>16. ASSUME NEW e \in news, E!Lose(e) PROVE EditsTyped'
  BY <1>16 DEF E!Lose
<1>17. CASE E!CancelEdit \/ UNCHANGED E!vars
  BY <1>17 DEF E!CancelEdit, E!vars, E!server, E!history
<1>18. QED
  BY <1>1, <1>2, <1>3, <1>4, <1>5, <1>6, <1>7, <1>8, <1>9, <1>10, <1>11, <1>12, <1>13, <1>14, <1>15,
     <1>16, <1>17 DEF E!Next, E!UserNext

(* A text stays as it is when no more of it changes than that an attempt to *)
(* send it ends.                                                           *)
LEMMA UntouchedTextIsKept ==
  ASSUME EditsTyped, NEW c \in Edited, TextIsKept(c),
         bubble'[c].text = bubble[c].text,
         \/ bubble'[c].status = bubble[c].status
         \/ E!Pending(c) /\ bubble'[c].status \in {"sending", "failed"},
         sends'[c] \in {sends[c], 0}, row'[c] = row[c], saved'[c] = saved[c],
         SavesOf(c)' = SavesOf(c), NewsOf(c)' = NewsOf(c),
         c \in missed' <=> c \in missed, c \in hurried => c \in hurried'
  PROVE  TextIsKept(c)'
<1>1. E!Pending(c)' <=> E!Pending(c)
  BY DEF E!Pending
<1>2. sends[c] \in Nat /\ row[c] \in Nat
  BY DEF EditsTyped
<1>3. StageIsTrue(c)'
  BY <1>1, <1>2 DEF TextIsKept, StageIsTrue, E!Pending
<1>4. ASSUME c \notin hurried' \cup missed' PROVE TextIsSaved(c)'
  <2>1. TextIsSaved(c)
    BY <1>4 DEF TextIsKept
  <2>2. QED BY <2>1, <1>1, <1>2 DEF TextIsSaved
<1>5. QED BY <1>3, <1>4 DEF TextIsKept

(* What the user does to a text of a bubble *)
LEMMA WritingKeepsTexts ==
  ASSUME EditsInv, EditsTyped', NEW c \in Edited, NEW works \in BOOLEAN,
         E!SubmitMessageDraft(c, works) \/ E!RetryTextMessage(c) \/ E!EditPending(c),
         NEW d \in Edited
  PROVE  TextIsKept(d)'
<1>1. /\ \A x \in Edited \ {c} : bubble'[x] = bubble[x] /\ sends'[x] = sends[x] /\ saved'[x] = saved[x]
      /\ \A x \in Edited \ {c} : x \in hurried' <=> x \in hurried
      /\ UNCHANGED <<saves, news, row, missed>>
  BY DEF EditsInv, EditsTyped, E!SubmitMessageDraft, E!RetryTextMessage, E!EditPending, E!Writes, E!server, E!history
<1>2. SavesOf(d)' = SavesOf(d) /\ NewsOf(d)' = NewsOf(d)
  BY <1>1 DEF SavesOf, NewsOf
<1>3. TextIsKept(d) /\ EditsTyped
  BY DEF EditsInv
<1>4. CASE d # c
  BY <1>1, <1>2, <1>3, <1>4, UntouchedTextIsKept
<1>5. CASE d = c
  <2>1. /\ StageIsTrue(c) /\ row[c] \in Nat /\ sends[c] \in Nat /\ written + 1 \in Nat \ {0}
        /\ c \notin hurried \cup missed => TextIsSaved(c)
    BY <1>3, <1>5 DEF TextIsKept, EditsTyped
  <2>2. CASE E!SubmitMessageDraft(c, works)
    <3>1. /\ bubble[c].status = "none" /\ bubble'[c].status \in {"sending", "failed"}
          /\ bubble'[c].text = written + 1 /\ sends'[c] \in {0, written + 1} /\ saved'[c] = written + 1
      BY <2>2, <1>3 DEF EditsTyped, E!SubmitMessageDraft, E!Writes
    <3>2. sends[c] = 0 /\ NewsOf(c) = {} /\ row[c] = 0 /\ SavesOf(c) = {}
      BY <3>1, <2>1 DEF StageIsTrue
    <3>3. StageIsTrue(c)' /\ TextIsSaved(c)'
      BY <3>1, <3>2, <1>1, <1>2, <1>5 DEF StageIsTrue, TextIsSaved, E!Pending
    <3>4. QED BY <3>3, <1>5 DEF TextIsKept
  <2>3. CASE E!RetryTextMessage(c)
    <3>1. /\ bubble[c].status = "failed" /\ bubble'[c].status = "sending" /\ sends[c] = 0
          /\ bubble'[c].text = bubble[c].text /\ sends'[c] = bubble[c].text /\ saved'[c] = saved[c] /\ hurried' = hurried
      BY <2>3, <1>3 DEF EditsTyped, E!RetryTextMessage, E!Settled, E!history
    <3>2. NewsOf(c) = {} /\ SavesOf(c) = {}
      BY <2>3 DEF E!RetryTextMessage, E!Settled, NewsOf, SavesOf
    <3>3. row[c] = 0 \/ c \in missed
      BY <3>1, <3>2, <2>1 DEF StageIsTrue, E!Pending
    <3>4. StageIsTrue(c)'
      BY <3>1, <3>2, <3>3, <2>1, <1>1, <1>2, <1>5 DEF StageIsTrue, E!Pending
    <3>5. c \notin hurried' \cup missed' => TextIsSaved(c)'
      BY <3>1, <3>2, <3>3, <2>1, <1>1, <1>2, <1>5 DEF TextIsSaved, E!Pending
    <3>6. QED BY <3>4, <3>5, <1>5 DEF TextIsKept
  <2>4. CASE E!EditPending(c)
    <3>1. /\ E!Pending(c) /\ bubble'[c].status = bubble[c].status /\ bubble'[c].text = written + 1
          /\ sends'[c] = sends[c] /\ saved'[c] = written + 1
      BY <2>4, <1>3 DEF EditsTyped, E!EditPending, E!Writes, E!Pending
    <3>2. c \notin hurried' => sends[c] = 0 /\ NewsOf(c) = {} /\ SavesOf(c) = {}
      BY <2>4 DEF E!EditPending, E!Writes, E!Settled, NewsOf, SavesOf
    <3>3. E!Pending(c)'
      BY <3>1 DEF E!Pending
    <3>4. StageIsTrue(c)'
      BY <3>1, <3>3, <2>1, <1>1, <1>2, <1>5 DEF StageIsTrue, E!Pending
    <3>5. c \notin hurried' \cup missed' => TextIsSaved(c)'
      BY <3>1, <3>2, <3>3, <2>1, <1>1, <1>2, <1>5 DEF TextIsSaved
    <3>6. QED BY <3>4, <3>5, <1>5 DEF TextIsKept
  <2>5. QED BY <2>2, <2>3, <2>4
<1>6. QED BY <1>4, <1>5

LEMMA EditingKeepsTexts ==
  ASSUME EditsInv, EditsTyped', NEW c \in Edited, E!EditMessage(c) \/ E!RecallMessage(c), NEW d \in Edited
  PROVE  TextIsKept(d)'
<1>1. TextIsKept(d) /\ TextIsKept(c) /\ EditsTyped
  BY DEF EditsInv
<1>2. /\ StageIsTrue(c) /\ row[c] \in Nat /\ sends[c] \in Nat /\ written + 1 \in Nat \ {0}
      /\ c \notin hurried \cup missed => TextIsSaved(c)
  BY <1>1 DEF TextIsKept, EditsTyped
<1>3. CASE E!EditMessage(c)
  <2> DEFINE s == [of |-> c, text |-> written + 1, at |-> "encrypting"]
  <2>1. /\ saves' = saves \cup {s} /\ UNCHANGED <<bubble, sends, row, news, missed>>
        /\ bubble[c].status = "sent" /\ saved' = [saved EXCEPT ![c] = written + 1]
        /\ hurried' = IF E!Settled(c) THEN hurried \ {c} ELSE hurried \cup {c}
    BY <1>3 DEF E!EditMessage, E!Writes, E!server
  <2>2. s.of = c /\ s.text = written + 1
    OBVIOUS
  <2> HIDE DEF s
  <2>3. NewsOf(d)' = NewsOf(d) /\ SavesOf(d)' = IF d = c THEN SavesOf(c) \cup {s} ELSE SavesOf(d)
    BY <2>1, <2>2 DEF NewsOf, SavesOf
  <2>4. CASE d # c
    BY <2>1, <2>3, <2>4, <1>1, UntouchedTextIsKept DEF EditsTyped
  <2>5. CASE d = c
    <3>1. saved'[c] = written + 1
      BY <2>1, <1>1 DEF EditsTyped
    <3>2. c \notin hurried' => sends[c] = 0 /\ NewsOf(c) = {} /\ SavesOf(c) = {}
      BY <2>1 DEF E!Settled, NewsOf, SavesOf
    <3>3. ~E!Pending(c) /\ ~E!Pending(c)'
      BY <2>1 DEF E!Pending
    <3>4. StageIsTrue(c)'
      BY <2>1, <2>3, <2>5, <3>3, <1>2 DEF StageIsTrue
    <3>5. ASSUME c \notin hurried' \cup missed' PROVE TextIsSaved(c)'
      <4>1. SavesOf(c)' = {s} /\ NewsOf(c)' = {} /\ sends'[c] = 0 /\ s.text = saved'[c]
        BY <2>1, <2>2, <2>3, <2>5, <3>1, <3>2, <3>5
      <4>2. QED BY <4>1, <3>3 DEF TextIsSaved
    <3>6. QED BY <3>4, <3>5, <2>5 DEF TextIsKept
  <2>6. QED BY <2>4, <2>5
<1>4. CASE E!RecallMessage(c)
  <2> DEFINE new == [type |-> "recalled", of |-> c, text |-> 1]
  <2>1. /\ news' = news \cup {new} /\ row' = [row EXCEPT ![c] = 0] /\ bubble[c].status = "sent"
        /\ UNCHANGED <<bubble, sends, saves, saved, hurried, missed>>
    BY <1>4 DEF E!RecallMessage, E!history
  <2>2. new.of = c /\ new.type = "recalled"
    OBVIOUS
  <2> HIDE DEF new
  <2>3. SavesOf(d)' = SavesOf(d) /\ NewsOf(d)' = IF d = c THEN NewsOf(c) \cup {new} ELSE NewsOf(d)
    BY <2>1, <2>2 DEF NewsOf, SavesOf
  <2>4. CASE d # c
    BY <2>1, <2>3, <2>4, <1>1, UntouchedTextIsKept DEF EditsTyped
  <2>5. CASE d = c
    <3>1. row'[c] = 0
      BY <2>1, <1>1 DEF EditsTyped
    <3>2. ~E!Pending(c) /\ ~E!Pending(c)'
      BY <2>1 DEF E!Pending
    <3>3. sends[c] = 0 /\ \A e \in NewsOf(c) : e.type # "new"
      BY <3>2, <1>2 DEF StageIsTrue
    <3>4. StageIsTrue(c)'
      BY <2>1, <2>2, <2>3, <2>5, <3>1, <3>2, <3>3 DEF StageIsTrue
    <3>5. c \notin hurried' \cup missed' => TextIsSaved(c)'
      BY <2>1, <2>2, <2>3, <2>5, <3>1, <3>2, <3>3, <1>2 DEF TextIsSaved
    <3>6. QED BY <3>4, <3>5, <2>5 DEF TextIsKept
  <2>6. QED BY <2>4, <2>5
<1>5. QED BY <1>3, <1>4

(* What becomes of an attempt to send a text *)
LEMMA SendingKeepsTexts ==
  ASSUME EditsInv, EditsTyped', NEW c \in Edited,
         E!EncryptionFails(c) \/ E!Refuse(c) \/ E!Accept(c), NEW d \in Edited
  PROVE  TextIsKept(d)'
<1>1. TextIsKept(d) /\ TextIsKept(c) /\ EditsTyped
  BY DEF EditsInv
<1>2. /\ StageIsTrue(c) /\ row[c] \in Nat /\ sends[c] \in Nat /\ sends[c] > 0
      /\ c \notin hurried \cup missed => TextIsSaved(c)
  BY <1>1 DEF TextIsKept, EditsTyped, E!EncryptionFails, E!Refuse, E!Accept
<1>3. E!Pending(c) /\ NewsOf(c) = {} /\ (row[c] = 0 \/ c \in missed) /\ SavesOf(c) = {}
  BY <1>2 DEF StageIsTrue, E!Pending
<1>4. CASE E!EncryptionFails(c) \/ E!Refuse(c)
  <2>1. /\ sends' = [sends EXCEPT ![c] = 0] /\ UNCHANGED <<saves, row, news, saved, hurried, missed>>
    BY <1>4 DEF E!EncryptionFails, E!Refuse, E!server, E!history
  <2>2. /\ bubble'[d].text = bubble[d].text
        /\ \/ bubble'[d].status = bubble[d].status
           \/ E!Pending(d) /\ bubble'[d].status \in {"sending", "failed"}
    <3>1. /\ bubble \in [Edited -> [status : E!Status, text : Nat]] /\ bubble[c].status \in {"sending", "failed"}
      BY <1>1, <1>3 DEF EditsTyped, E!Pending
    <3>2. CASE E!EncryptionFails(c)
      BY <3>1, <3>2 DEF E!EncryptionFails, E!Pending
    <3>3. CASE E!Refuse(c)
      BY <3>1, <3>3 DEF E!Refuse, E!Blame, E!Pending
    <3>4. QED BY <1>4, <3>2, <3>3
  <2>3. SavesOf(d)' = SavesOf(d) /\ NewsOf(d)' = NewsOf(d) /\ sends'[d] \in {sends[d], 0}
    BY <2>1, <1>1 DEF SavesOf, NewsOf, EditsTyped
  <2>4. QED BY <2>1, <2>2, <2>3, <1>1, UntouchedTextIsKept
<1>5. CASE E!Accept(c)
  <2> DEFINE new == [type |-> "new", of |-> c, text |-> sends[c]]
  <2>1. /\ news' = news \cup {new} /\ row' = [row EXCEPT ![c] = sends[c]] /\ sends' = [sends EXCEPT ![c] = 0]
        /\ UNCHANGED <<bubble, saves, saved, hurried, missed>>
    BY <1>5 DEF E!Accept, E!history
  <2>2. new.of = c /\ new.text = sends[c] /\ new.type = "new"
    OBVIOUS
  <2> HIDE DEF new
  <2>3. SavesOf(d)' = SavesOf(d) /\ NewsOf(d)' = IF d = c THEN NewsOf(c) \cup {new} ELSE NewsOf(d)
    BY <2>1, <2>2 DEF NewsOf, SavesOf
  <2>4. CASE d # c
    BY <2>1, <2>3, <2>4, <1>1, UntouchedTextIsKept DEF EditsTyped
  <2>5. CASE d = c
    <3>1. row'[c] = sends[c] /\ sends'[c] = 0 /\ NewsOf(c)' = {new}
      BY <2>1, <2>3, <2>5, <1>1, <1>3 DEF EditsTyped
    <3>2. E!Pending(c)' /\ bubble'[c].status \in {"sending", "failed"}
      BY <2>1, <1>3 DEF E!Pending
    <3>3. StageIsTrue(c)'
      BY <2>1, <2>2, <2>3, <2>5, <3>1, <3>2, <1>2, <1>3 DEF StageIsTrue
    <3>4. c \notin hurried' \cup missed' => TextIsSaved(c)'
      BY <2>1, <2>2, <2>3, <2>5, <3>1, <3>2, <1>2, <1>3 DEF TextIsSaved
    <3>5. QED BY <3>3, <3>4, <2>5 DEF TextIsKept
  <2>6. QED BY <2>4, <2>5
<1>6. QED BY <1>4, <1>5

(* What becomes of an edit that is on its way *)
LEMMA SavingKeepsTexts ==
  ASSUME EditsInv, EditsTyped', NEW s \in saves,
         E!SaveEnds(s) \/ E!EditEncryptionFails(s) \/ E!ServerRefusesEdit(s) \/ E!ServerEdits(s), NEW d \in Edited
  PROVE  TextIsKept(d)'
<1>1. TextIsKept(d) /\ EditsTyped /\ s.of \in Edited /\ s.text \in Nat \ {0}
  BY DEF EditsInv, EditsTyped
<1>2. /\ StageIsTrue(s.of) /\ row[s.of] \in Nat /\ sends[s.of] \in Nat
      /\ s.of \notin hurried \cup missed => TextIsSaved(s.of)
  BY <1>1 DEF TextIsKept, EditsTyped, EditsInv
<1>3. s \in SavesOf(s.of)
  BY DEF SavesOf
<1>4. ~E!Pending(s.of) /\ sends[s.of] = 0 /\ (\A e \in NewsOf(s.of) : e.type # "new") /\ bubble[s.of].status # "none"
  BY <1>2, <1>3 DEF StageIsTrue, E!Pending
<1>5. CASE E!SaveEnds(s)
  <2> DEFINE t == [s EXCEPT !.at = "sent"]
  <2>1. saves' = (saves \ {s}) \cup {t} /\ UNCHANGED <<bubble, sends, row, news, saved, hurried, missed>>
    BY <1>5 DEF E!SaveEnds, E!server, E!history
  <2>2. t.of = s.of /\ t.text = s.text
    <3>1. s = [of |-> s.of, text |-> s.text, at |-> s.at]
      BY <1>1 DEF EditsTyped
    <3>2. t = [of |-> s.of, text |-> s.text, at |-> "sent"]
      BY <3>1
    <3> HIDE DEF t
    <3>3. QED BY <3>2
  <2> HIDE DEF t
  <2>3. NewsOf(d)' = NewsOf(d) /\ SavesOf(d)' = IF d = s.of THEN (SavesOf(d) \ {s}) \cup {t} ELSE SavesOf(d)
    BY <2>1, <2>2 DEF NewsOf, SavesOf
  <2>4. CASE d # s.of
    BY <2>1, <2>3, <2>4, <1>1, UntouchedTextIsKept DEF EditsTyped
  <2>5. CASE d = s.of
    <3>1. ~E!Pending(d)'
      BY <2>1, <2>5, <1>4 DEF E!Pending
    <3>2. StageIsTrue(d)'
      BY <2>1, <2>3, <2>5, <3>1, <1>2, <1>4 DEF StageIsTrue, E!Pending
    <3>3. d \notin hurried' \cup missed' => TextIsSaved(d)'
      BY <2>1, <2>2, <2>3, <2>5, <3>1, <1>2, <1>3, <1>4 DEF TextIsSaved
    <3>4. QED BY <3>2, <3>3 DEF TextIsKept
  <2>6. QED BY <2>4, <2>5
<1>6. CASE E!EditEncryptionFails(s) \/ E!ServerRefusesEdit(s)
  <2>1. /\ saves' = saves \ {s} /\ hurried' = hurried \cup {s.of}
        /\ UNCHANGED <<bubble, sends, row, news, saved, missed>>
    BY <1>6 DEF E!EditEncryptionFails, E!ServerRefusesEdit, E!server
  <2>2. NewsOf(d)' = NewsOf(d) /\ SavesOf(d)' = SavesOf(d) \ {s}
    BY <2>1 DEF NewsOf, SavesOf
  <2>3. CASE d # s.of
    <3>1. SavesOf(d)' = SavesOf(d)
      BY <2>2, <2>3 DEF SavesOf
    <3>2. QED BY <2>1, <2>2, <2>3, <3>1, <1>1, UntouchedTextIsKept
  <2>4. CASE d = s.of
    <3>1. StageIsTrue(d)'
      BY <2>1, <2>2, <2>4, <1>2, <1>4 DEF StageIsTrue, E!Pending
    <3>2. QED BY <2>1, <2>4, <3>1 DEF TextIsKept
  <2>5. QED BY <2>3, <2>4
<1>7. CASE E!ServerEdits(s)
  <2> DEFINE new == [type |-> "edited", of |-> s.of, text |-> s.text]
  <2>1. /\ news' = news \cup {new} /\ row' = [row EXCEPT ![s.of] = s.text] /\ saves' = saves \ {s} /\ row[s.of] > 0
        /\ UNCHANGED <<bubble, sends, saved, hurried, missed>>
    BY <1>7 DEF E!ServerEdits, E!history
  <2>2. new.of = s.of /\ new.text = s.text /\ new.type = "edited"
    OBVIOUS
  <2> HIDE DEF new
  <2>3. /\ SavesOf(d)' = SavesOf(d) \ {s}
        /\ NewsOf(d)' = IF d = s.of THEN NewsOf(d) \cup {new} ELSE NewsOf(d)
    BY <2>1, <2>2 DEF NewsOf, SavesOf
  <2>4. CASE d # s.of
    <3>1. SavesOf(d)' = SavesOf(d)
      BY <2>3, <2>4 DEF SavesOf
    <3>2. QED BY <2>1, <2>3, <2>4, <3>1, <1>1, UntouchedTextIsKept DEF EditsTyped
  <2>5. CASE d = s.of
    <3>1. ~E!Pending(d)' /\ row'[d] = s.text
      BY <2>1, <2>5, <1>1, <1>4 DEF E!Pending, EditsTyped
    <3>2. StageIsTrue(d)'
      BY <2>1, <2>2, <2>3, <2>5, <3>1, <1>2, <1>4 DEF StageIsTrue, E!Pending
    <3>3. ASSUME d \notin hurried' \cup missed' PROVE TextIsSaved(d)'
      <4>1. TextIsSaved(d)
        BY <2>1, <2>5, <3>3, <1>2
      <4>2. SavesOf(d)' = {} /\ s.text = saved[d]
        BY <4>1, <2>3, <2>5, <1>3 DEF TextIsSaved
      <4>3. QED BY <4>1, <4>2, <2>1, <2>2, <2>3, <2>5, <3>1, <1>4 DEF TextIsSaved
    <3>4. QED BY <3>2, <3>3 DEF TextIsKept
  <2>6. QED BY <2>4, <2>5
<1>8. QED BY <1>5, <1>6, <1>7

(* What arrives at the client, or does not *)
LEMMA NewsKeepsTexts ==
  ASSUME EditsInv, EditsTyped', NEW n \in news,
         E!HandleNew(n) \/ E!HandleEdited(n) \/ E!HandleRecalled(n) \/ E!Lose(n), NEW d \in Edited
  PROVE  TextIsKept(d)'
<1>1. TextIsKept(d) /\ EditsTyped /\ n.of \in Edited /\ n.text \in Nat \ {0}
  BY DEF EditsInv, EditsTyped
<1>2. /\ StageIsTrue(n.of) /\ row[n.of] \in Nat /\ sends[n.of] \in Nat
      /\ n.of \notin hurried \cup missed => TextIsSaved(n.of)
  BY <1>1 DEF TextIsKept, EditsTyped, EditsInv
<1>3. n \in NewsOf(n.of)
  BY DEF NewsOf
<1>4. /\ news' = news \ {n} /\ UNCHANGED <<sends, saves, row, saved, hurried>>
      /\ \A x \in Edited \ {n.of} : bubble'[x] = bubble[x] /\ (x \in missed' <=> x \in missed)
  BY <1>1 DEF EditsTyped, E!HandleNew, E!HandleEdited, E!HandleRecalled, E!Lose, E!Got, E!history
<1>5. SavesOf(d)' = SavesOf(d) /\ NewsOf(d)' = NewsOf(d) \ {n}
  BY <1>4 DEF NewsOf, SavesOf
<1>6. CASE d # n.of
  <2>1. NewsOf(d)' = NewsOf(d)
    BY <1>5, <1>6 DEF NewsOf
  <2>2. QED BY <2>1, <1>1, <1>4, <1>5, <1>6, UntouchedTextIsKept
<1>7. CASE d = n.of
  <2>0. sends[d] = 0
    BY <1>2, <1>3, <1>7 DEF StageIsTrue
  <2>1. CASE E!HandleNew(n)
    <3>1. n.type = "new" /\ bubble'[d].status = "sent" /\ bubble'[d].text = n.text /\ missed' = missed
      BY <2>1, <1>1, <1>7 DEF EditsTyped, E!HandleNew, E!Got, E!history
    <3>2. E!Pending(d) /\ row[d] = n.text /\ NewsOf(d) = {n} /\ ~E!Pending(d)' /\ SavesOf(d) = {}
      BY <3>1, <1>2, <1>3, <1>7 DEF StageIsTrue, E!Pending
    <3>3. NewsOf(d)' = {}
      BY <3>2, <1>5
    <3>4. StageIsTrue(d)'
      BY <2>0, <3>1, <3>2, <3>3, <1>4 DEF StageIsTrue
    <3>5. d \notin hurried' \cup missed' => TextIsSaved(d)'
      BY <2>0, <3>1, <3>2, <3>3, <1>2, <1>4, <1>5, <1>7 DEF TextIsSaved
    <3>6. QED BY <3>4, <3>5 DEF TextIsKept
  <2>2. CASE E!HandleEdited(n)
    <3>1. n.type = "edited"
      BY <2>2 DEF E!HandleEdited, E!Got
    <3>2. ~E!Pending(d) /\ bubble[d].status # "none"
      BY <3>1, <1>2, <1>3, <1>7 DEF StageIsTrue, E!Pending
    <3>3. bubble'[d].status = bubble[d].status /\ bubble'[d].text = n.text /\ missed' = missed /\ ~E!Pending(d)'
      BY <2>2, <3>2, <1>1, <1>7 DEF EditsTyped, E!HandleEdited, E!Pending, E!history
    <3>4. StageIsTrue(d)'
      BY <2>0, <3>2, <3>3, <1>2, <1>4, <1>5, <1>7 DEF StageIsTrue, E!Pending
    <3>5. ASSUME d \notin hurried' \cup missed' PROVE TextIsSaved(d)'
      <4>1. TextIsSaved(d)
        BY <3>3, <3>5, <1>2, <1>4, <1>7
      <4>2. SavesOf(d) = {} /\ (row[d] = 0 \/ row[d] = saved[d]) /\ n.text = saved[d]
        BY <4>1, <3>1, <1>3, <1>7 DEF TextIsSaved
      <4>3. QED BY <4>1, <4>2, <2>0, <3>2, <3>3, <1>4, <1>5 DEF TextIsSaved
    <3>6. QED BY <3>4, <3>5 DEF TextIsKept
  <2>3. CASE E!HandleRecalled(n)
    <3>1. n.type = "recalled"
      BY <2>3 DEF E!HandleRecalled, E!Got
    <3>2. ~E!Pending(d) /\ bubble[d].status # "none" /\ row[d] = 0
      BY <3>1, <1>2, <1>3, <1>7 DEF StageIsTrue, E!Pending
    <3>3. bubble'[d].status = "recalled" /\ bubble'[d].text = bubble[d].text /\ missed' = missed /\ ~E!Pending(d)'
      BY <2>3, <1>1, <1>7 DEF EditsTyped, E!HandleRecalled, E!Pending, E!history
    <3>4. StageIsTrue(d)'
      BY <2>0, <3>2, <3>3, <1>2, <1>4, <1>5, <1>7 DEF StageIsTrue, E!Pending
    <3>5. d \notin hurried' \cup missed' => TextIsSaved(d)'
      BY <2>0, <3>2, <3>3, <1>2, <1>4, <1>5, <1>7 DEF TextIsSaved
    <3>6. QED BY <3>4, <3>5 DEF TextIsKept
  <2>4. CASE E!Lose(n)
    <3>1. d \in missed' /\ bubble' = bubble
      BY <2>4, <1>7 DEF E!Lose
    <3>2. StageIsTrue(d)'
      BY <2>0, <3>1, <1>2, <1>4, <1>5, <1>7 DEF StageIsTrue, E!Pending
    <3>3. QED BY <3>1, <3>2 DEF TextIsKept
  <2>5. QED BY <2>1, <2>2, <2>3, <2>4
<1>8. QED BY <1>6, <1>7

LEMMA EditsStep ==
  ASSUME EditsInv, [E!Next]_(E!vars)
  PROVE  EditsInv'
<1>1. EditsTyped'
  BY EditsStayTyped DEF EditsInv
<1>2. ASSUME NEW d \in Edited PROVE TextIsKept(d)'
  <2>1. ASSUME NEW c \in Edited, NEW works \in BOOLEAN,
               E!SubmitMessageDraft(c, works) \/ E!RetryTextMessage(c) \/ E!EditPending(c)
        PROVE  TextIsKept(d)'
    BY <1>1, <2>1, WritingKeepsTexts
  <2>2. ASSUME NEW c \in Edited, E!EditMessage(c) \/ E!RecallMessage(c) PROVE TextIsKept(d)'
    BY <1>1, <2>2, EditingKeepsTexts
  <2>3. ASSUME NEW c \in Edited, E!EncryptionFails(c) \/ E!Refuse(c) \/ E!Accept(c) PROVE TextIsKept(d)'
    BY <1>1, <2>3, SendingKeepsTexts
  <2>4. ASSUME NEW s \in saves,
               E!SaveEnds(s) \/ E!EditEncryptionFails(s) \/ E!ServerRefusesEdit(s) \/ E!ServerEdits(s)
        PROVE  TextIsKept(d)'
    BY <1>1, <2>4, SavingKeepsTexts
  <2>5. ASSUME NEW n \in news, E!HandleNew(n) \/ E!HandleEdited(n) \/ E!HandleRecalled(n) \/ E!Lose(n)
        PROVE  TextIsKept(d)'
    BY <1>1, <2>5, NewsKeepsTexts
  <2>6. ASSUME UNCHANGED <<bubble, sends, saves, row, news, saved, hurried, missed>> PROVE TextIsKept(d)'
    <3>1. SavesOf(d)' = SavesOf(d) /\ NewsOf(d)' = NewsOf(d)
      BY <2>6 DEF SavesOf, NewsOf
    <3>2. QED BY <2>6, <3>1, UntouchedTextIsKept DEF EditsInv
  <2>7. ASSUME NEW c \in Edited, E!OpenForm(c) \/ E!EditRefusedHere(c) PROVE TextIsKept(d)'
    BY <2>6, <2>7 DEF E!OpenForm, E!EditRefusedHere, E!server, E!history
  <2>8. CASE E!CancelEdit \/ UNCHANGED E!vars
    BY <2>6, <2>8 DEF E!CancelEdit, E!vars, E!server, E!history
  <2>9. QED BY <2>1, <2>2, <2>3, <2>4, <2>5, <2>7, <2>8 DEF E!Next, E!UserNext
<1>3. QED BY <1>1, <1>2 DEF EditsInv

LEMMA EditsInit ==
  ASSUME E!Init
  PROVE  EditsInv
<1>1. EditsTyped
  BY DEF E!Init, EditsTyped, E!Status
<1>2. ASSUME NEW c \in Edited PROVE StageIsTrue(c) /\ TextIsSaved(c)
  BY DEF E!Init, StageIsTrue, TextIsSaved, E!Pending, SavesOf, NewsOf
<1>3. QED BY <1>1, <1>2 DEF EditsInv, TextIsKept

(* How far each text has come, and what is under way of it (EditsInv), is  *)
(* so after every step of sending, editing and recalling it.               *)
THEOREM EditsAreInvariant == E!Spec => []EditsInv
<1>1. QED BY EditsInit, EditsStep, PTL DEF E!Spec

(* The text that the user has saved last is the text that the server has   *)
(* and that the bubble shows, once nothing of it is under way, unless the  *)
(* user hurried or an event was lost.                                      *)
THEOREM SavedTextIsKept == E!Spec => []UnhurriedEditIsKept
<1>1. ASSUME EditsInv PROVE UnhurriedEditIsKept
  <2>1. SUFFICES ASSUME NEW c \in Edited, row[c] > 0, E!Settled(c), c \notin hurried \cup missed
                 PROVE  row[c] = saved[c] /\ bubble[c].text = saved[c]
    BY DEF UnhurriedEditIsKept, E!UnhurriedEditIsKept
  <2>2. SavesOf(c) = {} /\ NewsOf(c) = {}
    BY <2>1 DEF E!Settled, SavesOf, NewsOf
  <2>3. StageIsTrue(c) /\ TextIsSaved(c)
    BY <1>1, <2>1 DEF EditsInv, TextIsKept
  <2>4. ~E!Pending(c)
    BY <2>1, <2>2, <2>3 DEF StageIsTrue
  <2>5. QED BY <2>1, <2>2, <2>3, <2>4 DEF TextIsSaved
<1>2. QED BY <1>1, EditsAreInvariant, PTL
=============================================================================
