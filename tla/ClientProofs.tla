---------------------------- MODULE ClientProofs ----------------------------
(***************************************************************************)
(* Proofs about what a client shows: the pages of a conversation, its      *)
(* session, and its contacts, for any accounts, page size, and number of   *)
(* messages, loads, handlers, faults, logins, changes and visits.          *)
(***************************************************************************)
EXTENDS ClientStores, SequenceTheorems, TLAPS

(* The pages                                                               *)

Call == [kind : {"select", "older", "other"}, at : {"asked", "read", "arrived", "cached"},
         page : SUBSET Message, more : BOOLEAN, before : Nat \cup {None}, stale : BOOLEAN]

PagesTyped ==
  /\ n \in 0 .. MaxMessages /\ cleared \in 0 .. n /\ upto \in 0 .. n
  /\ pending \subseteq 1 .. n /\ shown \subseteq 1 .. n /\ deleted \subseteq 1 .. n
  /\ \A h \in handlers : h.m \in 1 .. n /\ h.cleared \in 0 .. cleared
  /\ calls \in Seq(Call)
  /\ cache \in [Message -> {"none", "kept", "deleted"}]
  /\ \A m \in Message : cache[m] # "none" => m <= n
  /\ {selected, loading, hasMore, older, whole} \subseteq BOOLEAN
  /\ cursor \in 1 .. n \cup {None} /\ (hasMore => cursor # None)

(* What a load has asked for, and what it has got *)
Sound(c, k) ==
  /\ c.page \subseteq 1 .. k
  /\ c.kind = "older" => c.before \in 1 .. k
  /\ c.kind # "select" => c.at # "cached"
  /\ c.at \in {"read", "arrived"} =>
       /\ c.kind # "other"
       /\ \E b \in 1 .. k + 1 :
            c.page = Page(b) /\ c.more = More(b) /\ (c.kind = "older" => b = c.before)
LoadsAreSound == \A i \in DOMAIN calls : Sound(calls[i], n)

(* What was deleted and may still come, and what was cleared, is known. *)
DeletedIsKnown(m) == m \in deleted => m \in again
ClearedIsKnown(m) == m <= cleared => m \in late
TakenIsKnown ==
  /\ \A m \in pending : DeletedIsKnown(m)
  /\ \A m \in Message : cache[m] = "kept" => DeletedIsKnown(m)
  /\ \A h \in handlers : DeletedIsKnown(h.m) /\ (h.m > h.cleared => ClearedIsKnown(h.m))
  /\ \A i \in DOMAIN calls : \A m \in calls[i].page :
       DeletedIsKnown(m) /\ (calls[i].at = "cached" => ClearedIsKnown(m))

(* A message that is shown, that the user took away or the socket lost, or *)
(* that is on its way                                                      *)
Accounted(m) ==
  \/ m \in shown \cup pending \cup missed \cup deleted \/ m <= cleared
  \/ \E h \in handlers : h.m = m
LaterAreAccounted == \A m \in 1 .. n : m > upto => Accounted(m)

(* All from first on are accounted for, and the older ones can be fetched. *)
AccountedFrom(first) ==
  /\ \A m \in 1 .. n : m >= first => Accounted(m)
  /\ first > 1 => hasMore /\ first <= cursor
  /\ \A i \in DOMAIN calls :
       calls[i].kind = "older" /\ ~calls[i].stale => first <= calls[i].before
WholeIsWhole == whole => \E first \in 0 .. MaxMessages : AccountedFrom(first)

PagesInv ==
  /\ PagesTyped /\ LoadsAreSound
  /\ SpinnersAreServed
  /\ TakenIsKnown /\ TakenAwayStaysAway
  /\ LaterAreAccounted /\ WholeIsWhole

-----------------------------------------------------------------------------
(* Loads and pages                                                         *)

(* What is left when one load is done                                      *)
LEMMA Removed ==
  ASSUME NEW T, NEW s \in Seq(T), NEW i \in DOMAIN s
  PROVE  /\ RemoveAt(s, i) \in Seq(T)
         /\ \A j \in DOMAIN RemoveAt(s, i) : \E k \in DOMAIN s : RemoveAt(s, i)[j] = s[k]
         /\ \A k \in DOMAIN s : k # i => \E j \in DOMAIN RemoveAt(s, i) : RemoveAt(s, i)[j] = s[k]
<1> DEFINE p == SubSeq(s, 1, i - 1)
           q == SubSeq(s, i + 1, Len(s))
<1>1. i \in 1 .. Len(s) /\ Len(s) \in Nat /\ \A k \in 1 .. Len(s) : s[k] \in T
  OBVIOUS
<1>2. p \in Seq(T) /\ Len(p) = i - 1 /\ \A k \in 1 .. i - 1 : p[k] = s[k]
  <2>1. \A k \in 1 .. i - 1 : s[k] \in T
    BY <1>1
  <2>2. QED BY <1>1, <2>1, SubSeqProperties
<1>3. q \in Seq(T) /\ Len(q) = Len(s) - i /\ \A k \in 1 .. Len(s) - i : q[k] = s[i + k]
  <2>1. \A k \in i + 1 .. Len(s) : s[k] \in T
    BY <1>1
  <2>2. /\ q \in Seq(T) /\ Len(q) = IF i + 1 <= Len(s) THEN Len(s) - (i + 1) + 1 ELSE 0
        /\ \A k \in 1 .. Len(s) - (i + 1) + 1 : q[k] = s[(i + 1) + k - 1]
    BY <1>1, <2>1, SubSeqProperties
  <2>3. QED BY <1>1, <2>2
<1> HIDE DEF p, q
<1>4. RemoveAt(s, i) = p \o q
  BY DEF RemoveAt, p, q
<1>5. /\ p \o q \in Seq(T) /\ Len(p \o q) = Len(p) + Len(q)
      /\ \A k \in 1 .. Len(p) + Len(q) : (p \o q)[k] = IF k <= Len(p) THEN p[k] ELSE q[k - Len(p)]
  BY <1>2, <1>3, ConcatProperties
<1>6. ASSUME NEW k \in 1 .. Len(s) - 1 PROVE (p \o q)[k] = IF k < i THEN s[k] ELSE s[k + 1]
  <2>1. k \in 1 .. Len(p) + Len(q) /\ Len(p) = i - 1 /\ Len(q) = Len(s) - i
    BY <1>1, <1>2, <1>3
  <2>2. CASE k < i
    <3>1. k <= Len(p) /\ k \in 1 .. i - 1
      BY <1>1, <2>1, <2>2
    <3>2. (p \o q)[k] = p[k]
      BY <1>5, <2>1, <3>1
    <3>3. QED BY <1>2, <2>2, <3>1, <3>2
  <2>3. CASE ~(k < i)
    <3>0. k - (i - 1) \in 1 .. Len(s) - i /\ ~(k <= i - 1) /\ i + (k - (i - 1)) = k + 1
      BY <1>1, <2>3
    <3>1. ~(k <= Len(p)) /\ k - Len(p) \in 1 .. Len(s) - i /\ i + (k - Len(p)) = k + 1
      BY <2>1, <3>0
    <3>2. (p \o q)[k] = q[k - Len(p)]
      BY <1>5, <2>1, <3>1
    <3>3. QED BY <1>3, <2>3, <3>1, <3>2
  <2>4. QED BY <2>2, <2>3
<1>7. DOMAIN (p \o q) = 1 .. Len(s) - 1
  BY <1>1, <1>2, <1>3, <1>5
<1>8. ASSUME NEW k \in DOMAIN s, k # i PROVE \E j \in DOMAIN (p \o q) : (p \o q)[j] = s[k]
  <2>1. CASE k < i
    <3>1. k \in 1 .. Len(s) - 1
      BY <1>1, <1>8, <2>1
    <3>2. k \in DOMAIN (p \o q) /\ (p \o q)[k] = s[k]
      BY <1>6, <1>7, <2>1, <3>1
    <3>3. QED BY <3>2
  <2>2. CASE k > i
    <3>1. k - 1 \in DOMAIN (p \o q) /\ (p \o q)[k - 1] = s[k]
      BY <1>1, <1>6, <1>7, <2>2
    <3>2. QED BY <3>1
  <2>3. QED BY <1>1, <1>8, <2>1, <2>2
<1>9. ASSUME NEW j \in DOMAIN (p \o q) PROVE \E k \in DOMAIN s : (p \o q)[j] = s[k]
  <2>1. /\ j \in DOMAIN s /\ j + 1 \in DOMAIN s
        /\ (p \o q)[j] = s[j] \/ (p \o q)[j] = s[j + 1]
    <3>1. j \in 1 .. Len(s) - 1 /\ j \in DOMAIN s /\ j + 1 \in DOMAIN s
      BY <1>1, <1>7
    <3>2. QED BY <1>6, <3>1
  <2>2. QED BY <2>1
<1>10. QED BY <1>4, <1>5, <1>8, <1>9

(* A page is the messages right before one.                                *)
LEMMA PageIs ==
  ASSUME PagesTyped, NEW b \in 1 .. n + 1
  PROVE  LET low == IF b > PageSize THEN b - PageSize ELSE 1
         IN  /\ Page(b) = low .. (b - 1) /\ Page(b) \subseteq 1 .. n
             /\ low \in 1 .. b /\ (More(b) <=> low > 1)
             /\ IF b = 1 THEN Page(b) = {} /\ NextCursor(Page(b)) = None /\ ~More(b)
                         ELSE low < b /\ NextCursor(Page(b)) = low
<1> DEFINE low == IF b > PageSize THEN b - PageSize ELSE 1
<1>1. b \in Nat \ {0} /\ n \in Nat /\ b <= n + 1 /\ PageSize \in Nat \ {0}
  BY BoundAssumption DEF PagesTyped
<1>2. low \in 1 .. b /\ (More(b) <=> low > 1) /\ (b # 1 => low < b)
  BY <1>1 DEF More
<1>3. \A m \in 1 .. b - 1 : m + PageSize >= b <=> m >= low
  BY <1>1
<1> HIDE DEF low
<1>4. Page(b) = low .. (b - 1)
  BY <1>1, <1>2, <1>3 DEF Page
<1>5. b # 1 => NextCursor(Page(b)) = low
  <2> SUFFICES ASSUME b # 1 PROVE NextCursor(Page(b)) = low
    OBVIOUS
  <2>1. low \in Page(b) /\ \A m \in Page(b) : low <= m
    BY <1>1, <1>2, <1>4
  <2>2. Min(Page(b)) \in Page(b) /\ \A m \in Page(b) : Min(Page(b)) <= m
    BY <2>1 DEF Min
  <2>3. Min(Page(b)) = low
    BY <1>1, <1>4, <2>1, <2>2, <1>2
  <2>4. QED BY <2>1, <2>3 DEF NextCursor
<1>6. b = 1 => Page(b) = {} /\ NextCursor(Page(b)) = None /\ ~More(b)
  BY <1>1, <1>2, <1>4 DEF NextCursor, More
<1>7. Page(b) \subseteq 1 .. n
  BY <1>1, <1>2, <1>4
<1>8. QED BY <1>2, <1>4, <1>5, <1>6, <1>7 DEF low
(* A load goes on: it is the same load.                                    *)
LEMMA GoesOn ==
  ASSUME PagesTyped, NEW i \in DOMAIN calls, NEW d \in Call, calls' = [calls EXCEPT ![i] = d]
  PROVE  /\ DOMAIN calls' = DOMAIN calls /\ calls' \in Seq(Call)
         /\ calls'[i] = d /\ \A j \in DOMAIN calls : j # i => calls'[j] = calls[j]
<1>1. calls \in Seq(Call) /\ DOMAIN calls = 1 .. Len(calls)
  BY DEF PagesTyped
<1>2. QED BY <1>1

SameLoad(c, d) == d.kind = c.kind /\ d.before = c.before /\ d.stale = c.stale

LEMMA ListsMessages ==
  ASSUME PagesTyped, LoadsAreSound, NEW i \in DOMAIN calls, ListMessages(i)
  PROVE  \E d \in Call, b \in 1 .. n + 1 :
           /\ calls' = [calls EXCEPT ![i] = d] /\ SameLoad(calls[i], d)
           /\ d.at = "read" /\ d.page = Page(b) /\ d.more = More(b)
           /\ b = IF d.kind = "older" THEN d.before ELSE n + 1
           /\ again' = again \cup (Page(b) \cap deleted)
<1>1. PICK b \in 1 .. n + 1 : b = IF calls[i].kind = "older" THEN calls[i].before ELSE n + 1
  <2>1. n \in Nat /\ (calls[i].kind = "older" => calls[i].before \in 1 .. n)
    BY DEF PagesTyped, LoadsAreSound, Sound
  <2>2. (IF calls[i].kind = "older" THEN calls[i].before ELSE n + 1) \in 1 .. n + 1
    BY <2>1
  <2>3. QED BY <2>2
<1>2. Page(b) \subseteq Message /\ More(b) \in BOOLEAN
  BY BoundAssumption DEF Page, More, PagesTyped, Message
<1> DEFINE d == [calls[i] EXCEPT !.at = "read", !.page = Page(b), !.more = More(b)]
<1>3. calls[i] \in Call
  BY DEF PagesTyped
<1>4. /\ d \in Call /\ d.at = "read" /\ d.page = Page(b) /\ d.more = More(b)
      /\ SameLoad(calls[i], d)
  BY <1>2, <1>3 DEF Call, SameLoad
<1>5. /\ calls' = [calls EXCEPT ![i].at = "read", ![i].page = Page(b), ![i].more = More(b)]
      /\ again' = again \cup (Page(b) \cap deleted)
  BY <1>1 DEF ListMessages
<1>6. calls' = [calls EXCEPT ![i] = d]
  BY <1>3, <1>5
<1> HIDE DEF d
<1>7. b = IF d.kind = "older" THEN d.before ELSE n + 1
  BY <1>1, <1>4 DEF SameLoad
<1>8. QED BY <1>4, <1>5, <1>6, <1>7

LEMMA Arrives ==
  ASSUME PagesTyped, NEW i \in DOMAIN calls, Arrive(i)
  PROVE  \E d \in Call :
           /\ calls' = [calls EXCEPT ![i] = d] /\ SameLoad(calls[i], d)
           /\ d.at = "arrived" /\ d.page = calls[i].page /\ d.more = calls[i].more
<1> DEFINE d == [calls[i] EXCEPT !.at = "arrived"]
<1>1. calls[i] \in Call
  BY DEF PagesTyped
<1>2. /\ d \in Call /\ d.at = "arrived" /\ d.page = calls[i].page /\ d.more = calls[i].more
      /\ SameLoad(calls[i], d)
  BY <1>1 DEF Call, SameLoad
<1>3. calls' = [calls EXCEPT ![i] = d]
  BY DEF Arrive
<1> HIDE DEF d
<1>4. QED BY <1>2, <1>3

LEMMA FallsBack ==
  ASSUME PagesTyped, NEW i \in DOMAIN calls, FallBack(i)
  PROVE  \E d \in Call :
           /\ calls' = [calls EXCEPT ![i] = d] /\ SameLoad(calls[i], d)
           /\ d.at = "cached" /\ d.page = {m \in NotCleared(CachedPage) : cache[m] = "kept"}
<1> DEFINE p == {m \in NotCleared(CachedPage) : cache[m] = "kept"}
           d == [calls[i] EXCEPT !.at = "cached", !.page = p]
<1>1. calls[i] \in Call
  BY DEF PagesTyped
<1>2. p \subseteq Message
  BY DEF NotCleared, CachedPage
<1>3. d \in Call /\ d.at = "cached" /\ d.page = p /\ SameLoad(calls[i], d)
  BY <1>1, <1>2 DEF Call, SameLoad
<1>4. calls' = [calls EXCEPT ![i] = d]
  BY <1>1 DEF FallBack
<1> HIDE DEF d
<1>5. QED BY <1>3, <1>4

(* A load is done, or is new.                                              *)
LEMMA Done ==
  ASSUME PagesTyped, NEW i \in DOMAIN calls, calls' = Without(i)
  PROVE  /\ calls' \in Seq(Call)
         /\ \A j \in DOMAIN calls' : \E k \in DOMAIN calls : calls'[j] = calls[k]
         /\ \A k \in DOMAIN calls : k # i => \E j \in DOMAIN calls' : calls'[j] = calls[k]
  BY Removed DEF PagesTyped, Without

LEMMA New ==
  ASSUME PagesTyped, NEW kind \in {"select", "older", "other"}, NEW b \in Nat \cup {None},
         calls' = Append(calls, Asked(kind, b))
  PROVE  /\ calls' \in Seq(Call)
         /\ \A k \in DOMAIN calls : k \in DOMAIN calls' /\ calls'[k] = calls[k]
         /\ \E j \in DOMAIN calls' : calls'[j] = Asked(kind, b)
         /\ \A j \in DOMAIN calls' : calls'[j] = Asked(kind, b) \/ j \in DOMAIN calls
<1> DEFINE c == Asked(kind, b)
<1>1. calls \in Seq(Call) /\ c \in Call
  BY DEF PagesTyped, Asked, Call
<1> HIDE DEF c
<1>2. calls' = Append(calls, c)
  BY DEF c
<1>3. /\ calls' \in Seq(Call) /\ Len(calls) \in Nat /\ DOMAIN calls = 1 .. Len(calls)
      /\ DOMAIN calls' = 1 .. Len(calls) + 1 /\ calls'[Len(calls) + 1] = c
      /\ \A k \in 1 .. Len(calls) : calls'[k] = calls[k]
  BY <1>1, <1>2, AppendProperties
<1>4. /\ \A k \in DOMAIN calls : k \in DOMAIN calls' /\ calls'[k] = calls[k]
      /\ \E j \in DOMAIN calls' : calls'[j] = c
      /\ \A j \in DOMAIN calls' : calls'[j] = c \/ j \in DOMAIN calls
  BY <1>3
<1>5. QED BY <1>3, <1>4 DEF c

(* A selection is merged: what is left to come of older pages is stale.    *)
LEMMA Merged ==
  ASSUME PagesTyped, NEW i \in DOMAIN calls, MergeSelection(i)
  PROVE  /\ calls' \in Seq(Call)
         /\ \A j \in DOMAIN calls' : \E k \in DOMAIN calls :
              /\ calls'[j].kind = calls[k].kind /\ calls'[j].at = calls[k].at
              /\ calls'[j].page = calls[k].page /\ calls'[j].more = calls[k].more
              /\ calls'[j].before = calls[k].before
              /\ calls'[j].kind = "older" => calls'[j].stale
<1> DEFINE s == [j \in DOMAIN calls |-> [calls[j] EXCEPT !.stale = calls[j].kind = "older"]]
<1>1. calls \in Seq(Call) /\ \A k \in DOMAIN calls : calls[k] \in Call
  BY DEF PagesTyped
<1>2. ASSUME NEW k \in DOMAIN calls
      PROVE  /\ s[k] \in Call
             /\ s[k].kind = calls[k].kind /\ s[k].at = calls[k].at
             /\ s[k].page = calls[k].page /\ s[k].more = calls[k].more
             /\ s[k].before = calls[k].before
             /\ s[k].kind = "older" => s[k].stale
  BY <1>1 DEF Call
<1>3. DOMAIN s = DOMAIN calls
  OBVIOUS
<1>4. calls' = RemoveAt(s, i)
  BY DEF MergeSelection
<1> HIDE DEF s
<1>5. s \in Seq(Call)
  <2>1. DOMAIN s = 1 .. Len(calls) /\ Len(calls) \in Nat
    BY <1>1, <1>3
  <2>2. s = [k \in DOMAIN s |-> s[k]]
    BY DEF s
  <2>3. s \in [1 .. Len(calls) -> Call]
    BY <1>2, <1>3, <2>1, <2>2
  <2>4. QED BY <2>1, <2>3, SeqDef
<1>6. /\ calls' \in Seq(Call)
      /\ \A j \in DOMAIN calls' : \E k \in DOMAIN calls : calls'[j] = s[k]
  BY <1>3, <1>4, <1>5, Removed
<1>7. QED BY <1>2, <1>6

(* The latest message that the client has been sent                        *)
LEMMA LatestIs ==
  ASSUME PagesTyped, NEW b \in 1 .. n + 1
  PROVE  LET latest == Max(Page(b) \cup {upto})
         IN  /\ latest \in Page(b) \cup {upto} /\ latest \in 0 .. n /\ upto <= latest
             /\ \A m \in Page(b) : m <= latest
<1> DEFINE S == Page(b) \cup {upto}
           top == IF b > 1 /\ b - 1 >= upto THEN b - 1 ELSE upto
<1>1. /\ Page(b) = (IF b > PageSize THEN b - PageSize ELSE 1) .. (b - 1)
      /\ Page(b) \subseteq 1 .. n /\ b \in Nat /\ upto \in 0 .. n /\ n \in Nat
      /\ PageSize \in Nat \ {0}
  BY PageIs, BoundAssumption DEF PagesTyped
<1>2. top \in S /\ \A m \in S : m <= top
  BY <1>1
<1> HIDE DEF S, top
<1>3. Max(S) \in S /\ \A m \in S : m <= Max(S)
  BY <1>2 DEF Max
<1>4. S = Page(b) \cup {upto}
  BY DEF S
<1>5. \A m \in S : m \in 0 .. n
  BY <1>1, <1>4
<1>6. upto \in S /\ Page(b) \subseteq S
  BY <1>4
<1>7. Max(S) \in S /\ Max(S) \in 0 .. n /\ upto <= Max(S) /\ \A m \in Page(b) : m <= Max(S)
  BY <1>3, <1>5, <1>6
<1>8. QED BY <1>4, <1>7

(* Nothing is older than what the user has cleared.                        *)
LEMMA PagedIs ==
  ASSUME PagesTyped, NEW c \in Call, NEW b \in 1 .. n + 1,
         c.page = Page(b), c.more = More(b), Paged(c)
  PROVE  /\ older' = FALSE
         /\ hasMore' \in BOOLEAN /\ cursor' \in 1 .. n \cup {None} /\ (hasMore' => cursor' # None)
         /\ \/ ~hasMore' /\ \E m \in Page(b) : m <= cleared
            \/ hasMore' = More(b) /\ cursor' = NextCursor(Page(b))
<1>1. /\ More(b) \in BOOLEAN /\ NextCursor(Page(b)) \in 1 .. n \cup {None}
      /\ (More(b) => NextCursor(Page(b)) # None)
  <2>1. n \in Nat /\ b \in Nat /\ PageSize \in Nat
    BY BoundAssumption DEF PagesTyped
  <2>2. QED BY PageIs, <2>1, NoneAssumption DEF More
<1>2. CASE NotCleared(c.page) # c.page
  <2>1. hasMore' = FALSE /\ cursor' = None /\ older' = FALSE
    BY <1>2 DEF Paged, Paginate
  <2>2. \E m \in Page(b) : ~(m > cleared)
    BY <1>2 DEF NotCleared
  <2>3. cleared \in Nat /\ \A m \in Page(b) : m \in Nat
    BY PageIs, BoundAssumption DEF PagesTyped
  <2>4. \E m \in Page(b) : m <= cleared
    BY <2>2, <2>3
  <2>5. QED BY <2>1, <2>4
<1>3. CASE NotCleared(c.page) = c.page
  <2>1. hasMore' = More(b) /\ cursor' = NextCursor(Page(b)) /\ older' = FALSE
    BY <1>3 DEF Paged, Paginate
  <2>2. QED BY <1>1, <2>1
<1>4. QED BY <1>2, <1>3

(* What has been read is a page.                                           *)
LEMMA ReadIs ==
  ASSUME PagesTyped, LoadsAreSound, NEW i \in DOMAIN calls, calls[i].at \in {"read", "arrived"}
  PROVE  /\ calls[i] \in Call /\ calls[i].kind # "other"
         /\ \E b \in 1 .. n + 1 :
              /\ calls[i].page = Page(b) /\ calls[i].more = More(b)
              /\ calls[i].kind = "older" => b = calls[i].before
<1>1. calls[i] \in Call
  BY DEF PagesTyped
<1>2. QED BY <1>1 DEF LoadsAreSound, Sound

LEMMA CallsStep ==
  ASSUME PagesTyped, LoadsAreSound, Next
  PROVE  calls' \in Seq(Call)
<1>1. CASE Select
  BY <1>1, New DEF Select
<1>2. CASE SelectOther
  BY <1>2, New DEF SelectOther
<1>3. CASE LoadOlder
  BY <1>3, New DEF LoadOlder, PagesTyped
<1>4. CASE Restart
  BY <1>4 DEF Restart
<1>5. CASE PeerSends \/ Close \/ ClearLocalConversation
  BY <1>5 DEF PeerSends, Close, ClearLocalConversation, PagesTyped
<1>6. CASE \E m \in Message : Lose(m) \/ TakeNew(m) \/ DeleteLocalMessage(m)
  BY <1>6 DEF Lose, TakeNew, DeleteLocalMessage, PagesTyped
<1>7. CASE \E h \in handlers : ApplyNew(h)
  BY <1>7 DEF ApplyNew, PagesTyped
<1>8. ASSUME NEW i \in DOMAIN calls, Answer(i) PROVE calls' \in Seq(Call)
  <2>1. CASE ListMessages(i)
    BY <2>1, ListsMessages, GoesOn
  <2>2. CASE Arrive(i)
    BY <2>2, Arrives, GoesOn
  <2>3. CASE FallBack(i)
    BY <2>3, FallsBack, GoesOn
  <2>4. CASE MergeSelection(i)
    BY <2>4, Merged
  <2>5. CASE calls' = Without(i)
    BY <2>5, Done
  <2>6. QED BY <1>8, <2>1, <2>2, <2>3, <2>4, <2>5
              DEF Answer, OtherLoaded, Drop, MergeOlder, MergeCached, SelectionFails, OlderFails
<1>9. QED BY <1>1, <1>2, <1>3, <1>4, <1>5, <1>6, <1>7, <1>8 DEF Next

LEMMA TypedStep ==
  ASSUME PagesTyped, LoadsAreSound, Next
  PROVE  PagesTyped'
<1> USE BoundAssumption DEF PagesTyped, server, bounds, pagination, local, history, Change, Paginate
<1>0. calls' \in Seq(Call)
  BY CallsStep
<1>1. CASE PeerSends
  <2>1. n' = n + 1 /\ n < MaxMessages /\ n \in Nat /\ pending' = pending \cup {n + 1}
    BY <1>1 DEF PeerSends
  <2>2. /\ n' \in 0 .. MaxMessages /\ cleared' \in 0 .. n' /\ upto' \in 0 .. n'
        /\ cursor' \in 1 .. n' \cup {None} /\ (hasMore' => cursor' # None)
    BY <1>1, <2>1 DEF PeerSends
  <2>3. pending' \subseteq 1 .. n' /\ shown' \subseteq 1 .. n' /\ deleted' \subseteq 1 .. n'
    BY <1>1, <2>1 DEF PeerSends
  <2>4. \A h \in handlers' : h.m \in 1 .. n' /\ h.cleared \in 0 .. cleared'
    BY <1>1, <2>1 DEF PeerSends
  <2>5. cache' \in [Message -> {"none", "kept", "deleted"}]
        /\ \A m \in Message : cache'[m] # "none" => m <= n'
    BY <1>1, <2>1 DEF PeerSends, Message
  <2>6. {selected, loading, hasMore, older, whole}' \subseteq BOOLEAN
    BY <1>1 DEF PeerSends
  <2>7. QED BY <1>0, <2>2, <2>3, <2>4, <2>5, <2>6
<1>2. CASE Select \/ Close \/ SelectOther \/ LoadOlder
  <2>1. UNCHANGED <<n, pending, handlers, shown, upto, local>>
    BY <1>2 DEF Select, Close, SelectOther, LoadOlder
  <2>2. cursor' \in 1 .. n \cup {None} /\ (hasMore' => cursor' # None)
    BY <1>2 DEF Select, Close, SelectOther, LoadOlder
  <2>3. selected' \in BOOLEAN /\ loading' \in BOOLEAN
    BY <1>2 DEF Select, Close, SelectOther, LoadOlder
  <2>4. hasMore' \in BOOLEAN /\ older' \in BOOLEAN /\ whole' \in BOOLEAN
    BY <1>2 DEF Select, Close, SelectOther, LoadOlder
  <2>5. QED BY <1>0, <2>1, <2>2, <2>3, <2>4
<1>3. CASE ClearLocalConversation
  <2>1. /\ cache' \in [Message -> {"none", "kept", "deleted"}]
        /\ \A m \in Message : cache'[m] # "none" => m <= n
    <3>1. cache' = [m \in Message |-> IF m \in {k \in shown : cache[k] # "none"} THEN "deleted" ELSE cache[m]]
      BY <1>3 DEF ClearLocalConversation, Patched, Cached
    <3>2. QED BY <3>1 DEF Message
  <2>2. \A h \in handlers' : h.m \in 1 .. n /\ h.cleared \in 0 .. n
    BY <1>3 DEF ClearLocalConversation
  <2>3. /\ n' = n /\ cleared' = n /\ upto' = upto /\ pending' = pending /\ shown' = {}
        /\ deleted' = deleted /\ selected' = selected /\ loading' = loading
        /\ hasMore' = FALSE /\ older' = FALSE /\ whole' = whole /\ cursor' = None
    BY <1>3 DEF ClearLocalConversation
  <2>4. \A g \in handlers' : g.m \in 1 .. n' /\ g.cleared \in 0 .. cleared'
    BY <2>2, <2>3
  <2>5. {selected, loading, hasMore, older, whole}' \subseteq BOOLEAN
    BY <2>3
  <2>6. /\ n' \in 0 .. MaxMessages /\ cleared' \in 0 .. n' /\ upto' \in 0 .. n'
        /\ cursor' \in 1 .. n' \cup {None} /\ (hasMore' => cursor' # None)
        /\ pending' \subseteq 1 .. n' /\ deleted' \subseteq 1 .. n' /\ shown' \subseteq 1 .. n'
    BY <2>3
  <2>7. QED BY <1>0, <2>1, <2>3, <2>4, <2>5, <2>6
<1>4. CASE Restart
  BY <1>0, <1>4 DEF Restart
<1>5. ASSUME NEW m \in Message, Lose(m) \/ TakeNew(m) \/ DeleteLocalMessage(m)
      PROVE  PagesTyped'
  <2>1. CASE Lose(m)
    BY <1>0, <2>1 DEF Lose
  <2>2. CASE TakeNew(m)
    BY <1>0, <2>2 DEF TakeNew
  <2>3. CASE DeleteLocalMessage(m)
    BY <1>0, <2>3 DEF DeleteLocalMessage, Patched, Cached
  <2>4. QED BY <1>5, <2>1, <2>2, <2>3
<1>6. ASSUME NEW h \in handlers, ApplyNew(h) PROVE PagesTyped'
  <2>1. /\ cache' \in [Message -> {"none", "kept", "deleted"}]
        /\ \A m \in Message : cache'[m] # "none" => m <= n
    <3>1. CASE cache' = cache
      BY <3>1
    <3>2. CASE cache' = Cached({h.m}, "kept")
      BY <1>6, <3>2 DEF Cached
    <3>3. QED BY <1>6, <3>1, <3>2 DEF ApplyNew
  <2>2. shown' \subseteq 1 .. n /\ handlers' \subseteq handlers
    BY <1>6 DEF ApplyNew
  <2>3. UNCHANGED <<n, cleared, upto, pending, deleted, selected, loading, hasMore, older, whole, cursor>>
    BY <1>6 DEF ApplyNew
  <2>4. \A g \in handlers' : g.m \in 1 .. n' /\ g.cleared \in 0 .. cleared'
    BY <2>2, <2>3
  <2>5. {selected, loading, hasMore, older, whole}' \subseteq BOOLEAN
    BY <2>3
  <2>6. /\ n' \in 0 .. MaxMessages /\ cleared' \in 0 .. n' /\ upto' \in 0 .. n'
        /\ cursor' \in 1 .. n' \cup {None} /\ (hasMore' => cursor' # None)
        /\ pending' \subseteq 1 .. n' /\ deleted' \subseteq 1 .. n' /\ shown' \subseteq 1 .. n'
    BY <2>2, <2>3
  <2>7. QED BY <1>0, <2>1, <2>3, <2>4, <2>5, <2>6
<1>7. ASSUME NEW i \in DOMAIN calls, Answer(i) PROVE PagesTyped'
  <2>1. CASE ListMessages(i)
    BY <1>0, <2>1 DEF ListMessages
  <2>2. CASE Arrive(i)
    <3>1. \A m \in calls[i].page : m <= n
      BY <1>7 DEF LoadsAreSound, Sound
    <3>2. QED BY <1>0, <2>2, <3>1 DEF Arrive, Cached
  <2>3. CASE FallBack(i)
    BY <1>0, <2>3 DEF FallBack
  <2>4. CASE MergeSelection(i)
    <3>1. PICK b \in 1 .. n + 1 : calls[i].page = Page(b) /\ calls[i].more = More(b)
      BY <2>4, ReadIs DEF MergeSelection
    <3>2. Page(b) \subseteq 1 .. n /\ calls[i] \in Call
      BY <2>4, PageIs, ReadIs DEF MergeSelection
    <3>3. /\ hasMore' \in BOOLEAN /\ cursor' \in 1 .. n \cup {None} /\ (hasMore' => cursor' # None)
          /\ older' \in BOOLEAN
      BY <2>4, <3>1, <3>2, PagedIs DEF MergeSelection
    <3>4. upto' \in 0 .. n
      BY <2>4, <3>1, LatestIs DEF MergeSelection
    <3>5. loading' \in BOOLEAN /\ selected' \in BOOLEAN /\ shown' \subseteq 1 .. n
      BY <2>4, <3>1, <3>2 DEF MergeSelection, NotCleared
    <3>6. whole' \in BOOLEAN
      BY <2>4 DEF MergeSelection
    <3>7. QED BY <1>0, <2>4, <3>3, <3>4, <3>5, <3>6 DEF MergeSelection
  <2>5. CASE MergeOlder(i)
    <3>1. PICK b \in 1 .. n + 1 : calls[i].page = Page(b) /\ calls[i].more = More(b)
      BY <2>5, ReadIs DEF MergeOlder
    <3>2. Page(b) \subseteq 1 .. n /\ calls[i] \in Call
      BY <2>5, PageIs, ReadIs DEF MergeOlder
    <3>3. /\ hasMore' \in BOOLEAN /\ cursor' \in 1 .. n \cup {None} /\ (hasMore' => cursor' # None)
          /\ older' \in BOOLEAN
      BY <2>5, <3>1, <3>2, PagedIs DEF MergeOlder
    <3>4. whole' \in BOOLEAN /\ shown' \subseteq 1 .. n
      BY <2>5, <3>1, <3>2 DEF MergeOlder, NotCleared
    <3>5. QED BY <1>0, <2>5, <3>3, <3>4 DEF MergeOlder
  <2>6. CASE MergeCached(i)
    BY <1>0, <1>7, <2>6 DEF MergeCached, LoadsAreSound, Sound
  <2>7. CASE OtherLoaded(i) \/ Drop(i) \/ SelectionFails(i) \/ OlderFails(i)
    <3>1. loading' \in BOOLEAN /\ older' \in BOOLEAN /\ selected' \in BOOLEAN
      BY <2>7 DEF OtherLoaded, Drop, SelectionFails, OlderFails, Reselect
    <3>2. UNCHANGED <<server, handlers, shown, hasMore, cursor, local, upto, whole>>
      BY <2>7 DEF OtherLoaded, Drop, SelectionFails, OlderFails
    <3>3. QED BY <1>0, <3>1, <3>2
  <2>8. QED BY <1>7, <2>1, <2>2, <2>3, <2>4, <2>5, <2>6, <2>7 DEF Answer
<1>8. QED BY <1>1, <1>2, <1>3, <1>4, <1>5, <1>6, <1>7 DEF Next

LEMMA SoundStays ==
  ASSUME NEW k \in Nat, NEW l \in Nat, k <= l, NEW c, NEW d, Sound(c, k),
         d.kind = c.kind, d.at = c.at, d.page = c.page, d.more = c.more, d.before = c.before
  PROVE  Sound(d, l)
<1>1. 1 .. k \subseteq 1 .. l /\ 1 .. k + 1 \subseteq 1 .. l + 1
  OBVIOUS
<1>2. QED BY <1>1 DEF Sound

LEMMA SoundStep ==
  ASSUME PagesTyped, LoadsAreSound, Next
  PROVE  LoadsAreSound'
<1>0. n \in Nat /\ calls \in Seq(Call) /\ \A i \in DOMAIN calls : Sound(calls[i], n)
  BY BoundAssumption DEF PagesTyped, LoadsAreSound
<1>1. ASSUME NEW kind \in {"select", "older", "other"}, NEW b \in Nat \cup {None},
             calls' = Append(calls, Asked(kind, b)), n' = n, kind = "older" => b \in 1 .. n
      PROVE  LoadsAreSound'
  <2>1. Sound(Asked(kind, b), n)
    BY <1>1 DEF Asked, Sound
  <2>2. \A j \in DOMAIN calls' : Sound(calls'[j], n)
    BY <1>0, <1>1, <2>1, New
  <2>3. QED BY <1>1, <2>2 DEF LoadsAreSound
<1>2. ASSUME NEW i \in DOMAIN calls, calls' = Without(i), n' = n PROVE LoadsAreSound'
  BY <1>0, <1>2, Done DEF LoadsAreSound
<1>3. ASSUME NEW i \in DOMAIN calls, NEW d \in Call, calls' = [calls EXCEPT ![i] = d],
             Sound(d, n), n' = n
      PROVE  LoadsAreSound'
  BY <1>0, <1>3, GoesOn DEF LoadsAreSound
<1>4. ASSUME calls' = calls, n' \in Nat, n <= n' PROVE LoadsAreSound'
  <2>1. \A i \in DOMAIN calls : Sound(calls[i], n')
    BY <1>0, <1>4, SoundStays
  <2>2. QED BY <1>4, <2>1 DEF LoadsAreSound
<1>5. CASE PeerSends
  BY <1>0, <1>4, <1>5 DEF PeerSends
<1>6. CASE Select
  BY <1>1, <1>6 DEF Select, server
<1>7. CASE SelectOther
  BY <1>1, <1>7 DEF SelectOther, server
<1>8. CASE LoadOlder
  <2>1. cursor \in 1 .. n /\ cursor \in Nat \cup {None}
    BY <1>0, <1>8 DEF LoadOlder, PagesTyped
  <2>2. QED BY <1>1, <1>8, <2>1 DEF LoadOlder, server
<1>9. CASE Restart
  BY <1>9 DEF Restart, LoadsAreSound
<1>10. CASE Close \/ ClearLocalConversation
  <2>1. calls' = calls /\ n' = n
    BY <1>10 DEF Close, ClearLocalConversation, server
  <2>2. QED BY <1>0, <1>4, <2>1
<1>11. ASSUME NEW m \in Message, Lose(m) \/ TakeNew(m) \/ DeleteLocalMessage(m)
       PROVE  LoadsAreSound'
  BY <1>0, <1>4, <1>11 DEF Lose, TakeNew, DeleteLocalMessage, server
<1>12. ASSUME NEW h \in handlers, ApplyNew(h) PROVE LoadsAreSound'
  BY <1>0, <1>4, <1>12 DEF ApplyNew, server
<1>13. ASSUME NEW i \in DOMAIN calls, Answer(i) PROVE LoadsAreSound'
  <2>1. CASE ListMessages(i)
    <3>1. PICK d \in Call, b \in 1 .. n + 1 :
            /\ calls' = [calls EXCEPT ![i] = d] /\ SameLoad(calls[i], d)
            /\ d.at = "read" /\ d.page = Page(b) /\ d.more = More(b)
            /\ b = IF d.kind = "older" THEN d.before ELSE n + 1
      BY <2>1, ListsMessages
    <3>2. /\ Sound(calls[i], n) /\ d.kind = calls[i].kind /\ d.before = calls[i].before
          /\ d.kind # "other" /\ n' = n
      BY <1>0, <2>1, <3>1 DEF ListMessages, SameLoad, server
    <3>3. Page(b) \subseteq 1 .. n
      BY <3>1, PageIs
    <3>4. Sound(d, n)
      BY <3>1, <3>2, <3>3 DEF Sound
    <3>5. QED BY <1>3, <3>1, <3>2, <3>4
  <2>2. CASE Arrive(i)
    <3>1. PICK d \in Call :
            /\ calls' = [calls EXCEPT ![i] = d] /\ SameLoad(calls[i], d)
            /\ d.at = "arrived" /\ d.page = calls[i].page /\ d.more = calls[i].more
      BY <2>2, Arrives
    <3>2. /\ Sound(calls[i], n) /\ d.kind = calls[i].kind /\ d.before = calls[i].before
          /\ calls[i].at = "read" /\ n' = n
      BY <1>0, <2>2, <3>1 DEF Arrive, SameLoad, server
    <3>3. Sound(d, n)
      BY <3>1, <3>2 DEF Sound
    <3>4. QED BY <1>3, <3>1, <3>2, <3>3
  <2>3. CASE FallBack(i)
    <3>1. PICK d \in Call :
            /\ calls' = [calls EXCEPT ![i] = d] /\ SameLoad(calls[i], d)
            /\ d.at = "cached" /\ d.page = {m \in NotCleared(CachedPage) : cache[m] = "kept"}
      BY <2>3, FallsBack
    <3>2. d.kind = "select" /\ n' = n
      BY <2>3, <3>1 DEF FallBack, SameLoad, server
    <3>3. d.page \subseteq 1 .. n
      BY <1>0, <3>1 DEF NotCleared, CachedPage, PagesTyped, Message
    <3>4. Sound(d, n)
      BY <3>1, <3>2, <3>3 DEF Sound
    <3>5. QED BY <1>3, <3>1, <3>2, <3>4
  <2>4. CASE MergeSelection(i)
    <3>1. n' = n
      BY <2>4 DEF MergeSelection, server
    <3>2. ASSUME NEW j \in DOMAIN calls' PROVE Sound(calls'[j], n)
      <4>1. PICK k \in DOMAIN calls :
              /\ calls'[j].kind = calls[k].kind /\ calls'[j].at = calls[k].at
              /\ calls'[j].page = calls[k].page /\ calls'[j].more = calls[k].more
              /\ calls'[j].before = calls[k].before
        BY <2>4, Merged
      <4>2. QED BY <1>0, <4>1, SoundStays
    <3>3. QED BY <3>1, <3>2 DEF LoadsAreSound
  <2>5. CASE calls' = Without(i) /\ n' = n
    BY <1>2, <2>5
  <2>6. QED BY <1>13, <2>1, <2>2, <2>3, <2>4, <2>5
        DEF Answer, OtherLoaded, Drop, MergeOlder, MergeCached, SelectionFails, OlderFails, server
<1>14. QED BY <1>5, <1>6, <1>7, <1>8, <1>9, <1>10, <1>11, <1>12, <1>13 DEF Next

LEMMA SpinnersStep ==
  ASSUME PagesTyped, LoadsAreSound, SpinnersAreServed, Next
  PROVE  SpinnersAreServed'
<1>1. ASSUME loading' => loading, older' /\ selected' /\ ~reopened' => older /\ selected /\ ~reopened,
             \A k \in DOMAIN calls : \E j \in DOMAIN calls' : calls'[j].kind = calls[k].kind
      PROVE  SpinnersAreServed'
  BY <1>1 DEF SpinnersAreServed
<1>2. ASSUME NEW kind \in {"select", "older", "other"}, NEW b \in Nat \cup {None},
             calls' = Append(calls, Asked(kind, b)),
             kind = "older" => UNCHANGED <<loading, selected>>,
             kind # "older" => ~(older' /\ selected')
      PROVE  SpinnersAreServed'
  <2>1. PICK j \in DOMAIN calls' : calls'[j] = Asked(kind, b)
    BY <1>2, New
  <2>2. calls'[j].kind = kind
    BY <2>1 DEF Asked
  <2>3. CASE kind = "older"
    <3>1. \A k \in DOMAIN calls : k \in DOMAIN calls' /\ calls'[k] = calls[k]
      BY <1>2, New
    <3>2. loading' => \E k \in DOMAIN calls' : calls'[k].kind # "older"
      BY <1>2, <2>3, <3>1 DEF SpinnersAreServed
    <3>3. QED BY <2>2, <2>3, <3>2 DEF SpinnersAreServed
  <2>4. CASE kind # "older"
    BY <1>2, <2>2, <2>4 DEF SpinnersAreServed
  <2>5. QED BY <2>3, <2>4
<1>3. ASSUME NEW i \in DOMAIN calls, NEW d \in Call, calls' = [calls EXCEPT ![i] = d],
             SameLoad(calls[i], d), UNCHANGED <<loading, older, selected, reopened>>
      PROVE  SpinnersAreServed'
  <2>1. \A k \in DOMAIN calls : k \in DOMAIN calls' /\ calls'[k].kind = calls[k].kind
    BY <1>3, GoesOn DEF SameLoad
  <2>2. QED BY <1>1, <1>3, <2>1
<1>4. CASE Select
  BY <1>2, <1>4 DEF Select, Paginate
<1>5. CASE SelectOther
  BY <1>2, <1>5 DEF SelectOther
<1>6. CASE LoadOlder
  BY <1>2, <1>6 DEF LoadOlder, PagesTyped
<1>7. CASE Restart
  BY <1>7 DEF Restart, SpinnersAreServed, Paginate
<1>8. CASE PeerSends
  BY <1>1, <1>8 DEF PeerSends, pagination, history
<1>9. CASE Close
  BY <1>1, <1>9 DEF Close, pagination, history
<1>10. CASE ClearLocalConversation
  BY <1>1, <1>10 DEF ClearLocalConversation, Paginate
<1>11. ASSUME NEW m \in Message, Lose(m) \/ TakeNew(m) \/ DeleteLocalMessage(m)
       PROVE  SpinnersAreServed'
  BY <1>1, <1>11 DEF Lose, TakeNew, DeleteLocalMessage, pagination, history
<1>12. ASSUME NEW h \in handlers, ApplyNew(h) PROVE SpinnersAreServed'
  BY <1>1, <1>12 DEF ApplyNew, pagination, history
<1>13. ASSUME NEW i \in DOMAIN calls, Answer(i) PROVE SpinnersAreServed'
  <2>1. CASE ListMessages(i)
    BY <1>3, <2>1, ListsMessages DEF ListMessages, pagination, history
  <2>2. CASE Arrive(i)
    BY <1>3, <2>2, Arrives DEF Arrive, pagination, history
  <2>3. CASE FallBack(i)
    BY <1>3, <2>3, FallsBack DEF FallBack, pagination, history
  <2>4. CASE MergeSelection(i)
    BY <2>4 DEF MergeSelection, Paged, Paginate, SpinnersAreServed
  <2>5. CASE OtherLoaded(i) \/ Drop(i) \/ MergeOlder(i) \/ MergeCached(i) \/ SelectionFails(i) \/ OlderFails(i)
    <3>1. calls' = Without(i)
      BY <2>5 DEF OtherLoaded, Drop, MergeOlder, MergeCached, SelectionFails, OlderFails
    <3>2. \A k \in DOMAIN calls : k # i => \E j \in DOMAIN calls' : calls'[j] = calls[k]
      BY <3>1, Done
    <3>3. loading' => loading /\ calls[i].kind = "older"
      BY <2>5 DEF OtherLoaded, Drop, MergeOlder, MergeCached, SelectionFails, OlderFails
    <3>4. older' /\ selected' /\ ~reopened' => older /\ selected /\ ~reopened /\ calls[i].kind # "older"
      BY <2>5 DEF OtherLoaded, Drop, MergeOlder, MergeCached, SelectionFails, OlderFails,
                  Paged, Paginate, Reselect, pagination, history
    <3>5. loading' => \E j \in DOMAIN calls' : calls'[j].kind # "older"
      BY <3>2, <3>3 DEF SpinnersAreServed
    <3>6. older' /\ selected' /\ ~reopened' => \E j \in DOMAIN calls' : calls'[j].kind = "older"
      BY <3>2, <3>4 DEF SpinnersAreServed
    <3>7. QED BY <3>5, <3>6 DEF SpinnersAreServed
  <2>6. QED BY <1>13, <2>1, <2>2, <2>3, <2>4, <2>5 DEF Answer
<1>14. QED BY <1>4, <1>5, <1>6, <1>7, <1>8, <1>9, <1>10, <1>11, <1>12, <1>13 DEF Next

LEMMA TakenStep ==
  ASSUME PagesTyped, LoadsAreSound, TakenIsKnown, TakenAwayStaysAway, Next
  PROVE  TakenIsKnown' /\ TakenAwayStaysAway'
<1> USE DEF DeletedIsKnown, ClearedIsKnown
<1>0. n \in Nat /\ cleared \in 0 .. n /\ (\A i \in DOMAIN calls : calls[i] \in Call)
  BY BoundAssumption DEF PagesTyped
<1>1. ASSUME UNCHANGED <<deleted, cleared>>, again \subseteq again', late \subseteq late',
             pending' \subseteq pending, handlers' \subseteq handlers,
             \A m \in Message : cache'[m] = "kept" => cache[m] = "kept" \/ DeletedIsKnown(m),
             \A m \in shown' : m \in shown \/ (DeletedIsKnown(m) /\ ClearedIsKnown(m)),
             \A j \in DOMAIN calls' :
               \/ \E k \in DOMAIN calls :
                    calls'[j].page = calls[k].page /\ (calls'[j].at = "cached" => calls[k].at = "cached")
               \/ \A m \in calls'[j].page :
                    /\ m \in deleted => m \in again'
                    /\ calls'[j].at = "cached" => ClearedIsKnown(m)
      PROVE  TakenIsKnown' /\ TakenAwayStaysAway'
  <2>1. /\ \A m \in pending' : m \in deleted' => m \in again'
        /\ \A m \in Message : cache'[m] = "kept" => (m \in deleted' => m \in again')
    BY <1>1 DEF TakenIsKnown
  <2>2. \A h \in handlers' :
          /\ h.m \in deleted' => h.m \in again'
          /\ h.m > h.cleared => (h.m <= cleared' => h.m \in late')
    BY <1>1 DEF TakenIsKnown
  <2>3. ASSUME NEW j \in DOMAIN calls'
        PROVE  \A m \in calls'[j].page :
                 /\ m \in deleted' => m \in again'
                 /\ calls'[j].at = "cached" => (m <= cleared' => m \in late')
    BY <1>1 DEF TakenIsKnown
  <2>4. \A m \in shown' : (m <= cleared' => m \in late') /\ (m \in deleted' => m \in again')
    BY <1>1 DEF TakenAwayStaysAway
  <2>5. QED BY <2>1, <2>2, <2>3, <2>4 DEF TakenIsKnown, TakenAwayStaysAway
<1>2. ASSUME NEW kind \in {"select", "older", "other"}, NEW b \in Nat \cup {None},
             calls' = Append(calls, Asked(kind, b)), UNCHANGED <<server, handlers, shown, local, late, again>>
      PROVE  TakenIsKnown' /\ TakenAwayStaysAway'
  <2>1. Asked(kind, b).page = {} /\ Asked(kind, b).at = "asked"
    BY DEF Asked
  <2>2. \A j \in DOMAIN calls' : calls'[j] = Asked(kind, b) \/ \E k \in DOMAIN calls : calls'[j] = calls[k]
    BY <1>2, New
  <2>3. \A j \in DOMAIN calls' :
          \/ \E k \in DOMAIN calls :
               calls'[j].page = calls[k].page /\ (calls'[j].at = "cached" => calls[k].at = "cached")
          \/ \A m \in calls'[j].page :
               /\ m \in deleted => m \in again'
               /\ calls'[j].at = "cached" => ClearedIsKnown(m)
    BY <2>1, <2>2
  <2>4. QED BY <1>1, <1>2, <2>3 DEF server, local
<1>3. ASSUME UNCHANGED <<calls, server, handlers, shown, local, late, again>>
      PROVE  TakenIsKnown' /\ TakenAwayStaysAway'
  BY <1>1, <1>3 DEF server, local
<1>4. CASE PeerSends
  <2>1. /\ UNCHANGED <<deleted, cleared, again, late, handlers, cache, calls, shown>>
        /\ pending' = pending \cup {n + 1}
    BY <1>4 DEF PeerSends, local, history
  <2>2. n + 1 \notin deleted
    BY <1>0 DEF PagesTyped
  <2>3. QED BY <2>1, <2>2 DEF TakenIsKnown, TakenAwayStaysAway
<1>5. CASE Select \/ SelectOther
  BY <1>2, <1>5 DEF Select, SelectOther, history
<1>6. CASE LoadOlder
  BY <1>2, <1>6 DEF LoadOlder, PagesTyped, history
<1>7. CASE Close
  BY <1>3, <1>7 DEF Close, history
<1>8. CASE Restart
  BY <1>8 DEF Restart, local, server, TakenIsKnown, TakenAwayStaysAway
<1>9. CASE ClearLocalConversation
  <2>1. /\ UNCHANGED <<deleted, again, pending, handlers, calls>> /\ shown' = {}
        /\ late \subseteq late' /\ \A h \in handlers : h.m \in late'
        /\ \A m \in Message : cache'[m] = "kept" => cache[m] = "kept"
    BY <1>9 DEF ClearLocalConversation, server, Patched, Cached
  <2>2. ASSUME NEW i \in DOMAIN calls, calls[i].at = "cached" PROVE calls[i].page \subseteq late'
    BY <1>9, <2>2 DEF ClearLocalConversation
  <2>3. QED BY <2>1, <2>2 DEF TakenIsKnown, TakenAwayStaysAway
<1>10. ASSUME NEW m \in Message, Lose(m) PROVE TakenIsKnown' /\ TakenAwayStaysAway'
  BY <1>1, <1>10 DEF Lose, local
<1>11. ASSUME NEW m \in Message, TakeNew(m) PROVE TakenIsKnown' /\ TakenAwayStaysAway'
  <2>1. /\ UNCHANGED <<deleted, cleared, again, late, cache, calls, shown>>
        /\ m \in pending /\ pending' \subseteq pending
        /\ handlers' = handlers \cup {[m |-> m, cleared |-> cleared]}
    BY <1>11 DEF TakeNew, local, history
  <2>2. \A h \in handlers' :
          DeletedIsKnown(h.m) /\ (h.m > h.cleared => ClearedIsKnown(h.m))
    <3>1. DeletedIsKnown(m) /\ (m > cleared => ClearedIsKnown(m))
      BY <1>0, <2>1 DEF TakenIsKnown, Message
    <3>2. QED BY <2>1, <3>1 DEF TakenIsKnown
  <2>3. QED BY <2>1, <2>2 DEF TakenIsKnown, TakenAwayStaysAway
<1>12. ASSUME NEW m \in Message, DeleteLocalMessage(m) PROVE TakenIsKnown' /\ TakenAwayStaysAway'
  <2>1. /\ UNCHANGED <<cleared, late, pending, handlers, calls>> /\ shown' = shown \ {m}
        /\ deleted' = deleted \cup {m}
        /\ again' = IF OnItsWay(m) THEN again \cup {m} ELSE again \ {m}
    BY <1>12 DEF DeleteLocalMessage, server
  <2>2. \A k \in Message : cache'[k] = "kept" => cache[k] = "kept" /\ k # m
    BY <1>12 DEF DeleteLocalMessage, Patched, Cached
  <2>3. OnItsWay(m) => m \in again'
    BY <2>1
  <2>4. \A k : k # m => (k \in deleted' => k \in deleted) /\ (k \in again => k \in again')
    BY <2>1
  <2>5. /\ m \in pending => m \in again'
        /\ \A h \in handlers : h.m = m => m \in again'
        /\ \A i \in DOMAIN calls : m \in calls[i].page => m \in again'
    BY <2>3 DEF OnItsWay
  <2>6. /\ \A k \in pending' : k \in deleted' => k \in again'
        /\ \A k \in Message : cache'[k] = "kept" => (k \in deleted' => k \in again')
    BY <2>1, <2>2, <2>4, <2>5 DEF TakenIsKnown
  <2>7. \A h \in handlers' : h.m \in deleted' => h.m \in again'
    BY <2>1, <2>4, <2>5 DEF TakenIsKnown
  <2>8. \A i \in DOMAIN calls' : \A k \in calls'[i].page : k \in deleted' => k \in again'
    BY <2>1, <2>4, <2>5 DEF TakenIsKnown
  <2>9. \A k \in shown' : (k <= cleared' => k \in late') /\ (k \in deleted' => k \in again')
    BY <2>1, <2>4 DEF TakenAwayStaysAway
  <2>10. QED BY <2>1, <2>6, <2>7, <2>8, <2>9 DEF TakenIsKnown, TakenAwayStaysAway
<1>13. ASSUME NEW h \in handlers, ApplyNew(h) PROVE TakenIsKnown' /\ TakenAwayStaysAway'
  <2>1. /\ UNCHANGED <<deleted, cleared, again, late, pending, calls>>
        /\ handlers' \subseteq handlers
    BY <1>13 DEF ApplyNew, history, server
  <2>2. DeletedIsKnown(h.m) /\ (h.m > h.cleared => ClearedIsKnown(h.m))
    BY DEF TakenIsKnown
  <2>3. \A m \in Message : cache'[m] = "kept" => cache[m] = "kept" \/ DeletedIsKnown(m)
    BY <1>13, <2>2 DEF ApplyNew, Cached
  <2>4. \A m \in shown' : m \in shown \/ (DeletedIsKnown(m) /\ ClearedIsKnown(m))
    BY <1>13, <2>2 DEF ApplyNew
  <2>5. QED BY <1>1, <2>1, <2>3, <2>4
<1>14. ASSUME NEW i \in DOMAIN calls, Answer(i) PROVE TakenIsKnown' /\ TakenAwayStaysAway'
  <2>0. \A m \in calls[i].page :
          DeletedIsKnown(m) /\ (calls[i].at = "cached" => ClearedIsKnown(m))
    BY DEF TakenIsKnown
  <2>1. CASE ListMessages(i)
    <3>1. PICK d \in Call, b \in 1 .. n + 1 :
            /\ calls' = [calls EXCEPT ![i] = d] /\ d.at = "read" /\ d.page = Page(b)
            /\ again' = again \cup (Page(b) \cap deleted)
      BY <2>1, ListsMessages
    <3>2. UNCHANGED <<deleted, cleared, late, cache, shown, handlers, pending>>
      BY <2>1 DEF ListMessages, local, server
    <3>3. \A j \in DOMAIN calls' :
            (j = i /\ calls'[j] = d) \/ (j \in DOMAIN calls /\ calls'[j] = calls[j])
      BY <3>1, GoesOn
    <3>4. QED BY <1>1, <3>1, <3>2, <3>3
  <2>2. CASE Arrive(i)
    <3>1. PICK d \in Call :
            /\ calls' = [calls EXCEPT ![i] = d] /\ d.at = "arrived" /\ d.page = calls[i].page
      BY <2>2, Arrives
    <3>2. /\ UNCHANGED <<deleted, cleared, late, again, shown, handlers, pending>>
          /\ cache' = Cached(calls[i].page, "kept")
      BY <2>2 DEF Arrive, history, server
    <3>3. \A j \in DOMAIN calls' :
            (j = i /\ calls'[j] = d) \/ (j \in DOMAIN calls /\ calls'[j] = calls[j])
      BY <3>1, GoesOn
    <3>4. \A m \in Message : cache'[m] = "kept" => cache[m] = "kept" \/ DeletedIsKnown(m)
      BY <2>0, <3>2 DEF Cached
    <3>5. QED BY <1>1, <3>1, <3>2, <3>3, <3>4
  <2>3. CASE FallBack(i)
    <3>1. PICK d \in Call :
            /\ calls' = [calls EXCEPT ![i] = d]
            /\ d.at = "cached" /\ d.page = {m \in NotCleared(CachedPage) : cache[m] = "kept"}
      BY <2>3, FallsBack
    <3>2. UNCHANGED <<deleted, cleared, late, again, cache, shown, handlers, pending>>
      BY <2>3 DEF FallBack, local, server, history
    <3>3. \A j \in DOMAIN calls' :
            (j = i /\ calls'[j] = d) \/ (j \in DOMAIN calls /\ calls'[j] = calls[j])
      BY <3>1, GoesOn
    <3>4. \A m \in d.page : m \in Message /\ cache[m] = "kept" /\ m > cleared
      BY <3>1 DEF NotCleared, CachedPage
    <3>5. \A m \in d.page : DeletedIsKnown(m) /\ ClearedIsKnown(m)
      BY <1>0, <3>4 DEF TakenIsKnown, Message
    <3>6. QED BY <1>1, <3>1, <3>2, <3>3, <3>5
  <2>4. CASE MergeSelection(i)
    <3>1. /\ UNCHANGED <<deleted, cleared, late, again, cache, handlers, pending>>
          /\ shown' = NotCleared(calls[i].page)
      BY <2>4 DEF MergeSelection, local, server
    <3>2. \A j \in DOMAIN calls' : \E k \in DOMAIN calls :
            calls'[j].page = calls[k].page /\ calls'[j].at = calls[k].at
      BY <2>4, Merged
    <3>3. \A m \in shown' : DeletedIsKnown(m) /\ ClearedIsKnown(m)
      BY <1>0, <2>0, <3>1 DEF NotCleared, Call, Message
    <3>4. QED BY <1>1, <3>1, <3>2, <3>3
  <2>5. CASE ~MergeSelection(i) /\ calls' = Without(i) /\ UNCHANGED <<server, handlers, local, late, again>>
    <3>1. \A m \in shown' : m \in shown \/ (DeletedIsKnown(m) /\ ClearedIsKnown(m))
      <4>1. CASE MergeOlder(i)
        <5>1. shown' = shown \cup NotCleared(calls[i].page)
          BY <4>1 DEF MergeOlder
        <5>2. QED BY <1>0, <2>0, <5>1 DEF NotCleared, Call, Message
      <4>2. CASE MergeCached(i)
        <5>1. shown' = calls[i].page /\ calls[i].at = "cached"
          BY <4>2 DEF MergeCached
        <5>2. QED BY <2>0, <5>1
      <4>3. CASE ~(MergeOlder(i) \/ MergeCached(i) \/ MergeSelection(i))
        <5>1. shown' = shown
          BY <1>14, <4>3 DEF Answer, OtherLoaded, ListMessages, Drop, Arrive, FallBack,
                             SelectionFails, OlderFails
        <5>2. QED BY <5>1
      <4>4. QED BY <2>5, <4>1, <4>2, <4>3
    <3>2. \A j \in DOMAIN calls' : \E k \in DOMAIN calls : calls'[j] = calls[k]
      BY <2>5, Done
    <3>3. QED BY <1>1, <2>5, <3>1, <3>2 DEF server, local
  <2>6. QED BY <1>14, <2>1, <2>2, <2>3, <2>4, <2>5
        DEF Answer, OtherLoaded, Drop, MergeOlder, MergeCached, SelectionFails, OlderFails, history
<1>15. QED BY <1>4, <1>5, <1>6, <1>7, <1>8, <1>9, <1>10, <1>11, <1>12, <1>13, <1>14 DEF Next

(* A message that is accounted for stays so, unless a page replaces the    *)
(* list.                                                                   *)
LEMMA AccountedStays ==
  ASSUME PagesTyped, Next, \A i \in DOMAIN calls : ~MergeSelection(i),
         NEW m \in 1 .. n', m <= n => Accounted(m)
  PROVE  Accounted(m)'
<1> USE DEF Accounted
<1>0. n \in Nat /\ m \in Nat /\ cleared \in 0 .. n
  BY BoundAssumption DEF PagesTyped
<1>1. ASSUME Accounted(m), UNCHANGED <<pending, missed, deleted, cleared, handlers>>, shown \subseteq shown'
      PROVE  Accounted(m)'
  BY <1>1
<1>2. CASE PeerSends
  <2>1. /\ UNCHANGED <<shown, missed, deleted, cleared, handlers>> /\ n' = n + 1
        /\ pending' = pending \cup {n + 1}
    BY <1>2 DEF PeerSends, local, history
  <2>2. CASE m = n + 1
    BY <2>1, <2>2
  <2>3. CASE m <= n
    BY <2>1, <2>3
  <2>4. QED BY <1>0, <2>1, <2>2, <2>3
<1>3. ASSUME n' = n PROVE Accounted(m)
  BY <1>0, <1>3
<1>4. CASE Select \/ Close \/ SelectOther \/ LoadOlder
  <2>1. UNCHANGED <<n, shown, pending, missed, deleted, cleared, handlers>>
    BY <1>4 DEF Select, Close, SelectOther, LoadOlder, server, local, history
  <2>2. QED BY <1>1, <1>3, <2>1
<1>5. CASE ClearLocalConversation
  BY <1>0, <1>5 DEF ClearLocalConversation, server
<1>6. CASE Restart
  <2>1. n' = n /\ pending' = pending /\ missed' = (1 .. n) \ pending
    BY <1>6 DEF Restart, server
  <2>2. QED BY <2>1
<1>7. ASSUME NEW k \in Message, Lose(k) PROVE Accounted(m)'
  <2>1. /\ UNCHANGED <<n, shown, deleted, cleared, handlers>>
        /\ pending' = pending \ {k} /\ missed' = missed \cup {k}
    BY <1>7 DEF Lose, local
  <2>2. QED BY <1>3, <2>1
<1>8. ASSUME NEW k \in Message, TakeNew(k) PROVE Accounted(m)'
  <2>1. /\ UNCHANGED <<n, shown, deleted, cleared, missed>>
        /\ pending' = pending \ {k} /\ handlers' = handlers \cup {[m |-> k, cleared |-> cleared]}
    BY <1>8 DEF TakeNew, local, history
  <2>2. \E h \in handlers' : h.m = k
    <3>1. [m |-> k, cleared |-> cleared].m = k
      OBVIOUS
    <3>2. QED BY <2>1, <3>1
  <2>3. \A h \in handlers : h \in handlers'
    BY <2>1
  <2>4. QED BY <1>3, <2>1, <2>2, <2>3
<1>9. ASSUME NEW k \in Message, DeleteLocalMessage(k) PROVE Accounted(m)'
  <2>1. /\ UNCHANGED <<n, pending, missed, cleared, handlers>>
        /\ shown' = shown \ {k} /\ deleted' = deleted \cup {k}
    BY <1>9 DEF DeleteLocalMessage, server
  <2>2. QED BY <1>3, <2>1
<1>10. ASSUME NEW h \in handlers, ApplyNew(h) PROVE Accounted(m)'
  <2>1. /\ UNCHANGED <<n, pending, missed, deleted, cleared>>
        /\ handlers' = handlers \ {h} /\ shown \subseteq shown'
    BY <1>10 DEF ApplyNew, server, history
  <2>2. h.m \in shown' \/ h.m <= cleared
    <3>1. h.m \in Nat /\ h.cleared \in Nat /\ h.cleared <= cleared
      BY <1>0 DEF PagesTyped
    <3>2. h.m <= h.cleared \/ h.m \in shown'
      BY <1>10 DEF ApplyNew
    <3>3. QED BY <1>0, <3>1, <3>2
  <2>3. QED BY <1>3, <2>1, <2>2
<1>11. ASSUME NEW i \in DOMAIN calls, Answer(i) PROVE Accounted(m)'
  <2>1. CASE MergeCached(i)
    <3>1. /\ UNCHANGED <<n, pending, deleted, cleared, handlers>>
          /\ shown' = calls[i].page /\ missed' = missed \cup (shown \ calls[i].page)
      BY <2>1 DEF MergeCached, server, local
    <3>2. QED BY <1>3, <3>1
  <2>2. CASE MergeOlder(i)
    <3>1. UNCHANGED <<n, pending, missed, deleted, cleared, handlers>> /\ shown \subseteq shown'
      BY <2>2 DEF MergeOlder, server, local
    <3>2. QED BY <1>1, <1>3, <3>1
  <2>3. CASE ~MergeCached(i) /\ ~MergeOlder(i)
    <3>1. UNCHANGED <<n, shown, pending, missed, deleted, cleared, handlers>>
      BY <1>11, <2>3 DEF Answer, OtherLoaded, ListMessages, Drop, Arrive, FallBack,
                         SelectionFails, OlderFails, server, local, history
    <3>2. QED BY <1>1, <1>3, <3>1
  <2>4. QED BY <2>1, <2>2, <2>3
<1>12. QED BY <1>2, <1>4, <1>5, <1>6, <1>7, <1>8, <1>9, <1>10, <1>11 DEF Next

(* A selection is merged: from the page on, what is not shown is accounted *)
(* for, and what is older can be fetched.                                  *)
LEMMA SelectionMerged ==
  ASSUME PagesTyped, LoadsAreSound, LaterAreAccounted, NEW i \in DOMAIN calls, MergeSelection(i)
  PROVE  LaterAreAccounted' /\ WholeIsWhole'
<1>1. PICK b \in 1 .. n + 1 : calls[i].page = Page(b) /\ calls[i].more = More(b)
  BY ReadIs DEF MergeSelection
<1> DEFINE low == IF b > PageSize THEN b - PageSize ELSE 1
<1>2. /\ Page(b) = low .. (b - 1) /\ Page(b) \subseteq 1 .. n /\ low \in 1 .. b
      /\ (More(b) <=> low > 1) /\ (b # 1 => low < b)
      /\ NextCursor(Page(b)) = IF b = 1 THEN None ELSE low
  BY PageIs
<1>3. n \in Nat /\ b \in Nat \ {0} /\ low \in Nat \ {0} /\ cleared \in Nat /\ n <= MaxMessages /\ MaxMessages \in Nat
      /\ upto \in 0 .. n
  BY <1>2, BoundAssumption DEF PagesTyped
<1>4. upto' \in Page(b) \cup {upto} /\ upto' \in 0 .. n /\ upto <= upto' /\ \A m \in Page(b) : m <= upto'
  BY <1>1, LatestIs DEF MergeSelection
<1> HIDE DEF low
<1>5. /\ UNCHANGED <<n, pending, handlers, deleted, cleared>>
      /\ shown' = {m \in Page(b) : m > cleared}
      /\ missed' = missed \cup {m \in shown : \A p \in Page(b) : p < m}
      /\ whole' = (upto' \in Page(b) \cup {0})
  BY <1>1 DEF MergeSelection, NotCleared, server, local
<1>6. ASSUME NEW m \in Page(b) PROVE Accounted(m)'
  BY <1>2, <1>3, <1>5 DEF Accounted
<1>7. ASSUME NEW m \in 1 .. n, m > upto, \A p \in Page(b) : p < m PROVE Accounted(m)'
  <2>1. Accounted(m)
    BY <1>7 DEF LaterAreAccounted
  <2>2. m \in shown => m \in missed'
    BY <1>5, <1>7
  <2>3. QED BY <1>5, <2>1, <2>2 DEF Accounted
<1>8. LaterAreAccounted'
  <2>1. ASSUME NEW m \in 1 .. n, m > upto' PROVE Accounted(m)'
    <3>1. m > upto /\ \A p \in Page(b) : p < m
      BY <1>2, <1>3, <1>4, <2>1
    <3>2. QED BY <1>7, <3>1
  <2>2. QED BY <1>5, <2>1 DEF LaterAreAccounted
<1>9. ASSUME whole' PROVE \A m \in 1 .. n : m >= low => Accounted(m)'
  <2>1. upto <= b - 1
    <3>1. upto' \in Page(b) \/ upto' = 0
      BY <1>5, <1>9
    <3>2. QED BY <1>2, <1>3, <1>4, <3>1
  <2>2. ASSUME NEW m \in 1 .. n, m >= low PROVE Accounted(m)'
    <3>1. CASE m <= b - 1
      <4>1. m \in Page(b)
        BY <1>2, <1>3, <2>2, <3>1
      <4>2. QED BY <1>6, <4>1
    <3>2. CASE m > b - 1
      <4>1. m > upto /\ \A p \in Page(b) : p < m
        BY <1>2, <1>3, <2>1, <3>2
      <4>2. QED BY <1>7, <4>1
    <3>3. QED BY <1>3, <3>1, <3>2
  <2>3. QED BY <2>2
<1>10. \A j \in DOMAIN calls' : calls'[j].kind = "older" => calls'[j].stale
  BY Merged
<1>11. \/ ~hasMore' /\ \E m \in Page(b) : m <= cleared
       \/ hasMore' = More(b) /\ cursor' = NextCursor(Page(b))
  <2>1. calls[i] \in Call /\ Paged(calls[i])
    BY DEF PagesTyped, MergeSelection
  <2>2. QED BY <1>1, <2>1, PagedIs
<1>12. ASSUME whole' PROVE \E first \in 0 .. MaxMessages : AccountedFrom(first)'
  <2>1. CASE \E m \in Page(b) : m <= cleared
    <3>1. \A m \in 1 .. n : m < low => m <= cleared
      BY <1>2, <1>3, <2>1
    <3>2. \A m \in 1 .. n : m >= 0 => Accounted(m)'
      BY <1>3, <1>5, <1>9, <1>12, <3>1 DEF Accounted
    <3>3. AccountedFrom(0)'
      BY <1>5, <1>10, <3>2 DEF AccountedFrom
    <3>4. QED BY <1>3, <3>3
  <2>2. CASE hasMore' = More(b) /\ cursor' = NextCursor(Page(b)) /\ b # 1
    <3>1. AccountedFrom(low)'
      BY <1>2, <1>3, <1>5, <1>9, <1>10, <1>12, <2>2 DEF AccountedFrom
    <3>2. low \in 0 .. MaxMessages
      BY <1>2, <1>3, <2>2
    <3>3. QED BY <3>1, <3>2
  <2>3. CASE b = 1
    <3>1. \A m \in 1 .. n : m >= 0 => Accounted(m)'
      BY <1>2, <1>3, <1>9, <1>12, <2>3
    <3>2. AccountedFrom(0)'
      BY <1>5, <1>10, <3>1 DEF AccountedFrom
    <3>3. QED BY <1>3, <3>2
  <2>4. QED BY <1>11, <2>1, <2>2, <2>3
<1>13. QED BY <1>8, <1>12 DEF WholeIsWhole

(* An older page is merged: it reaches from its cursor back.               *)
LEMMA OlderMerged ==
  ASSUME PagesTyped, LoadsAreSound, WholeIsWhole, Next, NEW i \in DOMAIN calls, MergeOlder(i)
  PROVE  WholeIsWhole'
<1> SUFFICES ASSUME whole' PROVE \E first \in 0 .. MaxMessages : AccountedFrom(first)'
  BY DEF WholeIsWhole
<1>1. PICK b \in 1 .. n + 1 : calls[i].page = Page(b) /\ calls[i].more = More(b) /\ b = calls[i].before
  BY ReadIs DEF MergeOlder
<1> DEFINE low == IF b > PageSize THEN b - PageSize ELSE 1
<1>2. /\ Page(b) = low .. (b - 1) /\ Page(b) \subseteq 1 .. n /\ low \in 1 .. b
      /\ (More(b) <=> low > 1) /\ (b # 1 => low < b)
      /\ NextCursor(Page(b)) = IF b = 1 THEN None ELSE low
  BY PageIs
<1>3. n \in Nat /\ b \in Nat \ {0} /\ low \in Nat \ {0} /\ cleared \in Nat /\ n <= MaxMessages /\ MaxMessages \in Nat
  BY <1>2, BoundAssumption DEF PagesTyped
<1> HIDE DEF low
<1>4. /\ UNCHANGED <<n, pending, handlers, deleted, cleared, missed>>
      /\ shown' = shown \cup {m \in Page(b) : m > cleared}
      /\ whole /\ ~calls[i].stale /\ calls[i].kind = "older"
  BY <1>1 DEF MergeOlder, NotCleared, server, local
<1>5. PICK first \in 0 .. MaxMessages : AccountedFrom(first)
  BY <1>4 DEF WholeIsWhole
<1>6. first \in Nat /\ first <= b
  BY <1>1, <1>3, <1>4, <1>5 DEF AccountedFrom
<1>7. ASSUME NEW m \in 1 .. n, Accounted(m) PROVE Accounted(m)'
  BY <1>4, <1>7 DEF Accounted
<1>8. ASSUME NEW m \in Page(b) PROVE Accounted(m)'
  BY <1>2, <1>3, <1>4 DEF Accounted
<1>9. ASSUME NEW m \in 1 .. n, m >= first \/ m >= low PROVE Accounted(m)'
  <2>1. CASE m >= first
    BY <1>5, <1>7, <2>1 DEF AccountedFrom
  <2>2. CASE m < first
    <3>1. m \in Page(b)
      BY <1>2, <1>3, <1>6, <1>9, <2>2
    <3>2. QED BY <1>8, <3>1
  <2>3. QED BY <1>6, <2>1, <2>2
<1>10. \A j \in DOMAIN calls' : calls'[j].kind = "older" /\ ~calls'[j].stale => first <= calls'[j].before
  <2>1. \A j \in DOMAIN calls' : \E k \in DOMAIN calls : calls'[j] = calls[k]
    BY Done DEF MergeOlder
  <2>2. QED BY <1>5, <2>1 DEF AccountedFrom
<1>11. \/ ~hasMore' /\ \E m \in Page(b) : m <= cleared
       \/ hasMore' = More(b) /\ cursor' = NextCursor(Page(b))
  <2>1. calls[i] \in Call /\ Paged(calls[i])
    BY DEF PagesTyped, MergeOlder
  <2>2. QED BY <1>1, <2>1, PagedIs
<1>12. \A j \in DOMAIN calls' : calls'[j] \in Call /\ (calls'[j].kind = "older" => calls'[j].before \in Nat)
  <2>1. PagesTyped' /\ LoadsAreSound'
    BY TypedStep, SoundStep
  <2>2. QED BY <1>3, <1>4, <2>1 DEF PagesTyped, LoadsAreSound, Sound
<1>13. CASE \E m \in Page(b) : m <= cleared
  <2>1. \A m \in 1 .. n : m < low => m <= cleared
    BY <1>2, <1>3, <1>13
  <2>2. \A m \in 1 .. n : m >= 0 => Accounted(m)'
    BY <1>3, <1>4, <1>9, <2>1 DEF Accounted
  <2>3. AccountedFrom(0)'
    BY <1>4, <1>12, <2>2 DEF AccountedFrom
  <2>4. QED BY <1>3, <2>3
<1>14. CASE hasMore' = More(b) /\ cursor' = NextCursor(Page(b)) /\ b # 1 /\ low <= first
  <2>1. \A j \in DOMAIN calls' : calls'[j].kind = "older" /\ ~calls'[j].stale => low <= calls'[j].before
    BY <1>3, <1>6, <1>10, <1>12, <1>14
  <2>2. AccountedFrom(low)'
    BY <1>2, <1>3, <1>4, <1>9, <1>14, <2>1 DEF AccountedFrom
  <2>3. low \in 0 .. MaxMessages
    BY <1>2, <1>3, <1>14
  <2>4. QED BY <2>2, <2>3
<1>15. CASE hasMore' = More(b) /\ cursor' = NextCursor(Page(b)) /\ first < low
  <2>1. first > 1 => hasMore' /\ first <= cursor'
    BY <1>2, <1>3, <1>6, <1>15
  <2>2. AccountedFrom(first)'
    BY <1>4, <1>9, <1>10, <2>1 DEF AccountedFrom
  <2>3. QED BY <2>2
<1>16. CASE b = 1 /\ low <= first
  <2>1. first = 1
    BY <1>3, <1>6, <1>16
  <2>2. AccountedFrom(first)'
    BY <1>4, <1>9, <1>10, <2>1 DEF AccountedFrom
  <2>3. QED BY <2>2
<1>17. QED BY <1>3, <1>6, <1>11, <1>13, <1>14, <1>15, <1>16

LEMMA WholeStep ==
  ASSUME PagesTyped, LoadsAreSound, LaterAreAccounted, WholeIsWhole, Next
  PROVE  LaterAreAccounted' /\ WholeIsWhole'
<1>0. n \in Nat /\ n' \in Nat /\ MaxMessages \in Nat /\ 0 \in 0 .. MaxMessages
  BY TypedStep, BoundAssumption DEF PagesTyped
<1>1. CASE \E i \in DOMAIN calls : MergeSelection(i)
  BY <1>1, SelectionMerged
<1> SUFFICES ASSUME \A i \in DOMAIN calls : ~MergeSelection(i)
             PROVE  LaterAreAccounted' /\ WholeIsWhole'
  BY <1>1
<1>2. \A m \in 1 .. n' : (m <= n => Accounted(m)) => Accounted(m)'
  BY AccountedStays
<1>3. upto' = upto
  BY DEF Next, PeerSends, Select, Close, SelectOther, LoadOlder, ClearLocalConversation, Restart,
         Lose, TakeNew, DeleteLocalMessage, ApplyNew, Answer, OtherLoaded, ListMessages, Drop,
         Arrive, MergeOlder, FallBack, MergeCached, SelectionFails, OlderFails, history
<1>4. LaterAreAccounted'
  <2>1. ASSUME NEW m \in 1 .. n', m > upto PROVE Accounted(m)'
    <3>1. m <= n => Accounted(m)
      BY <1>0, <2>1 DEF LaterAreAccounted
    <3>2. QED BY <1>2, <3>1
  <2>2. QED BY <1>3, <2>1 DEF LaterAreAccounted
<1>5. ASSUME whole', UNCHANGED <<whole, hasMore, cursor>>,
             \A j \in DOMAIN calls' : calls'[j].kind = "older" /\ ~calls'[j].stale =>
               \/ calls'[j].before = cursor /\ cursor \in 1 .. n
               \/ \E k \in DOMAIN calls :
                    /\ calls[k].kind = "older" /\ ~calls[k].stale
                    /\ calls'[j].before = calls[k].before
      PROVE  \E first \in 0 .. MaxMessages : AccountedFrom(first)'
  <2>1. PICK first \in 0 .. MaxMessages : AccountedFrom(first)
    BY <1>5 DEF WholeIsWhole
  <2>2. ASSUME NEW m \in 1 .. n', m >= first PROVE Accounted(m)'
    <3>1. m <= n => Accounted(m)
      BY <1>0, <2>1, <2>2 DEF AccountedFrom
    <3>2. QED BY <1>2, <3>1
  <2>3. cursor \in 1 .. n => first <= cursor
    BY <1>0, <2>1 DEF AccountedFrom
  <2>4. \A j \in DOMAIN calls' : calls'[j].kind = "older" /\ ~calls'[j].stale => first <= calls'[j].before
    BY <1>5, <2>1, <2>3 DEF AccountedFrom
  <2>5. AccountedFrom(first)'
    BY <1>5, <2>1, <2>2, <2>4 DEF AccountedFrom
  <2>6. QED BY <2>5
<1>6. ASSUME calls' = calls, UNCHANGED <<whole, hasMore, cursor>> PROVE WholeIsWhole'
  BY <1>5, <1>6 DEF WholeIsWhole
<1>7. CASE PeerSends
  BY <1>4, <1>6, <1>7 DEF PeerSends, pagination, history
<1>8. CASE Select \/ Restart
  BY <1>4, <1>8 DEF Select, Restart, WholeIsWhole
<1>9. CASE Close
  BY <1>4, <1>6, <1>9 DEF Close, pagination, history
<1>10. CASE SelectOther
  <2>1. UNCHANGED <<whole, hasMore, cursor>> /\ calls' = Append(calls, Asked("other", None))
    BY <1>10 DEF SelectOther, pagination, history
  <2>2. \A j \in DOMAIN calls' : calls'[j] = Asked("other", None) \/ j \in DOMAIN calls
    BY <2>1, New
  <2>3. \A k \in DOMAIN calls : k \in DOMAIN calls' /\ calls'[k] = calls[k]
    BY <2>1, New
  <2>4. Asked("other", None).kind = "other"
    BY DEF Asked
  <2>5. QED BY <1>4, <1>5, <2>1, <2>2, <2>3, <2>4 DEF WholeIsWhole
<1>11. CASE LoadOlder
  <2>1. UNCHANGED <<whole, hasMore, cursor>> /\ cursor # None /\ calls' = Append(calls, Asked("older", cursor))
    BY <1>11 DEF LoadOlder, history
  <2>2. cursor \in 1 .. n
    BY <2>1 DEF PagesTyped
  <2>3. \A j \in DOMAIN calls' : calls'[j] = Asked("older", cursor) \/ j \in DOMAIN calls
    BY <2>1, <2>2, New
  <2>4. \A k \in DOMAIN calls : k \in DOMAIN calls' /\ calls'[k] = calls[k]
    BY <2>1, <2>2, New
  <2>5. Asked("older", cursor).before = cursor
    BY DEF Asked
  <2>6. QED BY <1>4, <1>5, <2>1, <2>2, <2>3, <2>4, <2>5 DEF WholeIsWhole
<1>12. CASE ClearLocalConversation
  <2>1. n' = n /\ cleared' = n /\ calls' = calls
    BY <1>12 DEF ClearLocalConversation, server
  <2>2. \A m \in 1 .. n' : m >= 0 => Accounted(m)'
    BY <1>0, <2>1 DEF Accounted
  <2>3. \A i \in DOMAIN calls : calls[i].kind = "older" => 0 <= calls[i].before
    BY <1>0 DEF LoadsAreSound, Sound
  <2>4. AccountedFrom(0)'
    BY <2>1, <2>2, <2>3 DEF AccountedFrom
  <2>5. QED BY <1>4, <1>0, <2>4 DEF WholeIsWhole
<1>13. ASSUME NEW m \in Message, Lose(m) \/ TakeNew(m) \/ DeleteLocalMessage(m) PROVE WholeIsWhole'
  BY <1>6, <1>13 DEF Lose, TakeNew, DeleteLocalMessage, pagination, history
<1>14. ASSUME NEW h \in handlers, ApplyNew(h) PROVE WholeIsWhole'
  BY <1>6, <1>14 DEF ApplyNew, pagination, history
<1>15. ASSUME NEW i \in DOMAIN calls, Answer(i) PROVE WholeIsWhole'
  <2>0. ASSUME NEW d \in Call, calls' = [calls EXCEPT ![i] = d], SameLoad(calls[i], d),
               UNCHANGED <<whole, hasMore, cursor>>
        PROVE  WholeIsWhole'
    <3>1. \A j \in DOMAIN calls' :
            j \in DOMAIN calls /\ calls'[j].kind = calls[j].kind
            /\ calls'[j].before = calls[j].before /\ calls'[j].stale = calls[j].stale
      BY <2>0, GoesOn DEF SameLoad
    <3>2. QED BY <1>5, <2>0, <3>1 DEF WholeIsWhole
  <2>1. CASE ListMessages(i)
    <3>1. PICK d \in Call : calls' = [calls EXCEPT ![i] = d] /\ SameLoad(calls[i], d)
      BY <2>1, ListsMessages
    <3>2. QED BY <2>0, <2>1, <3>1 DEF ListMessages, pagination
  <2>2. CASE Arrive(i)
    <3>1. PICK d \in Call : calls' = [calls EXCEPT ![i] = d] /\ SameLoad(calls[i], d)
      BY <2>2, Arrives
    <3>2. QED BY <2>0, <2>2, <3>1 DEF Arrive, pagination, history
  <2>3. CASE FallBack(i)
    <3>1. PICK d \in Call : calls' = [calls EXCEPT ![i] = d] /\ SameLoad(calls[i], d)
      BY <2>3, FallsBack
    <3>2. QED BY <2>0, <2>3, <3>1 DEF FallBack, pagination, history
  <2>4. CASE MergeOlder(i)
    BY <2>4, OlderMerged
  <2>5. CASE MergeCached(i)
    BY <2>5 DEF MergeCached, WholeIsWhole
  <2>6. CASE OtherLoaded(i) \/ Drop(i) \/ SelectionFails(i) \/ OlderFails(i)
    <3>1. UNCHANGED <<whole, hasMore, cursor>> /\ calls' = Without(i)
      BY <2>6 DEF OtherLoaded, Drop, SelectionFails, OlderFails, pagination, history
    <3>2. \A j \in DOMAIN calls' : \E k \in DOMAIN calls : calls'[j] = calls[k]
      BY <3>1, Done
    <3>3. QED BY <1>5, <3>1, <3>2 DEF WholeIsWhole
  <2>7. QED BY <1>15, <2>1, <2>2, <2>3, <2>4, <2>5, <2>6 DEF Answer
<1>16. QED BY <1>4, <1>7, <1>8, <1>9, <1>10, <1>11, <1>12, <1>13, <1>14, <1>15 DEF Next

-----------------------------------------------------------------------------
(* The theorems                                                            *)

LEMMA PagesInit == Init => PagesInv
<1> SUFFICES ASSUME Init PROVE PagesInv
  OBVIOUS
<1> USE BoundAssumption DEF Init
<1>1. PagesTyped
  <2>1. {selected, loading, hasMore, older, whole} \subseteq BOOLEAN
    OBVIOUS
  <2>2. cache \in [Message -> {"none", "kept", "deleted"}]
    OBVIOUS
  <2>3. QED BY <2>1, <2>2 DEF PagesTyped
<1>2. LoadsAreSound /\ SpinnersAreServed
  BY DEF LoadsAreSound, SpinnersAreServed
<1>3. TakenIsKnown /\ TakenAwayStaysAway
  BY DEF TakenIsKnown, TakenAwayStaysAway
<1>4. LaterAreAccounted /\ WholeIsWhole
  BY DEF LaterAreAccounted, WholeIsWhole
<1>5. QED BY <1>1, <1>2, <1>3, <1>4 DEF PagesInv

LEMMA PagesStep == PagesInv /\ [Next]_vars => PagesInv'
<1>1. ASSUME PagesInv, Next PROVE PagesInv'
  BY <1>1, TypedStep, SoundStep, SpinnersStep, TakenStep, WholeStep DEF PagesInv
<1>2. ASSUME PagesInv, UNCHANGED vars PROVE PagesInv'
  <2>1. UNCHANGED <<n, pending, handlers, calls, shown, selected, loading, hasMore, cursor, older,
                    cleared, cache, deleted, upto, whole, missed, late, again, reopened>>
    BY <1>2 DEF vars, server, pagination, local, history
  <2>2. /\ PagesTyped' <=> PagesTyped
        /\ LoadsAreSound' <=> LoadsAreSound
        /\ SpinnersAreServed' <=> SpinnersAreServed
    BY <2>1 DEF PagesTyped, LoadsAreSound, SpinnersAreServed
  <2>3. /\ TakenIsKnown' <=> TakenIsKnown
        /\ TakenAwayStaysAway' <=> TakenAwayStaysAway
    BY <2>1 DEF TakenIsKnown, TakenAwayStaysAway, DeletedIsKnown, ClearedIsKnown
  <2>4. /\ LaterAreAccounted' <=> LaterAreAccounted
        /\ WholeIsWhole' <=> WholeIsWhole
    BY <2>1 DEF LaterAreAccounted, WholeIsWhole, Accounted, AccountedFrom
  <2>5. QED BY <1>2, <2>2, <2>3, <2>4 DEF PagesInv
<1>3. QED BY <1>1, <1>2

(* Whatever the order of selections, older pages, socket events, failures, *)
(* restarts and what the user takes away: loads are where their page and   *)
(* their cursor say, and what is deleted, cleared or accounted for is      *)
(* known.                                                                  *)
THEOREM PagesInvariant == Spec => []PagesInv
<1>1. QED BY PagesInit, PagesStep, PTL DEF Spec

(* A progress indicator that the user sees belongs to a load under way:    *)
(* no answer that is dropped, fails or is overtaken leaves one behind in   *)
(* the selected conversation, unless openDirectConversation selects it     *)
(* once more.                                                              *)
THEOREM SpinnersEnd == Spec => []SpinnersAreServed
<1>1. PagesInv => SpinnersAreServed
  BY DEF PagesInv
<1>2. QED BY <1>1, PagesInvariant, PTL

(* A deleted or cleared message is shown again only where it was on its    *)
(* way when it was taken away, or the server sent it again.                *)
THEOREM TakenStaysAway == Spec => []TakenAwayStaysAway
<1>1. PagesInv => TakenAwayStaysAway
  BY DEF PagesInv
<1>2. QED BY <1>1, PagesInvariant, PTL

(* Scrolling up skips no message: after a selection that reached the       *)
(* server, each message is shown, on its way, taken away, lost, or before  *)
(* the cursor.                                                             *)
THEOREM NoneIsSkipped == Spec => []NothingIsSkipped
<1>1. PagesInv => NothingIsSkipped
  <2> SUFFICES ASSUME PagesInv, whole, NEW m \in 1 .. n
               PROVE  \/ m \in shown \cup pending \cup missed \cup deleted
                      \/ \E h \in handlers : h.m = m
                      \/ m <= cleared
                      \/ hasMore /\ m < cursor
    BY DEF NothingIsSkipped
  <2>1. PICK first \in 0 .. MaxMessages : AccountedFrom(first)
    BY DEF PagesInv, WholeIsWhole
  <2>2. CASE m >= first
    BY <2>1, <2>2 DEF AccountedFrom, Accounted
  <2>3. CASE m < first
    <3>1. hasMore /\ first <= cursor /\ cursor \in 1 .. n /\ n \in Nat
      BY <2>1, <2>3, BoundAssumption DEF AccountedFrom, PagesInv, PagesTyped
    <3>2. QED BY <2>3, <3>1
  <2>4. QED BY <2>2, <2>3, BoundAssumption DEF PagesInv, PagesTyped
<1>2. QED BY <1>1, PagesInvariant, PTL

-----------------------------------------------------------------------------
(* The session                                                             *)

State == {"none", "opening", "open", "accepted", "refused", "lost", "gone"}

(* Sessions are made in order. *)
MadeInOrder == \E k \in 0 .. MaxLogins : C!Made = 1 .. k

ServerTyped ==
  /\ owner \in [C!Session -> Account \cup {None}]
  /\ MadeInOrder
  /\ alive \subseteq C!Made

(* The client's session has been made, and its socket is its own. *)
SocketIsOwn ==
  /\ session \in C!Made \cup {None} /\ (page = "auth" <=> session = None)
  /\ sock \in [token : C!Session \cup {None}, state : State]
  /\ sock.token \in {session, None} /\ (sock.token = None <=> sock.state = "none")
  /\ page = "main" => sock.token = session
  /\ wire \in Seq({"kicked", "bye"}) /\ (sock.state = "none" => wire = <<>>)

(* What is asked for is asked for by an account or by a session. *)
CallsAreMade ==
  \A c \in requests : IF c.kind = "login" THEN c.by \in Account ELSE c.by \in C!Made

ListsTyped ==
  /\ list \subseteq Account /\ cached \subseteq Account
  /\ {stale, taken, replaced, fromCache, blamed} \subseteq BOOLEAN

ClientTyped == ServerTyped /\ SocketIsOwn /\ CallsAreMade /\ ListsTyped

(* The server's word that the session was replaced is true. *)
KickedIsDead == \A i \in DOMAIN wire : wire[i] = "kicked" => session \notin alive

(* The status is the socket's, also before the server has looked at it. *)
StatusIsTrue ==
  page = "main" =>
    /\ status = "online" => sock.state \in {"open", "accepted", "refused"}
    /\ status # "online" /\ sock.state \in {"open", "accepted"} => blamed

(* Whatever is selected has been selected in this session. *)
SelectedIsVisited == session # None => opened \in visited \cup {None}

ClientInv ==
  /\ ClientTyped
  /\ KickedIsDead /\ ReplacedIsTrue
  /\ StatusIsTrue
  /\ SelectedIsVisited /\ ShownIsOwn

-----------------------------------------------------------------------------
(* A session is made                                                       *)

(* The next session is the first that has not been made.                   *)
LEMMA NextIsNew ==
  ASSUME ServerTyped, C!Session \ C!Made # {}
  PROVE  /\ C!Next1 \in C!Session \ C!Made
         /\ \E k \in 0 .. MaxLogins : C!Made \cup {C!Next1} = 1 .. k
<1>1. PICK k \in 0 .. MaxLogins : C!Made = 1 .. k
  BY DEF ServerTyped, MadeInOrder
<1>2. k + 1 \in C!Session \ C!Made /\ \A r \in C!Session \ C!Made : k + 1 <= r
  BY <1>1, LoginsAssumption DEF C!Session
<1>3. C!Next1 \in C!Session \ C!Made /\ \A r \in C!Session \ C!Made : C!Next1 <= r
  BY <1>2 DEF C!Next1
<1>4. C!Next1 = k + 1
  BY <1>1, <1>2, <1>3, LoginsAssumption DEF C!Session
<1>5. C!Made \cup {C!Next1} = 1 .. (k + 1) /\ k + 1 \in 0 .. MaxLogins
  BY <1>1, <1>2, <1>4, LoginsAssumption DEF C!Session
<1>6. QED BY <1>3, <1>5

(* issueSession                                                            *)
LEMMA Issued ==
  ASSUME ServerTyped, NEW a \in Account, C!Session \ C!Made # {}, C!Issue(a, C!Next1)
  PROVE  /\ ServerTyped'
         /\ C!Made' = C!Made \cup {C!Next1} /\ C!Next1 \notin C!Made
         /\ \A s \in C!Made : owner'[s] = owner[s]
         /\ owner'[C!Next1] = a
         /\ \A s \in C!Made : s \in alive' => s \in alive /\ owner[s] # a
<1>1. C!Next1 \in C!Session \ C!Made /\ \E k \in 0 .. MaxLogins : C!Made \cup {C!Next1} = 1 .. k
  BY NextIsNew
<1> DEFINE s1 == C!Next1
<1>2. owner' = [owner EXCEPT ![s1] = a] /\ alive' = {r \in alive : owner[r] # a} \cup {s1}
  BY DEF C!Issue
<1> HIDE DEF s1
<1>3. s1 \in C!Session /\ s1 \notin C!Made /\ owner \in [C!Session -> Account \cup {None}]
  BY <1>1 DEF s1, ServerTyped
<1>4. /\ owner' \in [C!Session -> Account \cup {None}]
      /\ owner'[s1] = a /\ \A s \in C!Session : s # s1 => owner'[s] = owner[s]
  BY <1>2, <1>3
<1>5. C!Made' = C!Made \cup {s1}
  BY <1>3, <1>4, AccountAssumption DEF C!Made, C!Session
<1>6. MadeInOrder'
  BY <1>1, <1>5 DEF MadeInOrder, s1
<1>7. alive' \subseteq C!Made'
  BY <1>2, <1>5 DEF ServerTyped
<1>8. \A s \in C!Made : s \in C!Session /\ s # s1
  BY <1>3 DEF C!Made
<1>9. QED BY <1>2, <1>3, <1>4, <1>5, <1>6, <1>7, <1>8 DEF ServerTyped, s1

-----------------------------------------------------------------------------
(* Types                                                                   *)

(* What is made stays made, for the same account, and what is dead stays.  *)
LEMMA ServerStays ==
  ASSUME ClientTyped, [C!Next]_(C!vars)
  PROVE  /\ ServerTyped' /\ C!Made \subseteq C!Made'
         /\ \A s \in C!Made : owner'[s] = owner[s] /\ (s \in alive' => s \in alive)
<1>1. ServerTyped
  BY DEF ClientTyped
<1>2. ASSUME owner' = owner, alive' \subseteq alive
      PROVE  /\ ServerTyped' /\ C!Made \subseteq C!Made'
             /\ \A s \in C!Made : owner'[s] = owner[s] /\ (s \in alive' => s \in alive)
  BY <1>1, <1>2 DEF ServerTyped, MadeInOrder, C!Made, C!Session
<1>3. CASE C!LoginAnswered
  <2>1. PICK c \in requests : c.kind = "login" /\ C!Session \ C!Made # {} /\ C!Issue(c.by, C!Next1)
    BY <1>3 DEF C!LoginAnswered
  <2>2. c.by \in Account
    BY <2>1 DEF ClientTyped, CallsAreMade
  <2>3. QED BY <1>1, <2>1, <2>2, Issued
<1>4. ASSUME NEW a \in Account, C!LoginElsewhere(a)
      PROVE  /\ ServerTyped' /\ C!Made \subseteq C!Made'
             /\ \A s \in C!Made : owner'[s] = owner[s] /\ (s \in alive' => s \in alive)
  BY <1>1, <1>4, Issued DEF C!LoginElsewhere
<1>5. CASE C!LogoutAnswered
  BY <1>2, <1>5 DEF C!LogoutAnswered
<1>6. CASE \E s \in C!Session : C!Expire(s)
  BY <1>2, <1>6 DEF C!Expire
<1>7. CASE UNCHANGED C!server
  BY <1>2, <1>7 DEF C!server
<1>8. QED BY <1>3, <1>4, <1>5, <1>6, <1>7 DEF C!Next, C!vars, C!Submit, C!LoginFails, C!LoginRefused,
  C!Probe, C!OpenSettings, C!OpenMain, C!Logout, C!Confirm, C!Select, C!Close, C!ListTaken,
  C!CallRevoked, C!CallRefused, C!Change, C!ChangeAnswered, C!OpenedAgain, C!ListFails,
  C!SocketOpens, C!Judge, C!SocketLost, C!SocketFails, C!Retry, C!Receive

(* The client's session has been made, and its socket is its own.          *)
LEMMA SocketStaysOwn ==
  ASSUME ClientTyped, [C!Next]_(C!vars)
  PROVE  SocketIsOwn'
<1> USE NoneAssumption
<1>1. /\ C!Made \subseteq C!Made' /\ C!Made \subseteq C!Session
      /\ session \in C!Made \cup {None} /\ (page = "auth" <=> session = None)
      /\ sock \in [token : C!Session \cup {None}, state : State]
      /\ sock.token \in {session, None} /\ (sock.token = None <=> sock.state = "none")
      /\ (page = "main" => sock.token = session)
      /\ wire \in Seq({"kicked", "bye"}) /\ (sock.state = "none" => wire = <<>>)
      /\ \A s \in C!Session : s # None
  BY ServerStays DEF ClientTyped, SocketIsOwn, C!Made, C!Session
<1>2. ASSUME UNCHANGED <<session, page, sock>>, wire' \in Seq({"kicked", "bye"}),
             sock.state # "none" \/ wire' = wire
      PROVE  SocketIsOwn'
  BY <1>1, <1>2 DEF SocketIsOwn, C!Session
<1>3. ASSUME UNCHANGED <<session, page>>, wire' \in Seq({"kicked", "bye"}), sock.state # "none",
             NEW state \in State \ {"none"}, sock' = [sock EXCEPT !.state = state]
      PROVE  SocketIsOwn'
  <2>1. sock' \in [token : C!Session \cup {None}, state : State]
        /\ sock'.token = sock.token /\ sock'.state = state
    BY <1>1, <1>3
  <2>2. QED BY <1>1, <1>3, <2>1 DEF SocketIsOwn, C!Session
<1>4. ASSUME C!Disconnect, UNCHANGED session, session = None <=> page' = "auth", page' # "main"
      PROVE  SocketIsOwn'
  BY <1>1, <1>4 DEF C!Disconnect, C!NoSocket, SocketIsOwn, State, C!Session
<1>5. ASSUME NEW s \in C!Made', C!Connect(s), session' = s, page' = "main" PROVE SocketIsOwn'
  BY <1>1, <1>5 DEF C!Connect, SocketIsOwn, State, C!Session, C!Made
<1>6. CASE C!LoginAnswered
  <2>1. PICK c \in requests : c.kind = "login" /\ C!Session \ C!Made # {} /\ C!Issue(c.by, C!Next1)
    BY <1>6 DEF C!LoginAnswered
  <2>2. c.by \in Account /\ ServerTyped
    BY <2>1 DEF ClientTyped, CallsAreMade
  <2>3. C!Next1 \in C!Made'
    BY <2>1, <2>2, Issued
  <2>4. C!Connect(C!Next1) /\ session' = C!Next1 /\ page' = "main"
    BY <1>6 DEF C!LoginAnswered
  <2>5. QED BY <1>5, <2>3, <2>4
<1>7. CASE C!OpenMain
  BY <1>1, <1>5, <1>7 DEF C!OpenMain
<1>8. CASE C!OpenSettings
  BY <1>1, <1>4, <1>8 DEF C!OpenSettings
<1>9. CASE C!LogoutAnswered \/ C!Confirm
  <2>1. sock' = [token |-> None, state |-> "none"] /\ wire' = <<>> /\ session' = None /\ page' = "auth"
    BY <1>9 DEF C!LogoutAnswered, C!Confirm, C!Leave, C!Disconnect, C!NoSocket
  <2>2. sock' \in [token : C!Session \cup {None}, state : State]
        /\ sock'.token = None /\ sock'.state = "none"
    BY <2>1 DEF State
  <2>3. wire' \in Seq({"kicked", "bye"})
    BY <2>1
  <2>4. QED BY <2>1, <2>2, <2>3 DEF SocketIsOwn, C!Session
<1>10. CASE C!SocketOpens
  BY <1>1, <1>3, <1>10 DEF C!SocketOpens, State
<1>11. CASE C!Judge
  <2>1. wire' \in Seq({"kicked", "bye"})
    BY <1>1, <1>11, AppendProperties DEF C!Judge
  <2>2. PICK state \in {"accepted", "refused"} : sock' = [sock EXCEPT !.state = state]
    BY <1>11 DEF C!Judge
  <2>3. state \in State \ {"none"} /\ UNCHANGED <<session, page>> /\ sock.state # "none"
    BY <1>11, <2>2 DEF C!Judge, State
  <2>4. QED BY <1>3, <2>1, <2>2, <2>3
<1>12. CASE C!SocketLost \/ C!SocketFails \/ C!Retry
  <2>1. /\ UNCHANGED <<session, page>> /\ sock.state # "none"
        /\ wire' = wire \/ wire' = <<>>
    BY <1>12 DEF C!SocketLost, C!SocketFails, C!Retry
  <2>2. PICK state \in {"lost", "opening"} : sock' = [sock EXCEPT !.state = state]
    BY <1>12 DEF C!SocketLost, C!SocketFails, C!Retry
  <2>3. wire' \in Seq({"kicked", "bye"})
    <3>1. wire \in Seq({"kicked", "bye"})
      BY <1>1
    <3>2. CASE wire' = <<>>
      BY <3>2
    <3>3. QED BY <2>1, <3>1, <3>2
  <2>4. state \in State \ {"none"}
    BY <2>2 DEF State
  <2>5. QED BY <1>3, <2>1, <2>2, <2>3, <2>4
<1>13. CASE C!Receive
  <2>1. wire' \in Seq({"kicked", "bye"}) /\ Head(wire) \in {"kicked", "bye"}
    <3>1. wire # <<>> /\ wire' = Tail(wire)
      BY <1>13 DEF C!Receive
    <3>2. QED BY <1>1, <3>1, HeadTailProperties
  <2>2. CASE Head(wire) = "kicked"
    BY <1>1, <1>2, <1>13, <2>1, <2>2 DEF C!Receive
  <2>3. CASE Head(wire) # "kicked"
    <3>1. sock' = [sock EXCEPT !.state = "gone"] /\ UNCHANGED <<session, page>>
      BY <1>13, <2>3 DEF C!Receive
    <3>2. sock.state # "none"
      BY <1>1, <1>13 DEF C!Receive
    <3>3. QED BY <1>3, <2>1, <3>1, <3>2 DEF State
  <2>4. QED BY <2>2, <2>3
<1>14. ASSUME NEW a \in Account, C!LoginElsewhere(a) PROVE SocketIsOwn'
  <2>1. UNCHANGED <<session, page>>
    BY <1>14 DEF C!LoginElsewhere
  <2>2. CASE wire' = wire
    BY <1>1, <1>2, <1>14, <2>1, <2>2 DEF C!LoginElsewhere
  <2>3. CASE wire' # wire
    <3>1. wire' = wire \o <<"kicked", "bye">> /\ sock.state = "accepted"
          /\ sock' = [sock EXCEPT !.state = "refused"]
      BY <1>14, <2>3 DEF C!LoginElsewhere
    <3>2. wire' \in Seq({"kicked", "bye"})
      BY <1>1, <3>1, ConcatProperties
    <3>3. QED BY <1>3, <2>1, <3>1, <3>2 DEF State
  <2>4. QED BY <2>2, <2>3
<1>15. CASE UNCHANGED <<session, page, sock, wire>>
  BY <1>1, <1>2, <1>15
<1>16. QED BY <1>6, <1>7, <1>8, <1>9, <1>10, <1>11, <1>12, <1>13, <1>14, <1>15 DEF C!Next, C!vars,
  C!Submit, C!LoginFails, C!LoginRefused, C!Probe, C!Logout, C!Select, C!Close, C!ListTaken,
  C!CallRevoked, C!CallRefused, C!Change, C!ChangeAnswered, C!OpenedAgain, C!ListFails, C!Expire

(* What is under way is asked for by an account or by a session.           *)
LEMMA CallsStayMade ==
  ASSUME ClientTyped, [C!Next]_(C!vars)
  PROVE  CallsAreMade'
<1>1. /\ C!Made \subseteq C!Made' /\ CallsAreMade
      /\ session \in C!Made \cup {None} /\ (page = "auth" <=> session = None)
      /\ sock.token \in {session, None} /\ (sock.token = None <=> sock.state = "none")
  BY ServerStays DEF ClientTyped, SocketIsOwn
<1>2. ASSUME requests' \subseteq requests PROVE CallsAreMade'
  BY <1>1, <1>2 DEF CallsAreMade
<1>3. ASSUME NEW kind, NEW s \in C!Made', requests' \subseteq requests \cup {C!Call(kind, s)}, kind # "login"
      PROVE  CallsAreMade'
  BY <1>1, <1>3 DEF CallsAreMade, C!Call
<1>4. ASSUME NEW a \in Account, C!Submit(a) PROVE CallsAreMade'
  BY <1>1, <1>4 DEF C!Submit, CallsAreMade
<1>5. CASE C!LoginAnswered
  <2>1. PICK c \in requests :
          /\ c.kind = "login" /\ C!Session \ C!Made # {} /\ C!Issue(c.by, C!Next1)
          /\ requests' = (requests \ {c}) \cup {[kind |-> "list", by |-> C!Next1, sent |-> "granted"]}
    BY <1>5 DEF C!LoginAnswered
  <2>2. c.by \in Account /\ ServerTyped
    BY <2>1 DEF ClientTyped, CallsAreMade
  <2>3. C!Next1 \in C!Made'
    BY <2>1, <2>2, Issued
  <2> DEFINE next == [kind |-> "list", by |-> C!Next1, sent |-> "granted"]
  <2>4. next.kind = "list" /\ next.by \in C!Made' /\ requests' = (requests \ {c}) \cup {next}
    BY <2>1, <2>3
  <2> HIDE DEF next
  <2>5. QED BY <1>1, <2>4 DEF CallsAreMade
<1>6. CASE C!OpenMain
  <2>1. session \in C!Made' /\ requests' = requests \cup {C!Call("list", session)}
    BY <1>1, <1>6 DEF C!OpenMain, C!List
  <2>2. QED BY <1>3, <2>1
<1>7. CASE C!SocketOpens
  <2>1. session \in C!Made' /\ requests' \subseteq requests \cup {C!Call("list", session)}
    BY <1>1, <1>7 DEF C!SocketOpens, C!List
  <2>2. QED BY <1>3, <2>1
<1>8. CASE C!Logout
  <2>1. PICK kind \in Presses : requests' = requests \cup {C!Call(kind, session)}
    BY <1>8 DEF C!Logout
  <2>2. session \in C!Made' /\ kind # "login"
    BY <1>1, <1>8, <2>1, PressesAssumption DEF C!Logout
  <2>3. QED BY <1>3, <2>1, <2>2
<1>9. CASE C!Change
  <2>1. session \in C!Made' /\ requests' = requests \cup {C!Call("change", session)}
    BY <1>1, <1>9 DEF C!Change
  <2>2. QED BY <1>3, <2>1
<1>10. CASE C!ChangeAnswered
  <2>1. PICK c \in requests :
          /\ c.kind = "change"
          /\ requests' \subseteq requests \cup {[kind |-> "opened", by |-> c.by, sent |-> "granted"]}
    BY <1>10 DEF C!ChangeAnswered
  <2>2. c.by \in C!Made'
    BY <1>1, <2>1 DEF CallsAreMade
  <2> DEFINE next == [kind |-> "opened", by |-> c.by, sent |-> "granted"]
  <2>3. next.by = c.by /\ next.kind # "login" /\ requests' \subseteq requests \cup {next}
    BY <2>1
  <2> HIDE DEF next
  <2>4. QED BY <1>1, <2>2, <2>3 DEF CallsAreMade
<1>11. CASE requests' \subseteq requests
  BY <1>2, <1>11
<1>12. QED BY <1>4, <1>5, <1>6, <1>7, <1>8, <1>9, <1>10, <1>11 DEF C!Next, C!vars, C!LoginElsewhere,
  C!LoginFails, C!LoginRefused, C!Probe, C!OpenSettings, C!LogoutAnswered, C!Confirm, C!Select,
  C!Close, C!ListTaken, C!CallRevoked, C!CallRefused, C!OpenedAgain, C!ListFails, C!Judge,
  C!SocketLost, C!SocketFails, C!Retry, C!Receive, C!Expire

(* The list and the cache hold conversations of accounts.                  *)
LEMMA ListsStayTyped ==
  ASSUME ClientTyped, [C!Next]_(C!vars)
  PROVE  ListsTyped'
<1>1. /\ list \subseteq Account /\ cached \subseteq Account
      /\ stale \in BOOLEAN /\ taken \in BOOLEAN /\ replaced \in BOOLEAN
      /\ fromCache \in BOOLEAN /\ blamed \in BOOLEAN
      /\ owner \in [C!Session -> Account \cup {None}] /\ CallsAreMade
  BY DEF ClientTyped, ListsTyped, ServerTyped
<1>2. list' \subseteq Account /\ cached' \subseteq Account
  <2>1. CASE C!ListTaken
    <3>1. PICK c \in requests : /\ c.kind = "list"
            /\ list' = {owner[c.by]} \cup (IF opened \in list THEN {opened} ELSE {})
            /\ cached' = cached \cup list'
      BY <2>1 DEF C!ListTaken
    <3>2. owner[c.by] \in Account
      BY <1>1, <3>1 DEF CallsAreMade, C!Made
    <3>3. QED BY <1>1, <3>1, <3>2
  <2>2. CASE C!ListFails
    BY <1>1, <2>2 DEF C!ListFails
  <2>3. CASE C!ChangeAnswered \/ C!OpenedAgain
    <3>1. PICK c \in requests : c.kind \in {"change", "opened"} /\ C!Put(c)
      BY <2>3 DEF C!ChangeAnswered, C!OpenedAgain
    <3>2. owner[c.by] \in Account
      BY <1>1, <3>1 DEF CallsAreMade, C!Made
    <3>3. QED BY <1>1, <3>1, <3>2 DEF C!Put
  <2>4. CASE UNCHANGED <<list, cached>>
    BY <1>1, <2>4
  <2>5. QED BY <2>1, <2>2, <2>3, <2>4 DEF C!Next, C!vars, C!view, C!Submit, C!LoginElsewhere, C!LoginAnswered,
    C!LoginFails, C!LoginRefused, C!Probe, C!OpenSettings, C!OpenMain, C!Logout, C!LogoutAnswered,
    C!Confirm, C!Select, C!Close, C!CallRevoked, C!CallRefused, C!Change, C!SocketOpens, C!Judge,
    C!SocketLost, C!SocketFails, C!Retry, C!Receive, C!Expire
<1>3. replaced' \in BOOLEAN /\ stale' \in BOOLEAN
  <2>1. ASSUME NEW c, C!Replaced(c) PROVE replaced' \in BOOLEAN /\ stale' \in BOOLEAN
    BY <1>1, <2>1 DEF C!Replaced
  <2>2. CASE C!LogoutAnswered
    BY <1>1, <2>1, <2>2 DEF C!LogoutAnswered
  <2>3. CASE C!CallRevoked
    BY <2>1, <2>3 DEF C!CallRevoked
  <2>4. CASE C!Receive
    BY <1>1, <2>4 DEF C!Receive, C!past
  <2>5. CASE replaced' \in {replaced, FALSE} /\ stale' \in {stale, FALSE}
    BY <1>1, <2>5
  <2>6. QED BY <2>2, <2>3, <2>4, <2>5 DEF C!Next, C!vars, C!past, C!Submit, C!LoginElsewhere,
    C!LoginAnswered, C!LoginFails, C!LoginRefused, C!Probe, C!OpenSettings, C!OpenMain, C!Logout,
    C!Confirm, C!Select, C!Close, C!ListTaken, C!CallRefused, C!Change, C!ChangeAnswered,
    C!OpenedAgain, C!ListFails, C!SocketOpens, C!Judge, C!SocketLost, C!SocketFails, C!Retry,
    C!Expire
<1>4. taken' \in BOOLEAN /\ fromCache' \in BOOLEAN /\ blamed' \in BOOLEAN
  <2>1. CASE C!ListTaken
    BY <1>1, <2>1 DEF C!ListTaken
  <2>2. CASE C!LoginAnswered \/ C!OpenMain
    BY <1>1, <2>2 DEF C!LoginAnswered, C!OpenMain, C!Connect, C!view
  <2>3. CASE C!ListFails \/ C!LoginFails
    BY <1>1, <2>3 DEF C!ListFails, C!LoginFails, C!view
  <2>4. CASE C!SocketOpens
    BY <1>1, <2>4 DEF C!SocketOpens, C!view
  <2>5. CASE UNCHANGED <<taken, fromCache, blamed>>
    BY <1>1, <2>5
  <2>6. QED BY <2>1, <2>2, <2>3, <2>4, <2>5 DEF C!Next, C!vars, C!view, C!past, C!Submit,
    C!LoginElsewhere, C!LoginRefused, C!Probe, C!OpenSettings, C!Logout, C!LogoutAnswered,
    C!Confirm, C!Leave, C!Disconnect, C!Select, C!Close, C!CallRevoked, C!CallRefused, C!Change,
    C!ChangeAnswered, C!OpenedAgain, C!Judge, C!SocketLost, C!SocketFails, C!Retry, C!Receive,
    C!Expire
<1>5. QED BY <1>2, <1>3, <1>4 DEF ListsTyped

LEMMA ClientStaysTyped == ClientTyped /\ [C!Next]_(C!vars) => ClientTyped'
  BY ServerStays, SocketStaysOwn, CallsStayMade, ListsStayTyped DEF ClientTyped

-----------------------------------------------------------------------------
(* What the client shows of its session                                    *)

(* A kick is told to the session that a login has revoked.                 *)
LEMMA KicksStayTrue ==
  ASSUME ClientTyped, KickedIsDead, [C!Next]_(C!vars)
  PROVE  KickedIsDead'
<1>1. /\ \A s \in C!Made : owner'[s] = owner[s] /\ (s \in alive' => s \in alive)
      /\ wire \in Seq({"kicked", "bye"})
      /\ session \in C!Made \cup {None} /\ sock.token \in {session, None}
      /\ (sock.token = None <=> sock.state = "none")
  BY ServerStays DEF ClientTyped, SocketIsOwn
<1>2. None \notin alive' /\ None \notin alive
  <2>1. alive' \subseteq C!Made' /\ alive \subseteq C!Made
    BY ServerStays DEF ServerTyped, ClientTyped
  <2>2. None \notin C!Session
    BY NoneAssumption DEF C!Session
  <2>3. C!Made \subseteq C!Session /\ C!Made' \subseteq C!Session
    BY DEF C!Made, C!Session
  <2>4. QED BY <2>1, <2>2, <2>3
<1>3. session \in alive' => session \in alive
  BY <1>1, <1>2
<1>4. CASE wire' = <<>>
  BY <1>4 DEF KickedIsDead
<1>5. CASE UNCHANGED <<session, wire>>
  BY <1>3, <1>5 DEF KickedIsDead
<1>6. CASE C!Judge
  <2>1. wire' = wire \/ wire' = Append(wire, "bye")
    BY <1>6 DEF C!Judge
  <2>2. session' = session
    BY <1>6 DEF C!Judge
  <2>3. \A i \in DOMAIN wire' : wire'[i] = "kicked" => i \in DOMAIN wire /\ wire[i] = "kicked"
    BY <1>1, <2>1
  <2>4. QED BY <1>3, <2>2, <2>3 DEF KickedIsDead
<1>7. CASE C!Receive
  <2>1. wire # <<>> /\ wire' = Tail(wire) /\ session' = session
    BY <1>7 DEF C!Receive
  <2>2. \A i \in DOMAIN wire' : i + 1 \in DOMAIN wire /\ wire'[i] = wire[i + 1]
    BY <1>1, <2>1
  <2>3. QED BY <1>3, <2>1, <2>2 DEF KickedIsDead
<1>8. ASSUME NEW a \in Account, C!LoginElsewhere(a) PROVE KickedIsDead'
  <2>1. session' = session
    BY <1>8 DEF C!LoginElsewhere
  <2>2. CASE sock.state = "accepted" /\ owner[sock.token] = a
    <3>1. session \in C!Made /\ owner[session] = a
      BY <1>1, <2>2
    <3>2. session \notin alive'
      BY <1>8, <3>1, Issued DEF C!LoginElsewhere, ClientTyped
    <3>3. QED BY <2>1, <3>2 DEF KickedIsDead
  <2>3. CASE ~(sock.state = "accepted" /\ owner[sock.token] = a)
    BY <1>5, <1>8, <2>1, <2>3 DEF C!LoginElsewhere
  <2>4. QED BY <2>2, <2>3
<1>9. QED BY <1>4, <1>5, <1>6, <1>7, <1>8 DEF C!Next, C!vars, C!Submit, C!LoginAnswered, C!LoginFails,
  C!LoginRefused, C!Probe, C!OpenSettings, C!OpenMain, C!Logout, C!LogoutAnswered, C!Confirm,
  C!Leave, C!Disconnect, C!Connect, C!Select, C!Close, C!ListTaken, C!CallRevoked, C!CallRefused,
  C!Change, C!ChangeAnswered, C!OpenedAgain, C!ListFails, C!SocketOpens, C!SocketLost,
  C!SocketFails, C!Retry, C!Expire

(* The dialog opens for a session that was revoked, or for a stale answer. *)
LEMMA DialogStaysTrue ==
  ASSUME ClientTyped, KickedIsDead, ReplacedIsTrue, [C!Next]_(C!vars)
  PROVE  ReplacedIsTrue'
<1>1. /\ \A s \in C!Made : owner'[s] = owner[s] /\ (s \in alive' => s \in alive)
      /\ wire \in Seq({"kicked", "bye"})
      /\ session \in C!Made \cup {None}
      /\ replaced \in BOOLEAN /\ stale \in BOOLEAN
  BY ServerStays DEF ClientTyped, SocketIsOwn, ListsTyped
<1>2. replaced /\ session # None => session \notin alive \/ stale
  BY DEF ReplacedIsTrue, C!ReplacedIsTrue
<1>3. SUFFICES ASSUME replaced', session' # None PROVE session' \notin alive' \/ stale'
  BY DEF ReplacedIsTrue, C!ReplacedIsTrue
<1>4. ASSUME NEW c, C!Revoked(c), C!Replaced(c), session' = session
      PROVE  session' \notin alive' \/ stale'
  BY <1>1, <1>3, <1>4 DEF C!Revoked, C!Replaced
<1>5. CASE C!LoginAnswered
  BY <1>3, <1>5 DEF C!LoginAnswered
<1>6. CASE C!LogoutAnswered \/ C!Confirm
  BY <1>3, <1>6 DEF C!LogoutAnswered, C!Confirm, C!Leave
<1>7. CASE C!CallRevoked
  BY <1>4, <1>7 DEF C!CallRevoked
<1>8. CASE C!Receive
  <2>1. /\ wire # <<>> /\ session' = session /\ stale' = stale /\ alive' = alive
        /\ Head(wire) = "kicked" \/ replaced' = replaced
    BY <1>8 DEF C!Receive, C!server, C!past
  <2>2. CASE Head(wire) = "kicked"
    <3>1. 1 \in DOMAIN wire /\ wire[1] = "kicked"
      BY <1>1, <2>1, <2>2
    <3>2. QED BY <2>1, <3>1 DEF KickedIsDead
  <2>3. CASE replaced' = replaced
    BY <1>2, <1>3, <2>1, <2>3
  <2>4. QED BY <2>1, <2>2, <2>3
<1>9. CASE UNCHANGED <<session, replaced, stale>>
  BY <1>1, <1>2, <1>3, <1>9
<1>10. QED BY <1>5, <1>6, <1>7, <1>8, <1>9 DEF C!Next, C!vars, C!past, C!Submit, C!LoginElsewhere,
  C!LoginFails, C!LoginRefused, C!Probe, C!OpenSettings, C!OpenMain, C!Logout, C!Select, C!Close,
  C!ListTaken, C!CallRefused, C!Change, C!ChangeAnswered, C!OpenedAgain, C!ListFails, C!SocketOpens,
  C!Judge, C!SocketLost, C!SocketFails, C!Retry, C!Expire

(* Whoever writes the status of the main page writes what its socket is,   *)
(* but for the calls that fail.                                            *)
LEMMA StatusStaysTrue ==
  ASSUME ClientTyped, StatusIsTrue, [C!Next]_(C!vars)
  PROVE  StatusIsTrue'
<1>1. /\ page = "main" =>
           /\ status = "online" => sock.state \in {"open", "accepted", "refused"}
           /\ status # "online" /\ sock.state \in {"open", "accepted"} => blamed
      /\ sock \in [token : C!Session \cup {None}, state : State]
  BY DEF StatusIsTrue, ClientTyped, SocketIsOwn
<1>2. ASSUME UNCHANGED <<page, status, blamed>>, NEW state \in State, sock' = [sock EXCEPT !.state = state],
             \/ state = sock.state
             \/ sock.state = "open" /\ state \in {"accepted", "refused"}
             \/ sock.state = "accepted" /\ state = "refused"
      PROVE  StatusIsTrue'
  <2>1. sock'.state = state
    BY <1>1, <1>2
  <2>2. QED BY <1>1, <1>2, <2>1 DEF StatusIsTrue
<1>3. CASE page' # "main"
  BY <1>3 DEF StatusIsTrue
<1>4. ASSUME NEW s, C!Connect(s) PROVE StatusIsTrue'
  BY <1>4 DEF C!Connect, StatusIsTrue
<1>5. CASE C!LoginFails \/ C!ListFails
  BY <1>5 DEF C!LoginFails, C!ListFails, StatusIsTrue
<1>6. CASE \E result \in {"connecting", "online", "reconnecting"} : C!Probe(result)
  BY <1>3, <1>6 DEF C!Probe
<1>7. CASE C!SocketOpens
  <2>1. sock'.state = "open"
    BY <1>1, <1>7 DEF C!SocketOpens
  <2>2. QED BY <1>7, <2>1 DEF C!SocketOpens, StatusIsTrue
<1>8. CASE C!Judge
  <2>1. PICK state \in {"accepted", "refused"} : sock' = [sock EXCEPT !.state = state]
    BY <1>8 DEF C!Judge
  <2>2. UNCHANGED <<page, status, blamed>> /\ sock.state = "open" /\ state \in State
    BY <1>8, <2>1 DEF C!Judge, C!past, State
  <2>3. QED BY <1>2, <2>1, <2>2
<1>9. CASE C!SocketLost \/ C!SocketFails \/ C!Retry
  <2>1. sock'.state \in {"lost", "opening"} /\ status' # "online"
    BY <1>1, <1>9 DEF C!SocketLost, C!SocketFails, C!Retry
  <2>2. QED BY <2>1 DEF StatusIsTrue
<1>10. CASE C!Receive
  <2>1. CASE Head(wire) = "kicked"
    BY <1>1, <1>10, <2>1 DEF C!Receive, C!past, StatusIsTrue
  <2>2. CASE Head(wire) # "kicked"
    <3>1. sock'.state = "gone" /\ status' = "reconnecting"
      BY <1>1, <1>10, <2>2 DEF C!Receive
    <3>2. QED BY <3>1 DEF StatusIsTrue
  <2>3. QED BY <2>1, <2>2
<1>11. ASSUME NEW a \in Account, C!LoginElsewhere(a) PROVE StatusIsTrue'
  <2>1. UNCHANGED <<page, status, blamed>>
    BY <1>11 DEF C!LoginElsewhere, C!past
  <2>2. CASE sock' = sock
    BY <1>1, <2>1, <2>2 DEF StatusIsTrue
  <2>3. CASE sock' # sock
    <3>1. sock' = [sock EXCEPT !.state = "refused"] /\ sock.state = "accepted"
      BY <1>11, <2>3 DEF C!LoginElsewhere
    <3>2. QED BY <1>2, <2>1, <3>1 DEF State
  <2>4. QED BY <2>2, <2>3
<1>12. CASE UNCHANGED <<page, status, blamed, sock>>
  BY <1>1, <1>12 DEF StatusIsTrue
<1>13. CASE C!LoginAnswered \/ C!OpenMain
  BY <1>4, <1>13 DEF C!LoginAnswered, C!OpenMain
<1>14. QED BY <1>3, <1>5, <1>6, <1>7, <1>8, <1>9, <1>10, <1>11, <1>12, <1>13 DEF C!Next, C!vars, C!past,
  C!Submit, C!LoginRefused, C!OpenSettings, C!Logout, C!LogoutAnswered, C!Confirm, C!Leave,
  C!Select, C!Close, C!ListTaken, C!CallRevoked, C!CallRefused, C!Change, C!ChangeAnswered,
  C!OpenedAgain, C!Expire

(* A list that is taken keeps, beside its own, only what is selected, and  *)
(* gets of others only what an earlier session is answered late.           *)
LEMMA ListStaysOwn ==
  ASSUME ClientTyped, SelectedIsVisited, ShownIsOwn, [C!Next]_(C!vars)
  PROVE  SelectedIsVisited' /\ ShownIsOwn'
<1>1. /\ \A s \in C!Made : owner'[s] = owner[s]
      /\ session \in C!Made \cup {None}
      /\ list \subseteq Account /\ None \notin Account
      /\ taken \in BOOLEAN /\ fromCache \in BOOLEAN
  BY ServerStays, AccountAssumption DEF ClientTyped, SocketIsOwn, ListsTyped
<1>2. /\ session # None => opened \in visited \cup {None}
      /\ session # None /\ taken /\ ~fromCache => list \subseteq {owner[session]} \cup visited \cup belated
  BY DEF SelectedIsVisited, ShownIsOwn, C!ShownIsOwn
<1>3. CASE session' = None
  BY <1>3 DEF SelectedIsVisited, ShownIsOwn, C!ShownIsOwn
<1>4. CASE C!LoginAnswered
  BY <1>4 DEF C!LoginAnswered, C!view, SelectedIsVisited, ShownIsOwn, C!ShownIsOwn
<1>5. CASE C!Select
  BY <1>1, <1>2, <1>5 DEF C!Select, C!server, SelectedIsVisited, ShownIsOwn, C!ShownIsOwn
<1>6. CASE C!Close
  BY <1>1, <1>2, <1>6 DEF C!Close, C!server, C!past, SelectedIsVisited, ShownIsOwn, C!ShownIsOwn
<1>7. CASE C!ListTaken
  <2>1. PICK c \in requests : /\ list' = {owner[c.by]} \cup (IF opened \in list THEN {opened} ELSE {})
                              /\ taken' = (session = c.by) /\ belated' = {}
    BY <1>7 DEF C!ListTaken
  <2>2. UNCHANGED <<owner, session, opened, visited>>
    BY <1>7 DEF C!ListTaken, C!server
  <2>3. opened \in list => opened # None
    BY <1>1
  <2>4. session # None /\ taken' => list' \subseteq {owner[session]} \cup visited
    BY <1>2, <2>1, <2>3
  <2>5. QED BY <1>2, <2>2, <2>4 DEF SelectedIsVisited, ShownIsOwn, C!ShownIsOwn
<1>8. CASE C!ListFails
  <2>1. /\ UNCHANGED <<owner, session, opened, visited, belated, taken>>
        /\ fromCache' = TRUE \/ UNCHANGED <<list, fromCache>>
    BY <1>8 DEF C!ListFails, C!server
  <2>2. QED BY <1>2, <2>1 DEF SelectedIsVisited, ShownIsOwn, C!ShownIsOwn
<1>9. CASE C!ChangeAnswered \/ C!OpenedAgain
  <2>1. PICK c \in requests : C!Put(c)
    BY <1>9 DEF C!ChangeAnswered, C!OpenedAgain
  <2>2. /\ UNCHANGED <<owner, session, taken, fromCache>> /\ visited \subseteq visited'
        /\ opened' = opened \/ opened' \in visited'
    BY <1>9 DEF C!ChangeAnswered, C!OpenedAgain, C!SelectPut, C!server
  <2>3. list' \subseteq list \cup {owner[session]} \cup belated' /\ belated \subseteq belated'
    BY <2>1 DEF C!Put
  <2>4. QED BY <1>2, <2>2, <2>3 DEF SelectedIsVisited, ShownIsOwn, C!ShownIsOwn
<1>10. CASE UNCHANGED <<session, list, opened, fromCache, taken, visited, belated>>
  BY <1>1, <1>2, <1>10 DEF SelectedIsVisited, ShownIsOwn, C!ShownIsOwn
<1>11. QED BY <1>3, <1>4, <1>5, <1>6, <1>7, <1>8, <1>9, <1>10 DEF C!Next, C!vars, C!view, C!past, C!Submit,
  C!LoginElsewhere, C!LoginFails, C!LoginRefused, C!Probe, C!OpenSettings, C!OpenMain, C!Logout,
  C!LogoutAnswered, C!Confirm, C!Leave, C!CallRevoked, C!CallRefused, C!Change, C!SocketOpens, C!Judge,
  C!SocketLost, C!SocketFails, C!Retry, C!Receive, C!Expire

(* The inductive invariant of the client's session holds in every          *)
(* reachable state.                                                        *)
THEOREM SessionInvariant == C!Spec => []ClientInv
<1>1. C!Init => ClientInv
  <2> SUFFICES ASSUME C!Init PROVE ClientInv
    OBVIOUS
  <2>1. owner \in [C!Session -> Account \cup {None}] /\ C!Made = {}
    BY DEF C!Init, C!Made
  <2>2. MadeInOrder
    <3>1. 0 \in 0 .. MaxLogins /\ 1 .. 0 = {}
      BY LoginsAssumption
    <3>2. QED BY <2>1, <3>1 DEF MadeInOrder
  <2>3. ServerTyped
    BY <2>1, <2>2 DEF ServerTyped, C!Init
  <2>4. SocketIsOwn
    BY DEF SocketIsOwn, C!Init, C!NoSocket, State
  <2>5. CallsAreMade /\ ListsTyped
    BY DEF CallsAreMade, ListsTyped, C!Init
  <2>6. KickedIsDead /\ ReplacedIsTrue /\ StatusIsTrue /\ SelectedIsVisited /\ ShownIsOwn
    BY DEF KickedIsDead, ReplacedIsTrue, C!ReplacedIsTrue, StatusIsTrue, SelectedIsVisited,
           ShownIsOwn, C!ShownIsOwn, C!Init
  <2>7. QED BY <2>3, <2>4, <2>5, <2>6 DEF ClientInv, ClientTyped
<1>2. ClientInv /\ [C!Next]_(C!vars) => ClientInv'
  BY ClientStaysTyped, KicksStayTrue, DialogStaysTrue, StatusStaysTrue, ListStaysOwn DEF ClientInv
<1>3. QED BY <1>1, <1>2, PTL DEF C!Spec

(* The dialog that says the session was replaced is right, but for the     *)
(* stale answers: over any number of logins, logouts and calls under way.  *)
THEOREM DialogIsTrue == C!Spec => []ReplacedIsTrue
<1>1. ClientInv => ReplacedIsTrue
  BY DEF ClientInv
<1>2. QED BY <1>1, SessionInvariant, PTL

(* The main page never says online without a socket of its session, and    *)
(* says otherwise of an accepted socket only for a call that failed.       *)
THEOREM StatusIsRight == C!Spec => []StatusIsTheSockets
<1>1. ClientInv => StatusIsTheSockets
  BY DEF ClientInv, ClientTyped, SocketIsOwn, StatusIsTrue, StatusIsTheSockets, C!StatusIsTheSockets
<1>2. QED BY <1>1, SessionInvariant, PTL

(* What is left of an earlier login in the list is what was selected, or   *)
(* what that login had opened or changed and was answered since.           *)
THEOREM ListIsOwn == C!Spec => []ShownIsOwn
<1>1. ClientInv => ShownIsOwn
  BY DEF ClientInv
<1>2. QED BY <1>1, SessionInvariant, PTL

-----------------------------------------------------------------------------
(* What a client shows: Contacts                                           *)

Id     == 0 .. acts + 1
Shown  == [id : Nat, state : {"none", "incoming", "outgoing", "answered"}]
Op     == {"accept", "reject", "ask", "clear", "delete", "menu"}
Fetch  == [of : K!Copy \cup {"gone"}, newest : BOOLEAN, first : BOOLEAN, by : Op \cup {"no"},
           request : Shown \cup {None}, friend : Nat \cup {None}]
Action   == [n : Nat, op : Op, target : Nat, here : BOOLEAN, at : {"asked", "done", "refused"}]

ContactsTyped ==
  /\ acts \in Nat /\ hints \in Nat /\ line \in {"none", "open", "served"} /\ online \in BOOLEAN
  /\ request \in Shown /\ onPage \in [request : Shown, friend : Nat]
  /\ friendship \in Nat /\ friend \in Nat
  /\ followed \subseteq K!Copy /\ fetches \subseteq Fetch /\ actions \subseteq Action

(* A connection is there before hints, and with the status.                *)
ConnectionIsTold == (line # "served" => hints = 0) /\ (line = "none" => ~online)

(* Copies are fetched for whoever looks at them.                           *)
PageIsThere ==
  /\ mounted => "page" \in followed
  /\ \A f \in fetches : f.of = "page" => mounted
  /\ \A c \in actions : c.here => mounted
FollowedAreFetched ==
  /\ fresh \subseteq followed
  /\ \A f \in fetches : f.of \in followed \cup {"gone"}

(* What a call would make a friendship with is not one yet.                *)
SeenIds ==
  {friendship, friend, onPage.friend}
    \cup {f.friend : f \in {g \in fetches : g.friend # None}}
    \cup {c.target : c \in {d \in actions : d.op = "menu"}}
IdsAreNew ==
  /\ SeenIds \subseteq Id
  /\ \A c \in actions : c.n \in 2 .. acts + 1 /\ (c.op = "menu" => c.target # 0)
  /\ \A c \in actions : c.at = "asked" => c.n \notin SeenIds
  /\ \A c, d \in actions : c.n = d.n => c = d
MenuHasDeleted == \A c \in actions : c.op = "menu" /\ c.at = "done" => friendship # c.target

(* Unless a hint is coming, or it was not told, a copy that has the answer *)
(* to its latest fetch is right, and such an answer will be.               *)
CountIsKnown ==
  "count" \notin lost /\ hints = 0 =>
    /\ "count" \in fresh => count = K!Waits(request)
    /\ \A f \in fetches : f.of = "count" /\ f.newest =>
         f.request = None \/ K!Waits(f.request) = K!Waits(request)
ListIsKnown ==
  "list" \notin lost /\ hints = 0 =>
    /\ "list" \in fresh => friend = friendship \/ vouched
    /\ \A f \in fetches : f.of = "list" /\ f.newest => f.friend \in {None, friendship}
PageFriendsAreKnown ==
  mounted /\ "page" \notin lost /\ hints = 0 /\ (line = "none" => "list" \notin lost) =>
    /\ "page" \in fresh => onPage.friend = friendship
    /\ \A f \in fetches : f.of = "page" /\ f.newest => f.friend \in {None, friendship}
Clearing == \E c \in actions : c.here /\ c.op = "clear" /\ c.at = "done"
PageRequestsAreKnown ==
  mounted /\ "page" \notin lost /\ hints = 0 /\ line # "none" /\ ~Clearing =>
    /\ "page" \in fresh => onPage.request = request
    /\ \A f \in fetches : f.of = "page" /\ f.newest => f.request \in {None, request}

ContactsInv ==
  /\ ContactsTyped /\ ConnectionIsTold /\ PageIsThere /\ FollowedAreFetched
  /\ IdsAreNew /\ MenuHasDeleted
  /\ CountIsKnown /\ ListIsKnown /\ PageFriendsAreKnown /\ PageRequestsAreKnown

(* A fetch that is begun knows nothing yet; the others are not the newest  *)
(* of their copies any more.                                               *)
FetchesAre(fs, copies) ==
  \A f \in fetches' :
    \/ f.of \in copies /\ f.request = None /\ f.friend = None
    \/ \E g \in fs : /\ f.of = g.of /\ f.request = g.request /\ f.friend = g.friend
                     /\ f.newest => g.newest /\ g.of \notin copies

LEMMA Begun ==
  ASSUME NEW fs, fs \subseteq Fetch, NEW copies, copies \subseteq K!Copy, NEW by \in Op \cup {"no"},
         NEW untold, K!Begin(fs, copies, by, untold)
  PROVE  /\ fetches' \subseteq Fetch /\ FetchesAre(fs, copies)
         /\ fresh' = fresh \ copies /\ lost' = (lost \cup untold) \ copies
<1>1. \A f \in fs : [f EXCEPT !.newest = f.newest /\ f.of \notin copies] \in Fetch
  BY DEF Fetch
<1>2. \A c \in copies : K!Fetch(c, FALSE, IF c = "page" THEN by ELSE "no") \in Fetch
  BY DEF K!Fetch, Fetch
<1>3. \A f \in fetches' :
        \/ \E g \in fs : f = [g EXCEPT !.newest = g.newest /\ g.of \notin copies]
        \/ \E c \in copies : f = K!Fetch(c, FALSE, IF c = "page" THEN by ELSE "no")
  BY DEF K!Begin
<1>4. fetches' \subseteq Fetch
  BY <1>1, <1>2, <1>3
<1>5. FetchesAre(fs, copies)
  <2> SUFFICES ASSUME NEW f \in fetches'
               PROVE  \/ f.of \in copies /\ f.request = None /\ f.friend = None
                      \/ \E g \in fs : /\ f.of = g.of /\ f.request = g.request /\ f.friend = g.friend
                                       /\ f.newest => g.newest /\ g.of \notin copies
    BY DEF FetchesAre
  <2>1. CASE \E g \in fs : f = [g EXCEPT !.newest = g.newest /\ g.of \notin copies]
    BY <2>1 DEF Fetch
  <2>2. CASE \E c \in copies : f = K!Fetch(c, FALSE, IF c = "page" THEN by ELSE "no")
    BY <2>2 DEF K!Fetch
  <2>3. QED BY <1>3, <2>1, <2>2
<1>6. QED BY <1>4, <1>5 DEF K!Begin

(* A fetch that ends makes its copy fresh if it is the newest, or has      *)
(* others begun.                                                           *)
LEMMA Ended ==
  ASSUME ContactsTyped, NEW f \in fetches, K!Ends(f), FollowedAreFetched
  PROVE  /\ fetches' \subseteq Fetch
         /\ \/ /\ fetches' = fetches \ {f} /\ lost' = lost
               /\ fresh' = IF f.newest THEN fresh \cup {f.of} ELSE fresh \ {f.of}
            \/ /\ FetchesAre(fetches \ {f}, K!Listeners)
               /\ fresh' = fresh \ K!Listeners /\ lost' = lost \ K!Listeners
<1>1. fetches \subseteq Fetch
  BY DEF ContactsTyped
<1>2. CASE f.by \in {"no", "clear"}
  BY <1>1, <1>2 DEF K!Ends
<1>3. CASE f.by \notin {"no", "clear"}
  <2>1. K!Begin(fetches \ {f}, K!Listeners, "no", {})
    BY <1>3 DEF K!Ends
  <2>2. K!Listeners \subseteq K!Copy
    BY DEF ContactsTyped, K!Listeners
  <2> DEFINE others == fetches \ {f}
             whom == K!Listeners
             untold == {}
  <2>3. others \subseteq Fetch /\ whom \subseteq K!Copy /\ K!Begin(others, whom, "no", untold)
    BY <1>1, <2>1, <2>2
  <2> HIDE DEF others, whom, untold
  <2>4. fetches' \subseteq Fetch /\ FetchesAre(others, whom)
        /\ fresh' = fresh \ whom /\ lost' = (lost \cup untold) \ whom
    BY <2>3, Begun
  <2>5. QED BY <2>4 DEF others, whom, untold
<1>4. QED BY <1>2, <1>3

-----------------------------------------------------------------------------
(* Types                                                                   *)

LEMMA FetchesStayTyped ==
  ASSUME ContactsTyped, FollowedAreFetched, [K!Next]_(K!vars)
  PROVE  fetches' \subseteq Fetch
<1>1. fetches \subseteq Fetch /\ actions \subseteq Action /\ request \in Shown /\ friendship \in Nat
      /\ followed \subseteq K!Copy
  BY DEF ContactsTyped
<1>2. ASSUME NEW fs \in SUBSET Fetch, NEW copies \in SUBSET K!Copy, NEW by \in Op \cup {"no"},
             NEW untold, K!Begin(fs, copies, by, untold)
      PROVE  fetches' \subseteq Fetch
  BY <1>2, Begun
<1>3. K!Listeners \subseteq K!Copy /\ {"page"} \subseteq K!Copy /\ {} \subseteq K!Copy /\ "no" \in Op \cup {"no"}
  BY <1>1 DEF K!Listeners, K!Copy
<1>4. ASSUME NEW f \in fetches, K!ReadRequests(f) \/ K!ReadFriends(f) PROVE fetches' \subseteq Fetch
  BY <1>1, <1>4 DEF K!ReadRequests, K!ReadFriends, Fetch
<1>5. ASSUME NEW f \in fetches, K!ApplyPage(f) \/ K!ApplyCount(f) \/ K!ApplyList(f)
      PROVE  fetches' \subseteq Fetch
  BY <1>5, Ended DEF K!ApplyPage, K!ApplyCount, K!ApplyList
<1>6. ASSUME NEW f \in fetches, K!ApplyNowhere(f) \/ K!FetchFails(f) PROVE fetches' \subseteq Fetch
  <2>1. CASE K!Begin(fetches \ {f}, K!Listeners, "no", {})
    BY <1>1, <1>2, <1>3, <2>1
  <2>2. CASE fetches' = fetches \ {f}
    BY <1>1, <2>2
  <2>3. QED BY <1>6, <2>1, <2>2 DEF K!ApplyNowhere, K!FetchFails
<1>7. ASSUME NEW c \in actions, K!Answered(c) PROVE fetches' \subseteq Fetch
  <2>1. c.op \in Op \cup {"no"}
    BY <1>1 DEF Action
  <2>2. CASE K!Begin(fetches, {"page"}, c.op, {})
    BY <1>1, <1>2, <1>3, <2>1, <2>2
  <2>3. CASE fetches' = fetches \cup {K!Fetch("gone", FALSE, c.op)}
    <3>1. K!Fetch("gone", FALSE, c.op) \in Fetch
      BY <2>1 DEF K!Fetch, Fetch
    <3>2. QED BY <1>1, <2>3, <3>1
  <2>4. CASE fetches' = fetches
    BY <1>1, <2>4
  <2>5. QED BY <1>7, <2>2, <2>3, <2>4 DEF K!Answered, K!known
<1>8. CASE K!TakeHint \/ K!OpenContacts
  BY <1>1, <1>2, <1>3, <1>8 DEF K!TakeHint, K!OpenContacts
<1>9. ASSUME NEW value, NEW untold, K!SetOnline(value, untold) PROVE fetches' \subseteq Fetch
  BY <1>1, <1>2, <1>3, <1>9 DEF K!SetOnline
<1>10. CASE K!Connect \/ K!Drop \/ K!Blame
  BY <1>9, <1>10 DEF K!Connect, K!Drop, K!Blame
<1>11. CASE K!Leave
  <2>1. \A g \in fetches : K!Fetch("gone", FALSE, g.by) \in Fetch
    BY <1>1 DEF K!Fetch, Fetch
  <2>2. QED BY <1>1, <1>11, <2>1 DEF K!Leave
<1>12. CASE fetches' = fetches
  BY <1>1, <1>12
<1>13. QED BY <1>4, <1>5, <1>6, <1>7, <1>8, <1>10, <1>11, <1>12 DEF K!Next, K!vars, K!known,
  K!PeerAsks, K!PeerAnswers, K!PeerDeletes, K!PeerClears, K!PressMenu, K!Press, K!LeaveContacts,
  K!MessageFriend, K!Register, K!Handle, K!Refuse, K!Refused

LEMMA TypesStay ==
  ASSUME ContactsTyped, FollowedAreFetched, [K!Next]_(K!vars)
  PROVE  ContactsTyped'
<1>1. fetches' \subseteq Fetch
  BY FetchesStayTyped
<1>2. /\ acts \in Nat /\ hints \in Nat /\ line \in {"none", "open", "served"} /\ online \in BOOLEAN
      /\ request \in Shown /\ onPage \in [request : Shown, friend : Nat]
      /\ friendship \in Nat /\ friend \in Nat
      /\ followed \subseteq K!Copy /\ fetches \subseteq Fetch /\ actions \subseteq Action
  BY DEF ContactsTyped
<1> DEFINE Typed == /\ acts' \in Nat /\ hints' \in Nat /\ line' \in {"none", "open", "served"} /\ online' \in BOOLEAN
                    /\ request' \in Shown /\ onPage' \in [request : Shown, friend : Nat]
                    /\ friendship' \in Nat /\ friend' \in Nat
                    /\ followed' \subseteq K!Copy /\ actions' \subseteq Action
<1>0. SUFFICES Typed
  BY <1>1 DEF ContactsTyped
<1>3. K!New \in Nat /\ K!NoRow \in Shown /\ K!Blank \in [request : Shown, friend : Nat]
      /\ [id |-> K!New, state |-> "incoming"] \in Shown
  BY <1>2 DEF K!New, K!NoRow, K!Blank, Shown
<1>4. [request EXCEPT !.state = "answered"] \in Shown
  BY <1>2 DEF Shown
<1>5. K!Notify => hints' \in Nat
  BY <1>2 DEF K!Notify
<1>6. CASE K!PeerAsks \/ K!PeerAnswers \/ K!PeerDeletes \/ K!PeerClears
  BY <1>2, <1>3, <1>4, <1>5, <1>6 DEF K!PeerAsks, K!PeerAnswers, K!PeerDeletes, K!PeerClears, K!Act,
    K!Unfriended, K!net, K!page, K!main, K!New
<1>7. ASSUME NEW c \in actions, K!Handle(c) PROVE Typed
  <2>1. [id |-> c.n, state |-> "outgoing"] \in Shown /\ c.n \in Nat /\ c \in Action
    BY <1>2 DEF Action, Shown
  <2>2. [c EXCEPT !.at = "done"] \in Action
    BY <2>1 DEF Action
  <2>3. actions' \subseteq Action
    BY <1>2, <1>7, <2>2 DEF K!Handle, K!Goes
  <2>4. request' \in Shown /\ friendship' \in Nat /\ hints' \in Nat
    BY <1>2, <1>3, <1>4, <1>5, <1>7, <2>1 DEF K!Handle, K!Unfriended
  <2>5. QED BY <1>2, <1>7, <2>3, <2>4 DEF K!Handle, K!net, K!page, K!main, K!bounds
<1>8. ASSUME NEW c \in actions, K!Refuse(c) \/ K!Answered(c) \/ K!Refused(c) PROVE Typed
  <2>1. [c EXCEPT !.at = "refused"] \in Action
    BY <1>2 DEF Action
  <2>2. CASE K!Refuse(c)
    BY <1>2, <2>1, <2>2 DEF K!Refuse, K!Goes, K!server, K!net, K!page, K!main
  <2>3. CASE K!Answered(c)
    <3>1. friend' = friend \/ friend' = 0
      BY <2>3 DEF K!Answered
    <3>2. UNCHANGED <<acts, followed, request, friendship, hints, line, online, onPage>> /\ actions' = actions \ {c}
      BY <2>3 DEF K!Answered, K!server, K!net, K!page, K!bounds
    <3>3. QED BY <1>2, <3>1, <3>2
  <2>4. CASE K!Refused(c)
    BY <1>2, <2>4 DEF K!Refused, K!server, K!net, K!main, K!bounds, K!known
  <2>5. QED BY <1>8, <2>2, <2>3, <2>4
<1>9. ASSUME NEW op \in {"accept", "reject", "ask", "clear", "delete"}, NEW target \in 0 .. MaxActs + 1,
             K!Press(op, target)
      PROVE  Typed
  <2>1. target \in Nat
    BY <1>2, <1>9 DEF K!Press, Shown
  <2>2. [n |-> K!New, op |-> op, target |-> target, here |-> TRUE, at |-> "asked"] \in Action
    BY <1>3, <2>1 DEF Action, Op
  <2>3. actions' \subseteq Action
    BY <1>2, <1>9, <2>2 DEF K!Press
  <2>4. acts' \in Nat /\ followed' = followed
    BY <1>2, <1>9 DEF K!Press, K!Act
  <2>5. UNCHANGED <<request, friendship, hints, line, online, onPage, friend>>
    BY <1>9 DEF K!Press, K!server, K!net, K!main
  <2>6. QED BY <1>2, <2>3, <2>4, <2>5
<1>10. CASE K!PressMenu
  <2>1. [n |-> K!New, op |-> "menu", target |-> friend, here |-> FALSE, at |-> "asked"] \in Action
    BY <1>2, <1>3 DEF Action, Op
  <2>2. actions' \subseteq Action
    BY <1>2, <1>10, <2>1 DEF K!PressMenu
  <2>3. acts' \in Nat /\ followed' = followed
    BY <1>2, <1>10 DEF K!PressMenu, K!Act
  <2>4. UNCHANGED <<request, friendship, hints, line, online, onPage, friend>>
    BY <1>10 DEF K!PressMenu, K!server, K!net, K!page, K!main
  <2>5. QED BY <1>2, <2>2, <2>3, <2>4
<1>11. CASE K!LeaveContacts \/ K!MessageFriend
  <2>1. \A c \in actions : [c EXCEPT !.here = FALSE] \in Action
    BY <1>2 DEF Action
  <2>2. onPage.friend \in Nat
    BY <1>2
  <2>3. QED BY <1>2, <1>3, <1>11, <2>1, <2>2 DEF K!LeaveContacts, K!MessageFriend, K!Leave, K!server, K!net,
    K!main, K!bounds
<1>12. CASE K!TakeHint \/ K!OpenContacts \/ K!Connect \/ K!Register \/ K!Drop \/ K!Blame
  <2>1. CASE K!TakeHint \/ K!OpenContacts \/ K!Register
    BY <1>2, <2>1 DEF K!TakeHint, K!OpenContacts, K!Register, K!server, K!net, K!page, K!main, K!bounds, K!known
  <2>2. CASE K!Connect \/ K!Drop \/ K!Blame
    <3>1. CASE K!Connect
      BY <1>2, <3>1 DEF K!Connect, K!SetOnline, K!server, K!page, K!main, K!bounds
    <3>2. CASE K!Drop
      BY <1>2, <3>2 DEF K!Drop, K!SetOnline, K!server, K!page, K!main
    <3>3. CASE K!Blame
      BY <1>2, <3>3 DEF K!Blame, K!SetOnline, K!server, K!page, K!main
    <3>4. QED BY <2>2, <3>1, <3>2, <3>3
  <2>3. QED BY <1>12, <2>1, <2>2
<1>13. ASSUME NEW f \in fetches, K!ReadRequests(f) \/ K!ReadFriends(f) \/ K!FetchFails(f) \/ K!ApplyNowhere(f)
      PROVE Typed
  BY <1>2, <1>13 DEF K!ReadRequests, K!ReadFriends, K!FetchFails, K!ApplyNowhere, K!server, K!net, K!page,
    K!main, K!bounds
<1>14. ASSUME NEW f \in fetches, K!ApplyPage(f) \/ K!ApplyCount(f) \/ K!ApplyList(f) PROVE Typed
  <2>1. (f.request # None => f.request \in Shown) /\ (f.friend # None => f.friend \in Nat)
    BY <1>2 DEF Fetch
  <2>2. QED BY <1>2, <1>14, <2>1 DEF K!ApplyPage, K!ApplyCount, K!ApplyList, K!server, K!net, K!page,
    K!main, K!bounds
<1>15. CASE UNCHANGED K!vars
  BY <1>2, <1>15 DEF K!vars, K!server, K!net, K!page, K!main, K!bounds, K!known
<1>16. QED BY <1>6, <1>7, <1>8, <1>9, <1>10, <1>11, <1>12, <1>13, <1>14, <1>15 DEF K!Next

-----------------------------------------------------------------------------
(* One step: copies are those whose fetches it begins                      *)

Drops(g, f) ==
  /\ f.of = g.of
  /\ f.request = g.request \/ (g.request = None /\ f.request = request)
  /\ f.friend = g.friend \/ (g.friend = None /\ f.friend = friendship)
FetchesFollow(copies) ==
  \A f \in fetches' :
    /\ f.of = "page" => mounted'
    /\ \/ f.of \in copies \cup {"gone"} /\ f.request = None /\ f.friend = None
       \/ \E g \in fetches : Drops(g, f) /\ (f.newest => g.newest /\ g.of \notin copies)

(* A copy that is fresh was so before, or has the answer now.              *)
Newest(g, copy) == g \in fetches /\ g.of = copy /\ g.newest
CountFollows ==
  "count" \in fresh' =>
    \/ "count" \in fresh /\ count' = count
    \/ \E g \in fetches : Newest(g, "count") /\ g.request # None /\ count' = K!Waits(g.request)
ListFollows ==
  "list" \in fresh' =>
    \/ "list" \in fresh /\ friend' = friend /\ vouched' = vouched
    \/ "list" \in fresh /\ K!MessageFriend
    \/ "list" \in fresh /\ vouched' = vouched /\ \E c \in actions : K!Answered(c) /\ c.op = "menu"
    \/ \E g \in fetches : Newest(g, "list") /\ g.friend # None /\ friend' = g.friend
PageFollows ==
  "page" \in fresh' /\ mounted' =>
    \/ "page" \in fresh /\ mounted /\ onPage' = onPage
    \/ \E g \in fetches : /\ Newest(g, "page") /\ g.request # None /\ g.friend # None
                          /\ mounted /\ onPage' = [request |-> g.request, friend |-> g.friend]

(* What is told of a change                                                *)
CountTold == "count" \notin lost /\ hints = 0
ListTold  == "list" \notin lost /\ hints = 0
FriendTold == mounted /\ "page" \notin lost /\ hints = 0 /\ (line = "none" => "list" \notin lost)
RequestTold == mounted /\ "page" \notin lost /\ hints = 0 /\ line # "none" /\ ~Clearing
TellsFollow(copies) ==
  /\ CountTold' => \/ "count" \in copies \/ "count" \notin followed
                   \/ CountTold /\ K!Waits(request') = K!Waits(request)
  /\ ListTold' => \/ "list" \in copies \/ "list" \notin followed
                  \/ ListTold /\ friendship' = friendship
  /\ FriendTold' => "page" \in copies \/ (FriendTold /\ friendship' = friendship)
  /\ RequestTold' => "page" \in copies \/ (RequestTold /\ request' = request)

StepIs(copies) ==
  /\ copies \subseteq followed /\ followed' = followed
  /\ fresh' \subseteq (fresh \cup {f.of : f \in {g \in fetches : g.of # "gone"}}) \ copies
  /\ FetchesFollow(copies) /\ CountFollows /\ ListFollows /\ PageFollows /\ TellsFollow(copies)

(* A step that begins no fetch and leaves the copies as they are           *)
LEMMA NothingBegun ==
  ASSUME PageIsThere, UNCHANGED <<followed, fetches, fresh, mounted, onPage, count, friend, vouched>>,
         TellsFollow({})
  PROVE  StepIs({})
<1>1. FetchesFollow({})
  BY DEF PageIsThere, FetchesFollow, Drops
<1>2. CountFollows /\ ListFollows /\ PageFollows
  BY DEF PageIsThere, CountFollows, ListFollows, PageFollows
<1>3. QED BY <1>1, <1>2 DEF StepIs

LEMMA ServerSteps ==
  ASSUME ContactsTyped, ConnectionIsTold, PageIsThere,
         K!PeerAsks \/ K!PeerAnswers \/ K!PeerDeletes \/ K!PeerClears \/ \E c \in actions : K!Handle(c)
  PROVE  StepIs({})
<1>1. UNCHANGED <<followed, fetches, fresh, mounted, onPage, count, friend, vouched, line>>
  BY DEF K!PeerAsks, K!PeerAnswers, K!PeerDeletes, K!PeerClears, K!Handle, K!net, K!page, K!main, K!Act
<1>2. hints \in Nat /\ line \in {"none", "open", "served"}
  BY DEF ContactsTyped
<1>3. CASE K!Notify
  <2>1. CASE line = "served"
    <3>1. hints' # 0
      BY <1>2, <1>3, <2>1 DEF K!Notify
    <3>2. QED BY <1>1, <3>1, NothingBegun DEF TellsFollow, CountTold, ListTold, FriendTold, RequestTold
  <2>2. CASE line # "served"
    <3>1. /\ {"count", "list"} \subseteq lost'
          /\ line = "open" => "page" \in lost'
      BY <1>3, <2>2 DEF K!Notify, K!Copy
    <3>2. QED BY <1>1, <1>2, <2>2, <3>1, NothingBegun DEF TellsFollow, CountTold, ListTold, FriendTold, RequestTold
  <2>3. QED BY <2>1, <2>2
<1>4. CASE K!PeerClears
  <2>1. /\ "page" \in lost' /\ ("count" \in lost => "count" \in lost') /\ ("list" \in lost => "list" \in lost')
        /\ hints' = hints /\ friendship' = friendship
        /\ K!Waits(request') = K!Waits(request)
    BY <1>4 DEF K!PeerClears, K!Waits, K!NoRow
  <2>2. QED BY <1>1, <2>1, NothingBegun DEF TellsFollow, CountTold, ListTold, FriendTold, RequestTold
<1>5. ASSUME NEW c \in actions, K!Handle(c), c.op = "clear" PROVE StepIs({})
  <2>1. /\ lost' = (IF c.here THEN lost ELSE lost \cup {"page"}) /\ hints' = hints /\ friendship' = friendship
        /\ K!Waits(request') = K!Waits(request)
    BY <1>5 DEF K!Handle, K!Waits, K!NoRow
  <2>2. c \in Action /\ [c EXCEPT !.at = "done"] \in actions' /\ \A d \in actions : d.at = "done" => d \in actions'
    BY <1>5 DEF K!Handle, K!Goes, ContactsTyped
  <2>3. c.here => Clearing'
    BY <1>5, <2>2 DEF Clearing, Action
  <2>4. Clearing => Clearing'
    BY <2>2 DEF Clearing
  <2>5. QED BY <1>1, <2>1, <2>3, <2>4, NothingBegun DEF TellsFollow, CountTold, ListTold, FriendTold, RequestTold
<1>6. QED BY <1>3, <1>4, <1>5 DEF K!PeerAsks, K!PeerAnswers, K!PeerDeletes, K!Handle, K!Unfriended

(* Calls that are made, refused, or answered without a fetch               *)
LEMMA CallSteps ==
  ASSUME ContactsTyped, PageIsThere,
         \/ K!PressMenu \/ K!Register
         \/ \E op \in {"accept", "reject", "ask", "clear", "delete"}, target \in 0 .. MaxActs + 1 : K!Press(op, target)
         \/ \E c \in actions : K!Refuse(c) \/ K!Refused(c)
  PROVE  StepIs({})
<1>1. UNCHANGED <<followed, fetches, fresh, mounted, onPage, count, friend, vouched, hints, request, friendship>>
  BY DEF K!PressMenu, K!Register, K!Press, K!Refuse, K!Refused, K!known, K!main, K!server, K!page, K!Act
<1>2. CASE \/ K!PressMenu \/ K!Register
           \/ \E op \in {"accept", "reject", "ask", "clear", "delete"}, target \in 0 .. MaxActs + 1 : K!Press(op, target)
           \/ \E c \in actions : K!Refused(c)
  <2>1. lost' = lost /\ (line' = "none" <=> line = "none")
    BY <1>2 DEF K!PressMenu, K!Register, K!Press, K!Refused, K!known, K!net
  <2>2. \A c \in actions : c.at = "done" => c \in actions'
    BY <1>2 DEF K!PressMenu, K!Register, K!Press, K!Refused
  <2>3. Clearing => Clearing'
    BY <2>2 DEF Clearing
  <2>4. QED BY <1>1, <2>1, <2>3, NothingBegun DEF TellsFollow, CountTold, ListTold, FriendTold, RequestTold
<1>3. ASSUME NEW c \in actions, K!Refuse(c) PROVE StepIs({})
  <2>1. line' = line /\ lost' = (IF c.op = "clear" /\ c.at = "done" THEN lost \cup {"page"} ELSE lost)
    BY <1>3 DEF K!Refuse, K!net
  <2>2. \A d \in actions : d # c => d \in actions'
    BY <1>3 DEF K!Refuse, K!Goes
  <2>3. Clearing => Clearing' \/ "page" \in lost'
    BY <2>1, <2>2 DEF Clearing
  <2>4. QED BY <1>1, <2>1, <2>3, NothingBegun DEF TellsFollow, CountTold, ListTold, FriendTold, RequestTold
<1>4. QED BY <1>2, <1>3

(* Fetches and connections                                                 *)
LEMMA BeginSteps ==
  ASSUME ContactsTyped, PageIsThere, NEW copies \in SUBSET (followed \cap K!Copy), NEW by \in Op \cup {"no"},
         NEW untold, K!Begin(fetches, copies, by, untold),
         UNCHANGED <<followed, onPage, count, friend, vouched>>, mounted => mounted', mounted' => mounted \/ "page" \in copies,
         "page" \in copies => mounted', TellsFollow(copies)
  PROVE  StepIs(copies)
<1>1. /\ FetchesAre(fetches, copies)
      /\ fresh' = fresh \ copies /\ lost' = (lost \cup untold) \ copies
  <2>1. fetches \subseteq Fetch /\ copies \subseteq K!Copy
    BY DEF ContactsTyped
  <2>2. ASSUME NEW fs \in SUBSET Fetch, K!Begin(fs, copies, by, untold)
        PROVE  FetchesAre(fs, copies) /\ fresh' = fresh \ copies /\ lost' = (lost \cup untold) \ copies
    BY <2>1, <2>2, Begun
  <2>3. QED BY <2>1, <2>2
<1>2. FetchesFollow(copies)
  BY <1>1 DEF FetchesAre, FetchesFollow, Drops, PageIsThere
<1>3. CountFollows /\ ListFollows /\ PageFollows
  BY <1>1 DEF CountFollows, ListFollows, PageFollows
<1>4. QED BY <1>1, <1>2, <1>3 DEF StepIs

LEMMA ConnectionSteps ==
  ASSUME ContactsTyped, ConnectionIsTold, PageIsThere, K!Connect \/ K!Drop \/ K!Blame
  PROVE  \E copies \in SUBSET followed : StepIs(copies)
<1>1. hints \in Nat /\ (line # "served" => hints = 0) /\ (line = "none" => online = FALSE)
  BY DEF ContactsTyped, ConnectionIsTold
<1>2. UNCHANGED <<followed, request, friendship, mounted, onPage, count, friend, vouched, actions>>
  BY DEF K!Connect, K!Drop, K!Blame, K!server, K!page, K!main
<1>3. Clearing' <=> Clearing
  BY <1>2 DEF Clearing
<1>4. ASSUME NEW value, NEW untold, K!SetOnline(value, untold),
             TellsFollow(IF mounted /\ online # value THEN {"page"} ELSE {})
      PROVE  \E copies \in SUBSET followed : StepIs(copies)
  <2> DEFINE copies == IF mounted /\ online # value THEN {"page"} ELSE {}
  <2>1. copies \in SUBSET (followed \cap K!Copy) /\ ("page" \in copies => mounted')
    BY <1>2 DEF PageIsThere, K!Copy
  <2>2. K!Begin(fetches, copies, "no", untold)
    BY <1>4 DEF K!SetOnline
  <2>3. TellsFollow(copies)
    BY <1>4
  <2> HIDE DEF copies
  <2>4. StepIs(copies)
    BY <1>2, <2>1, <2>2, <2>3, BeginSteps
  <2>5. QED BY <2>1, <2>4
<1>5. ASSUME NEW value, NEW untold, K!SetOnline(value, untold)
      PROVE  \A x : x \in lost' <=> x \in lost \cup untold /\ ~(x = "page" /\ mounted /\ online # value)
  BY <1>5 DEF K!SetOnline, K!Begin
<1>6. CASE K!Connect
  <2>1. K!SetOnline(TRUE, {}) /\ line = "none" /\ line' = "open" /\ hints' = hints
    BY <1>6 DEF K!Connect
  <2>2. \A x : x \in lost' <=> x \in lost /\ ~(x = "page" /\ mounted)
    BY <1>1, <2>1 DEF K!SetOnline, K!Begin
  <2>3. TellsFollow(IF mounted THEN {"page"} ELSE {})
    BY <1>1, <1>2, <2>1, <2>2 DEF TellsFollow, CountTold, ListTold, FriendTold, RequestTold
  <2>4. QED BY <1>1, <1>4, <2>1, <2>3
<1>7. CASE K!Drop
  <2>1. K!SetOnline(FALSE, IF hints > 0 THEN K!Copy \ {"page"} ELSE {}) /\ line # "none" /\ line' = "none"
    BY <1>7 DEF K!Drop
  <2>2. \A x : x \in lost' <=> /\ x \in lost \cup (IF hints > 0 THEN K!Copy \ {"page"} ELSE {})
                                /\ ~(x = "page" /\ mounted /\ online # FALSE)
    BY <1>5, <2>1
  <2>3. /\ hints > 0 => "count" \in lost' /\ "list" \in lost'
        /\ "count" \in lost => "count" \in lost'
        /\ "list" \in lost => "list" \in lost'
        /\ "page" \in lost /\ ~(mounted /\ online # FALSE) => "page" \in lost'
    BY <2>2 DEF K!Copy
  <2>4. TellsFollow(IF mounted /\ online # FALSE THEN {"page"} ELSE {})
    <3>1. CASE mounted /\ online # FALSE
      BY <1>1, <1>2, <2>1, <2>3, <3>1 DEF TellsFollow, CountTold, ListTold, FriendTold, RequestTold
    <3>2. CASE ~(mounted /\ online # FALSE)
      <4>1. CountTold' => CountTold
        BY <1>1, <2>3 DEF CountTold
      <4>2. ListTold' => ListTold
        BY <1>1, <2>3 DEF ListTold
      <4>3. FriendTold' => FriendTold
        BY <1>1, <1>2, <2>1, <2>3, <3>2 DEF FriendTold
      <4>4. ~RequestTold'
        BY <2>1 DEF RequestTold
      <4>5. QED BY <1>2, <4>1, <4>2, <4>3, <4>4 DEF TellsFollow
    <3>3. QED BY <3>1, <3>2
  <2>5. QED BY <1>4, <2>1, <2>4
<1>8. CASE K!Blame
  <2>1. K!SetOnline(FALSE, {}) /\ line' = line /\ hints' = hints
    BY <1>8 DEF K!Blame
  <2>2. \A x : x \in lost' <=> x \in lost /\ ~(x = "page" /\ mounted /\ online # FALSE)
    BY <2>1 DEF K!SetOnline, K!Begin
  <2>3. TellsFollow(IF mounted /\ online # FALSE THEN {"page"} ELSE {})
    BY <1>1, <1>2, <1>3, <2>1, <2>2 DEF TellsFollow, CountTold, ListTold, FriendTold, RequestTold
  <2>4. QED BY <1>4, <2>1, <2>3
<1>9. QED BY <1>6, <1>7, <1>8

LEMMA BeginningSteps ==
  ASSUME ContactsTyped, ConnectionIsTold, PageIsThere,
         K!TakeHint \/ K!OpenContacts \/ \E c \in actions : K!Answered(c)
  PROVE  \E copies \in SUBSET followed : StepIs(copies)
<1>1. /\ followed \subseteq K!Copy /\ "no" \in Op \cup {"no"} /\ hints \in Nat
      /\ fetches \subseteq Fetch /\ actions \subseteq Action
      /\ K!Listeners = {x \in followed : x = "page" => mounted}
  BY DEF ContactsTyped, K!Listeners
<1>2. ASSUME K!TakeHint PROVE StepIs(K!Listeners)
  <2>1. /\ K!Begin(fetches, K!Listeners, "no", {}) /\ lost' = lost \ K!Listeners
        /\ hints > 0 /\ hints' = hints - 1
        /\ UNCHANGED <<followed, request, friendship, line, mounted, onPage, count, friend, vouched, actions>>
    BY <1>2 DEF K!TakeHint, K!Begin, K!server, K!net, K!page, K!main
  <2>2. TellsFollow(K!Listeners)
    BY <1>1, <2>1 DEF TellsFollow, CountTold, ListTold, FriendTold, RequestTold, PageIsThere, K!Copy
  <2>3. K!Listeners \in SUBSET (followed \cap K!Copy) /\ ("page" \in K!Listeners => mounted')
    BY <1>1, <2>1
  <2>4. QED BY <1>1, <2>1, <2>2, <2>3, BeginSteps
<1>3. ASSUME K!OpenContacts PROVE StepIs({"page"})
  <2>1. /\ K!Begin(fetches, {"page"}, "no", {}) /\ lost' = lost \ {"page"}
        /\ "page" \in followed /\ mounted'
        /\ UNCHANGED <<followed, request, friendship, hints, onPage, count, friend, vouched>>
    BY <1>3 DEF K!OpenContacts, K!Begin, K!server, K!net, K!main
  <2>2. TellsFollow({"page"})
    BY <2>1 DEF TellsFollow, CountTold, ListTold, FriendTold, RequestTold
  <2>3. {"page"} \in SUBSET (followed \cap K!Copy) /\ (mounted' => mounted \/ "page" \in {"page"})
    BY <1>1, <2>1
  <2>4. QED BY <1>1, <2>1, <2>2, <2>3, BeginSteps
<1>4. ASSUME NEW c \in actions, K!Answered(c), c.op # "menu", c.here PROVE StepIs({"page"})
  <2>1. /\ K!Begin(fetches, {"page"}, c.op, {}) /\ lost' = lost \ {"page"}
        /\ UNCHANGED <<followed, request, friendship, hints, mounted, onPage, count, friend, vouched>>
    BY <1>4 DEF K!Answered, K!Begin, K!server, K!page, K!net
  <2>2. TellsFollow({"page"})
    BY <2>1 DEF TellsFollow, CountTold, ListTold, FriendTold, RequestTold
  <2>3. mounted /\ {"page"} \in SUBSET (followed \cap K!Copy) /\ c.op \in Op \cup {"no"}
    BY <1>1, <1>4 DEF PageIsThere, Action
  <2>4. QED BY <2>1, <2>2, <2>3, BeginSteps
<1>5. ASSUME NEW c \in actions, K!Answered(c), c.op = "menu" \/ ~c.here PROVE StepIs({})
  <2>1. /\ UNCHANGED <<followed, request, friendship, hints, line, mounted, onPage, count, vouched, fresh, lost>>
        /\ fetches' \subseteq fetches \cup {K!Fetch("gone", FALSE, c.op)}
        /\ friend' = friend \/ c.op = "menu"
        /\ actions' = actions \ {c}
    BY <1>5 DEF K!Answered, K!server, K!page, K!net, K!known
  <2>2. c \notin actions' /\ \A d \in actions : d # c => d \in actions'
    BY <2>1
  <2>3. c.op = "menu" => c.op # "clear"
    OBVIOUS
  <2>4. Clearing => Clearing'
    BY <1>5, <2>2, <2>3 DEF Clearing
  <2>5. TellsFollow({})
    BY <2>1, <2>4 DEF TellsFollow, CountTold, ListTold, FriendTold, RequestTold
  <2>6. FetchesFollow({})
    BY <2>1 DEF FetchesFollow, Drops, PageIsThere, K!Fetch
  <2>7. CountFollows /\ PageFollows /\ ListFollows
    BY <1>5, <2>1 DEF CountFollows, PageFollows, ListFollows
  <2>8. QED BY <2>1, <2>5, <2>6, <2>7 DEF StepIs
<1>6. CASE K!TakeHint
  <2>1. K!Listeners \in SUBSET followed
    BY <1>1
  <2>2. QED BY <1>2, <1>6, <2>1
<1>7. CASE K!OpenContacts
  <2>1. {"page"} \in SUBSET followed
    BY <1>7 DEF K!OpenContacts
  <2>2. QED BY <1>3, <1>7, <2>1
<1>8. ASSUME NEW c \in actions, K!Answered(c) PROVE \E copies \in SUBSET followed : StepIs(copies)
  <2>1. CASE c.op # "menu" /\ c.here
    <3>1. {"page"} \in SUBSET followed
      BY <1>8, <2>1 DEF PageIsThere
    <3>2. QED BY <1>4, <1>8, <2>1, <3>1
  <2>2. CASE c.op = "menu" \/ ~c.here
    BY <1>5, <1>8, <2>2
  <2>3. QED BY <2>1, <2>2
<1>9. QED BY <1>6, <1>7, <1>8

LEMMA LeavingSteps ==
  ASSUME ContactsTyped, PageIsThere, K!LeaveContacts \/ K!MessageFriend
  PROVE  StepIs({})
<1>1. /\ K!Leave /\ UNCHANGED <<followed, request, friendship, hints, count>>
      /\ K!MessageFriend \/ UNCHANGED <<friend, vouched>>
  BY DEF K!LeaveContacts, K!MessageFriend, K!server, K!main
<1>2. /\ ~mounted' /\ fresh' = fresh \ {"page"} /\ lost' = lost \ {"page"}
      /\ fetches' = {f \in fetches : f.of # "page"}
           \cup {K!Fetch("gone", FALSE, f.by) : f \in {g \in fetches : g.of = "page" /\ g.by # "no"}}
  BY <1>1 DEF K!Leave
<1>3. FetchesFollow({})
  <2>1. \A f \in fetches' :
          (f \in fetches /\ f.of # "page") \/ (f.of = "gone" /\ f.request = None /\ f.friend = None)
    BY <1>2 DEF K!Fetch
  <2>2. QED BY <2>1 DEF FetchesFollow, Drops
<1>4. TellsFollow({})
  BY <1>1, <1>2 DEF TellsFollow, CountTold, ListTold, FriendTold, RequestTold
<1>5. CountFollows /\ PageFollows /\ ListFollows
  BY <1>1, <1>2 DEF CountFollows, PageFollows, ListFollows
<1>6. QED BY <1>1, <1>2, <1>3, <1>4, <1>5 DEF StepIs

LEMMA ReadSteps ==
  ASSUME ContactsTyped, PageIsThere, NEW f \in fetches, K!ReadRequests(f) \/ K!ReadFriends(f)
  PROVE  StepIs({})
<1>1. /\ UNCHANGED <<followed, request, friendship, hints, line, actions, mounted, onPage, count, friend, vouched>>
      /\ UNCHANGED <<fresh, lost>>
  BY DEF K!ReadRequests, K!ReadFriends, K!server, K!net, K!page, K!main
<1>2. Clearing' <=> Clearing
  BY <1>1 DEF Clearing
<1>3. TellsFollow({})
  BY <1>1, <1>2 DEF TellsFollow, CountTold, ListTold, FriendTold, RequestTold
<1>4. f \in Fetch
  BY DEF ContactsTyped
<1>5. FetchesFollow({})
  <2>1. CASE K!ReadRequests(f)
    <3>1. \A h \in fetches' : h \in fetches \/ h = [f EXCEPT !.request = request]
      BY <2>1 DEF K!ReadRequests
    <3>2. f.request = None
      BY <2>1 DEF K!ReadRequests
    <3>3. QED BY <1>1, <1>4, <3>1, <3>2 DEF FetchesFollow, Drops, PageIsThere, Fetch
  <2>2. CASE K!ReadFriends(f)
    <3>1. \A h \in fetches' : h \in fetches \/ h = [f EXCEPT !.friend = friendship]
      BY <2>2 DEF K!ReadFriends
    <3>2. f.friend = None
      BY <2>2 DEF K!ReadFriends
    <3>3. QED BY <1>1, <1>4, <3>1, <3>2 DEF FetchesFollow, Drops, PageIsThere, Fetch
  <2>3. QED BY <2>1, <2>2
<1>6. CountFollows /\ PageFollows /\ ListFollows
  BY <1>1 DEF CountFollows, PageFollows, ListFollows
<1>7. QED BY <1>1, <1>3, <1>5, <1>6 DEF StepIs

LEMMA ApplySteps ==
  ASSUME ContactsTyped, PageIsThere, FollowedAreFetched, NEW f \in fetches,
         K!ApplyPage(f) \/ K!ApplyCount(f) \/ K!ApplyList(f)
  PROVE  \E copies \in SUBSET followed : StepIs(copies)
<1>1. /\ UNCHANGED <<followed, request, friendship, hints, line, actions, mounted>>
      /\ f.of \in {"page", "count", "list"}
      /\ K!Ends(f)
  BY DEF K!ApplyPage, K!ApplyCount, K!ApplyList, K!server, K!net, K!main, K!page
<1>2. Clearing' <=> Clearing
  BY <1>1 DEF Clearing
<1>3. CASE /\ fetches' = fetches \ {f} /\ lost' = lost
           /\ fresh' = IF f.newest THEN fresh \cup {f.of} ELSE fresh \ {f.of}
  <2>1. TellsFollow({})
    BY <1>1, <1>2, <1>3 DEF TellsFollow, CountTold, ListTold, FriendTold, RequestTold
  <2>2. FetchesFollow({})
    BY <1>1, <1>3 DEF FetchesFollow, Drops, PageIsThere
  <2>3. f.of \in fresh' => f.newest
    BY <1>3
  <2>4. \A x : x \in fresh' => x \in fresh \/ x = f.of
    BY <1>3
  <2>5. CASE K!ApplyPage(f)
    <3>1. /\ f.of = "page" /\ f.request # None /\ f.friend # None /\ mounted
          /\ onPage' = [request |-> f.request, friend |-> f.friend]
          /\ UNCHANGED <<count, friend, vouched>>
      BY <2>5 DEF K!ApplyPage, K!main, PageIsThere
    <3>2. CountFollows /\ PageFollows /\ ListFollows
      BY <2>3, <2>4, <3>1 DEF CountFollows, PageFollows, ListFollows, Newest
    <3>3. QED BY <1>1, <2>1, <2>2, <2>4, <3>2 DEF StepIs
  <2>6. CASE K!ApplyCount(f)
    <3>1. /\ f.of = "count" /\ f.request # None /\ count' = K!Waits(f.request)
          /\ UNCHANGED <<onPage, friend, vouched>>
      BY <2>6 DEF K!ApplyCount, K!page
    <3>2. CountFollows /\ PageFollows /\ ListFollows
      BY <1>1, <2>3, <2>4, <3>1 DEF CountFollows, PageFollows, ListFollows, Newest
    <3>3. QED BY <1>1, <2>1, <2>2, <2>4, <3>2 DEF StepIs
  <2>7. CASE K!ApplyList(f)
    <3>1. /\ f.of = "list" /\ f.friend # None /\ friend' = f.friend
          /\ UNCHANGED <<onPage, count>>
      BY <2>7 DEF K!ApplyList, K!page
    <3>2. CountFollows /\ PageFollows /\ ListFollows
      BY <1>1, <2>3, <2>4, <3>1 DEF CountFollows, PageFollows, ListFollows, Newest
    <3>3. QED BY <1>1, <2>1, <2>2, <2>4, <3>2 DEF StepIs
  <2>8. QED BY <2>5, <2>6, <2>7
<1>4. CASE /\ FetchesAre(fetches \ {f}, K!Listeners)
           /\ fresh' = fresh \ K!Listeners /\ lost' = lost \ K!Listeners
  <2>1. K!Listeners \in SUBSET followed /\ ("page" \in K!Listeners => mounted)
        /\ f.of \in K!Listeners
    BY <1>1 DEF K!Listeners, FollowedAreFetched, PageIsThere
  <2>2. FetchesFollow(K!Listeners)
    BY <1>1, <1>4, <2>1 DEF FetchesFollow, FetchesAre, Drops, PageIsThere
  <2>3. TellsFollow(K!Listeners)
    <3>1. \A x \in {"count", "list"} : x \in K!Listeners \/ x \notin followed
      BY DEF K!Listeners
    <3>2. mounted => "page" \in K!Listeners
      BY DEF K!Listeners, PageIsThere
    <3>3. QED BY <1>1, <1>2, <3>1, <3>2 DEF TellsFollow, CountTold, ListTold, FriendTold, RequestTold
  <2>4. CountFollows /\ PageFollows /\ ListFollows
    <3>1. f.of \notin fresh' /\ \A x : x \in fresh' => x \in fresh
      BY <1>4, <2>1
    <3>2. /\ f.of # "page" => onPage' = onPage
          /\ f.of # "count" => count' = count
          /\ f.of # "list" => friend' = friend /\ vouched' = vouched
      BY DEF K!ApplyPage, K!ApplyCount, K!ApplyList, K!page, K!main
    <3>3. QED BY <1>1, <3>1, <3>2 DEF CountFollows, PageFollows, ListFollows
  <2>5. StepIs(K!Listeners)
    BY <1>1, <1>4, <2>1, <2>2, <2>3, <2>4 DEF StepIs
  <2>6. QED BY <2>1, <2>5
<1>5. QED BY <1>1, <1>3, <1>4, Ended

LEMMA OtherEnds ==
  ASSUME ContactsTyped, PageIsThere, FollowedAreFetched, NEW f \in fetches,
         K!ApplyNowhere(f) \/ K!FetchFails(f)
  PROVE  \E copies \in SUBSET followed : StepIs(copies)
<1>1. UNCHANGED <<followed, request, friendship, hints, line, actions, mounted, onPage, count, vouched>>
  BY DEF K!ApplyNowhere, K!FetchFails, K!server, K!net, K!main, K!page
<1>2. Clearing' <=> Clearing
  BY <1>1 DEF Clearing
<1>3. CASE /\ fetches' = fetches \ {f} /\ lost' = lost /\ fresh' \subseteq fresh
           /\ friend' = friend \/ "list" \notin fresh'
  <2>1. TellsFollow({})
    BY <1>1, <1>2, <1>3 DEF TellsFollow, CountTold, ListTold, FriendTold, RequestTold
  <2>2. FetchesFollow({})
    BY <1>1, <1>3 DEF FetchesFollow, Drops, PageIsThere
  <2>3. CountFollows /\ PageFollows /\ ListFollows
    BY <1>1, <1>3 DEF CountFollows, PageFollows, ListFollows
  <2>4. StepIs({})
    BY <1>1, <1>3, <2>1, <2>2, <2>3 DEF StepIs
  <2>5. QED BY <2>4
<1>4. CASE K!Begin(fetches \ {f}, K!Listeners, "no", {}) /\ friend' = friend
  <2> DEFINE others == fetches \ {f}
             whom == K!Listeners
             untold == {}
  <2>1. others \subseteq Fetch /\ whom \subseteq K!Copy /\ K!Begin(others, whom, "no", untold)
    BY <1>4 DEF ContactsTyped, K!Listeners
  <2> HIDE DEF others, whom, untold
  <2>2. fetches' \subseteq Fetch /\ FetchesAre(others, whom)
        /\ fresh' = fresh \ whom /\ lost' = (lost \cup untold) \ whom
    BY <2>1, Begun
  <2>3. /\ whom \in SUBSET followed /\ ("page" \in whom <=> "page" \in followed /\ mounted)
        /\ \A x \in {"count", "list"} : x \in whom \/ x \notin followed
        /\ others \subseteq fetches
    BY DEF whom, others, K!Listeners
  <2>4. FetchesFollow(whom)
    BY <1>1, <2>2, <2>3 DEF FetchesFollow, FetchesAre, Drops, PageIsThere
  <2>5. TellsFollow(whom)
    BY <1>1, <1>2, <2>3 DEF TellsFollow, CountTold, ListTold, FriendTold, RequestTold, PageIsThere
  <2>6. CountFollows /\ PageFollows /\ ListFollows
    BY <1>1, <1>4, <2>2 DEF CountFollows, PageFollows, ListFollows
  <2>7. StepIs(whom)
    BY <1>1, <2>2, <2>3, <2>4, <2>5, <2>6 DEF StepIs
  <2>8. QED BY <2>3, <2>7
<1>5. CASE K!FetchFails(f)
  BY <1>3, <1>5 DEF K!FetchFails
<1>6. CASE K!ApplyNowhere(f)
  BY <1>3, <1>4, <1>6 DEF K!ApplyNowhere, K!main
<1>7. QED BY <1>5, <1>6

LEMMA EveryStep ==
  ASSUME ContactsTyped, ConnectionIsTold, PageIsThere, FollowedAreFetched, [K!Next]_(K!vars)
  PROVE  \E copies \in SUBSET followed : StepIs(copies)
<1>1. {} \in SUBSET followed
  OBVIOUS
<1>2. CASE UNCHANGED K!vars
  <2>1. UNCHANGED <<followed, request, friendship, fetches, fresh, lost, hints, line, actions, mounted, onPage, count, friend, vouched>>
    BY <1>2 DEF K!vars, K!server, K!net, K!page, K!main, K!known
  <2>2. Clearing' <=> Clearing
    BY <2>1 DEF Clearing
  <2>3. TellsFollow({})
    BY <2>1, <2>2 DEF TellsFollow, CountTold, ListTold, FriendTold, RequestTold
  <2>4. QED BY <1>1, <2>1, <2>3, NothingBegun
<1>3. CASE K!Next
  BY <1>1, <1>3, ServerSteps, CallSteps, ConnectionSteps, BeginningSteps, LeavingSteps, ReadSteps, ApplySteps, OtherEnds
  DEF K!Next
<1>4. QED BY <1>2, <1>3

-----------------------------------------------------------------------------
(* What the invariant says stays true.                                     *)

LEMMA ConnectionStaysTold ==
  ASSUME ContactsTyped, ConnectionIsTold, [K!Next]_(K!vars)
  PROVE  ConnectionIsTold'
<1>1. /\ (line # "served" => hints = 0) /\ (line = "none" => ~online) /\ hints \in Nat
  BY DEF ConnectionIsTold, ContactsTyped
<1>2. CASE K!PeerAsks \/ K!PeerAnswers \/ K!PeerDeletes \/ K!PeerClears \/ \E c \in actions : K!Handle(c)
  BY <1>1, <1>2 DEF K!PeerAsks, K!PeerAnswers, K!PeerDeletes, K!PeerClears, K!Handle, K!Unfriended, K!Notify,
    K!net, ConnectionIsTold
<1>3. CASE K!Connect \/ K!Drop \/ K!Blame \/ K!Register \/ K!TakeHint
  <2>1. CASE K!Connect
    BY <1>1, <2>1 DEF K!Connect, ConnectionIsTold
  <2>2. CASE K!Drop
    BY <1>1, <2>2 DEF K!Drop, K!SetOnline, ConnectionIsTold
  <2>3. CASE K!Blame
    BY <1>1, <2>3 DEF K!Blame, K!SetOnline, ConnectionIsTold
  <2>4. CASE K!Register
    BY <1>1, <2>4 DEF K!Register, ConnectionIsTold
  <2>5. CASE K!TakeHint
    BY <1>1, <2>5 DEF K!TakeHint, K!net, ConnectionIsTold
  <2>6. QED BY <1>3, <2>1, <2>2, <2>3, <2>4, <2>5
<1>4. CASE UNCHANGED <<line, hints, online>>
  BY <1>1, <1>4 DEF ConnectionIsTold
<1>5. QED BY <1>2, <1>3, <1>4 DEF K!Next, K!vars, K!net, K!PressMenu, K!OpenContacts, K!LeaveContacts,
  K!MessageFriend, K!Leave, K!Press, K!Refuse, K!Answered, K!Refused, K!ReadRequests, K!ReadFriends,
  K!FetchFails, K!ApplyPage, K!ApplyNowhere, K!ApplyCount, K!ApplyList

LEMMA PageStaysThere ==
  ASSUME ContactsTyped, ConnectionIsTold, PageIsThere, FollowedAreFetched, [K!Next]_(K!vars)
  PROVE  PageIsThere'
<1>1. PICK copies \in SUBSET followed : StepIs(copies)
  BY EveryStep
<1>2. \A f \in fetches' : f.of = "page" => mounted'
  BY <1>1 DEF StepIs, FetchesFollow
<1>3. followed' = followed
  BY <1>1 DEF StepIs
<1>4. actions \subseteq Action /\ (mounted => "page" \in followed) /\ \A c \in actions : c.here => mounted
  BY DEF ContactsTyped, PageIsThere
<1>5. SUFFICES (mounted' => "page" \in followed') /\ \A c \in actions' : c.here => mounted'
  BY <1>2 DEF PageIsThere
<1>6. CASE K!LeaveContacts \/ K!MessageFriend
  BY <1>4, <1>6 DEF K!LeaveContacts, K!MessageFriend, K!Leave, Action
<1>7. CASE K!OpenContacts
  BY <1>4, <1>7 DEF K!OpenContacts
<1>8. ASSUME NEW op \in {"accept", "reject", "ask", "clear", "delete"}, NEW target \in 0 .. MaxActs + 1,
             K!Press(op, target)
      PROVE (mounted' => "page" \in followed') /\ \A c \in actions' : c.here => mounted'
  <2>1. mounted /\ mounted' = mounted
    BY <1>8 DEF K!Press
  <2>2. QED BY <1>3, <1>4, <2>1
<1>9. CASE K!PressMenu
  <2>1. mounted' = mounted
    BY <1>9 DEF K!PressMenu, K!page
  <2>2. \A c \in actions' : c \in actions \/ c.here = FALSE
    BY <1>9 DEF K!PressMenu
  <2>3. QED BY <1>3, <1>4, <2>1, <2>2
<1>10. ASSUME NEW c \in actions, K!Handle(c) \/ K!Refuse(c)
       PROVE (mounted' => "page" \in followed') /\ \A d \in actions' : d.here => mounted'
  <2>1. mounted' = mounted
    BY <1>10 DEF K!Handle, K!Refuse, K!page
  <2>2. \A d \in actions' : d \in actions \/ d.here = c.here
    BY <1>4, <1>10 DEF K!Handle, K!Refuse, K!Goes, Action
  <2>3. QED BY <1>3, <1>4, <2>1, <2>2
<1>11. CASE mounted' = mounted /\ actions' \subseteq actions
  BY <1>3, <1>4, <1>11
<1>12. QED BY <1>6, <1>7, <1>8, <1>9, <1>10, <1>11 DEF K!Next, K!vars, K!page, K!PeerAsks,
  K!PeerAnswers, K!PeerDeletes, K!PeerClears, K!TakeHint, K!Connect, K!Register, K!Drop, K!Blame,
  K!Answered, K!Refused, K!ReadRequests, K!ReadFriends, K!FetchFails, K!ApplyPage, K!ApplyNowhere,
  K!ApplyCount, K!ApplyList

LEMMA FollowedStayFetched ==
  ASSUME ContactsTyped, ConnectionIsTold, PageIsThere, FollowedAreFetched, [K!Next]_(K!vars)
  PROVE  FollowedAreFetched'
<1>1. PICK copies \in SUBSET followed : StepIs(copies)
  BY EveryStep
<1>2. QED BY <1>1 DEF StepIs, FetchesFollow, Drops, FollowedAreFetched

(* Three of the four facts do not depend on what actions there are.          *)
LEMMA KnownStays ==
  ASSUME ContactsTyped, ConnectionIsTold, PageIsThere, FollowedAreFetched,
         CountIsKnown, PageFriendsAreKnown, PageRequestsAreKnown, [K!Next]_(K!vars)
  PROVE  CountIsKnown' /\ PageFriendsAreKnown' /\ PageRequestsAreKnown'
<1>1. PICK copies \in SUBSET followed : StepIs(copies)
  BY EveryStep
<1>2. FollowedAreFetched' /\ followed' = followed
  BY <1>1, FollowedStayFetched DEF StepIs
<1>3. FetchesFollow(copies) /\ TellsFollow(copies) /\ CountFollows /\ PageFollows /\ \A x \in copies : x \notin fresh'
  BY <1>1 DEF StepIs
<1>4. CountIsKnown'
  <2> SUFFICES ASSUME CountTold'
               PROVE  /\ "count" \in fresh' => count' = K!Waits(request')
                      /\ \A f \in fetches' : f.of = "count" /\ f.newest =>
                           f.request = None \/ K!Waits(f.request) = K!Waits(request')
    BY DEF CountIsKnown, CountTold
  <2>1. CASE "count" \in copies \/ "count" \notin followed
    BY <1>2, <1>3, <2>1 DEF FetchesFollow, Drops, FollowedAreFetched
  <2>2. CASE CountTold /\ K!Waits(request') = K!Waits(request)
    <3>1. /\ "count" \in fresh => count = K!Waits(request)
          /\ \A f \in fetches : f.of = "count" /\ f.newest =>
               f.request = None \/ K!Waits(f.request) = K!Waits(request)
      BY <2>2 DEF CountIsKnown, CountTold
    <3>2. "count" \in fresh' => count' = K!Waits(request')
      BY <1>3, <2>2, <3>1 DEF CountFollows, Newest
    <3>3. QED BY <1>3, <2>2, <3>1, <3>2 DEF FetchesFollow, Drops
  <2>3. QED BY <1>3, <2>1, <2>2 DEF TellsFollow
<1>5. PageFriendsAreKnown'
  <2> SUFFICES ASSUME FriendTold'
               PROVE  /\ "page" \in fresh' => onPage'.friend = friendship'
                      /\ \A f \in fetches' : f.of = "page" /\ f.newest => f.friend \in {None, friendship'}
    BY DEF PageFriendsAreKnown, FriendTold
  <2>1. CASE "page" \in copies
    BY <1>3, <2>1 DEF FetchesFollow, Drops
  <2>2. CASE FriendTold /\ friendship' = friendship
    <3>1. /\ "page" \in fresh => onPage.friend = friendship
          /\ \A f \in fetches : f.of = "page" /\ f.newest => f.friend \in {None, friendship}
      BY <2>2 DEF PageFriendsAreKnown, FriendTold
    <3>2. mounted'
      BY DEF FriendTold
    <3>3. "page" \in fresh' => onPage'.friend = friendship'
      BY <1>3, <2>2, <3>1, <3>2 DEF PageFollows, Newest
    <3>4. QED BY <1>3, <2>2, <3>1, <3>3 DEF FetchesFollow, Drops
  <2>3. QED BY <1>3, <2>1, <2>2 DEF TellsFollow
<1>6. PageRequestsAreKnown'
  <2> SUFFICES ASSUME RequestTold'
               PROVE  /\ "page" \in fresh' => onPage'.request = request'
                      /\ \A f \in fetches' : f.of = "page" /\ f.newest => f.request \in {None, request'}
    BY DEF PageRequestsAreKnown, RequestTold
  <2>1. CASE "page" \in copies
    BY <1>3, <2>1 DEF FetchesFollow, Drops
  <2>2. CASE RequestTold /\ request' = request
    <3>1. /\ "page" \in fresh => onPage.request = request
          /\ \A f \in fetches : f.of = "page" /\ f.newest => f.request \in {None, request}
      BY <2>2 DEF PageRequestsAreKnown, RequestTold
    <3>2. mounted'
      BY DEF RequestTold
    <3>3. "page" \in fresh' => onPage'.request = request'
      BY <1>3, <2>2, <3>1, <3>2 DEF PageFollows, Newest
    <3>4. QED BY <1>3, <2>2, <3>1, <3>3 DEF FetchesFollow, Drops
  <2>3. QED BY <1>3, <2>1, <2>2 DEF TellsFollow
<1>7. QED BY <1>4, <1>5, <1>6

LEMMA ListStaysKnown ==
  ASSUME ContactsTyped, ConnectionIsTold, PageIsThere, FollowedAreFetched,
         ListIsKnown, PageFriendsAreKnown, MenuHasDeleted, [K!Next]_(K!vars)
  PROVE  ListIsKnown'
<1>1. PICK copies \in SUBSET followed : StepIs(copies)
  BY EveryStep
<1>2. FollowedAreFetched' /\ followed' = followed
  BY <1>1, FollowedStayFetched DEF StepIs
<1>3. FetchesFollow(copies) /\ TellsFollow(copies) /\ ListFollows /\ \A x \in copies : x \notin fresh'
  BY <1>1 DEF StepIs
<1>4. SUFFICES ASSUME ListTold'
               PROVE  /\ "list" \in fresh' => friend' = friendship' \/ vouched'
                      /\ \A f \in fetches' : f.of = "list" /\ f.newest => f.friend \in {None, friendship'}
    BY DEF ListIsKnown, ListTold
<1>5. CASE "list" \in copies \/ "list" \notin followed
    BY <1>2, <1>3, <1>5 DEF FetchesFollow, Drops, FollowedAreFetched
<1>6. CASE ListTold /\ friendship' = friendship
  <2>1. /\ "list" \in fresh => friend = friendship \/ vouched
        /\ \A f \in fetches : f.of = "list" /\ f.newest => f.friend \in {None, friendship}
    BY <1>6 DEF ListIsKnown, ListTold
  <2>2. ASSUME K!MessageFriend, "list" \in fresh PROVE friend' = friendship' \/ vouched'
    <3>1. mounted /\ friend' = onPage.friend
          /\ vouched' = (vouched \/ (onPage.friend # friend /\ "page" \notin fresh \ lost))
      BY <2>2 DEF K!MessageFriend
    <3>2. "page" \in fresh \ lost => onPage.friend = friendship
      BY <1>6, <3>1 DEF PageFriendsAreKnown, ListTold
    <3>3. QED BY <1>6, <2>1, <2>2, <3>1, <3>2
  <2>3. ASSUME NEW c \in actions, K!Answered(c), c.op = "menu", "list" \in fresh, vouched' = vouched
        PROVE  friend' = friendship' \/ vouched'
    <3>1. friend' = (IF friend = c.target THEN 0 ELSE friend) /\ c.at = "done"
      BY <2>3 DEF K!Answered
    <3>2. friendship # c.target
      BY <2>3, <3>1 DEF MenuHasDeleted
    <3>3. QED BY <1>6, <2>1, <2>3, <3>1, <3>2
  <2>4. "list" \in fresh' => friend' = friendship' \/ vouched'
    BY <1>3, <1>6, <2>1, <2>2, <2>3 DEF ListFollows, Newest
  <2>5. QED BY <1>3, <1>6, <2>1, <2>4 DEF FetchesFollow, Drops
<1>7. QED BY <1>3, <1>4, <1>5, <1>6 DEF TellsFollow

-----------------------------------------------------------------------------
(* Ids: where a step takes them from                                       *)

CallsFollow ==
  \/ actions' \subseteq actions /\ acts' \in {acts, acts + 1}
  \/ /\ acts' = acts
     /\ \E c \in actions, at \in {"done", "refused"} :
          /\ actions' = (actions \ {c}) \cup {[c EXCEPT !.at = at]}
          /\ c.op = "menu" /\ at = "done" => friendship' = 0
          /\ at = "refused" => friendship' = friendship
  \/ /\ acts' = acts /\ friendship' = friendship
     /\ actions' = {[c EXCEPT !.here = FALSE] : c \in actions}
  \/ /\ acts' = acts + 1 /\ friendship' = friendship
     /\ \E d \in Action : /\ actions' = actions \cup {d} /\ d.n = acts + 2 /\ d.at = "asked"
                          /\ d.op = "menu" => d.target = friend /\ friend # 0
FriendshipFollows ==
  \/ friendship' \in {friendship, 0}
  \/ friendship' = acts + 2 /\ acts' = acts + 1 /\ actions' = actions
  \/ \E c \in actions : /\ c.at = "asked" /\ c.op # "menu" /\ friendship' = c.n /\ acts' = acts
                        /\ actions' = (actions \ {c}) \cup {[c EXCEPT !.at = "done"]}

LEMMA CallsChange ==
  ASSUME ContactsTyped, [K!Next]_(K!vars)
  PROVE  CallsFollow
<1>1. acts \in Nat /\ actions \subseteq Action /\ friend \in Nat
  BY DEF ContactsTyped
<1>2. ASSUME NEW op \in {"accept", "reject", "ask", "clear", "delete"}, NEW target \in 0 .. MaxActs + 1,
             K!Press(op, target)
      PROVE  CallsFollow
  <2> DEFINE d == [n |-> acts + 2, op |-> op, target |-> target, here |-> TRUE, at |-> "asked"]
  <2>1. target \in Nat /\ op # "menu"
    BY <1>2, ContactsTyped DEF K!Press, ContactsTyped, Shown
  <2>2. d \in Action
    BY <1>1, <2>1 DEF Action, Op
  <2>3. actions' = actions \cup {d} /\ acts' = acts + 1 /\ friendship' = friendship
    BY <1>2 DEF K!Press, K!Act, K!server, K!New
  <2>4. QED BY <2>1, <2>2, <2>3 DEF CallsFollow
<1>3. CASE K!PressMenu
  <2> DEFINE d == [n |-> acts + 2, op |-> "menu", target |-> friend, here |-> FALSE, at |-> "asked"]
  <2>1. d \in Action
    BY <1>1 DEF Action, Op
  <2>2. actions' = actions \cup {d} /\ acts' = acts + 1 /\ friendship' = friendship /\ friend # 0
    BY <1>3 DEF K!PressMenu, K!Act, K!server, K!New
  <2>3. QED BY <2>1, <2>2 DEF CallsFollow
<1>4. ASSUME NEW c \in actions, K!Handle(c) PROVE CallsFollow
  <2>1. actions' = (actions \ {c}) \cup {[c EXCEPT !.at = "done"]} /\ acts' = acts
    BY <1>4 DEF K!Handle, K!Goes, K!bounds
  <2>2. c.op = "menu" => friendship' = 0
    BY <1>4 DEF K!Handle, K!Unfriended
  <2>3. QED BY <2>1, <2>2 DEF CallsFollow
<1>5. ASSUME NEW c \in actions, K!Refuse(c) PROVE CallsFollow
  <2>1. actions' = (actions \ {c}) \cup {[c EXCEPT !.at = "refused"]} /\ acts' = acts /\ friendship' = friendship
    BY <1>5 DEF K!Refuse, K!Goes, K!server
  <2>2. QED BY <2>1 DEF CallsFollow
<1>6. CASE K!LeaveContacts \/ K!MessageFriend
  BY <1>6 DEF K!LeaveContacts, K!MessageFriend, K!Leave, K!server, K!bounds, CallsFollow
<1>7. CASE actions' \subseteq actions /\ acts' \in {acts, acts + 1}
  BY <1>7 DEF CallsFollow
<1>8. CASE K!PeerAsks \/ K!PeerAnswers \/ K!PeerDeletes \/ K!PeerClears
  BY <1>7, <1>8 DEF K!PeerAsks, K!PeerAnswers, K!PeerDeletes, K!PeerClears, K!Act
<1>9. CASE K!OpenContacts \/ K!TakeHint \/ K!Connect \/ K!Register \/ K!Drop \/ K!Blame
  BY <1>7, <1>9 DEF K!OpenContacts, K!TakeHint, K!Connect, K!Register, K!Drop, K!Blame, K!bounds
<1>10. ASSUME NEW c \in actions, K!Answered(c) \/ K!Refused(c) PROVE CallsFollow
  BY <1>7, <1>10 DEF K!Answered, K!Refused, K!bounds
<1>11. ASSUME NEW f \in fetches,
              \/ K!ReadRequests(f) \/ K!ReadFriends(f) \/ K!FetchFails(f)
              \/ K!ApplyPage(f) \/ K!ApplyNowhere(f) \/ K!ApplyCount(f) \/ K!ApplyList(f)
       PROVE CallsFollow
  BY <1>7, <1>11 DEF K!ReadRequests, K!ReadFriends, K!FetchFails, K!ApplyPage, K!ApplyNowhere, K!ApplyCount,
    K!ApplyList, K!bounds
<1>12. CASE UNCHANGED K!vars
  BY <1>7, <1>12 DEF K!vars, K!bounds
<1>13. QED BY <1>2, <1>3, <1>4, <1>5, <1>6, <1>8, <1>9, <1>10, <1>11, <1>12 DEF K!Next

LEMMA FriendshipChanges ==
  ASSUME ContactsTyped, [K!Next]_(K!vars)
  PROVE  FriendshipFollows
<1>1. CASE friendship' \in {friendship, 0}
  BY <1>1 DEF FriendshipFollows
<1>2. CASE K!PeerAnswers
  BY <1>2 DEF K!PeerAnswers, K!Act, K!New, FriendshipFollows
<1>3. ASSUME NEW c \in actions, K!Handle(c) PROVE FriendshipFollows
  <2>1. actions' = (actions \ {c}) \cup {[c EXCEPT !.at = "done"]} /\ acts' = acts /\ c.at = "asked"
    BY <1>3 DEF K!Handle, K!Goes, K!bounds
  <2>2. friendship' \in {friendship, 0} \/ (c.op = "accept" /\ friendship' = c.n)
    BY <1>3 DEF K!Handle, K!Unfriended
  <2>3. QED BY <2>1, <2>2 DEF FriendshipFollows
<1>4. QED BY <1>1, <1>2, <1>3 DEF K!Next, K!vars, K!server, K!PeerAsks, K!PeerDeletes, K!PeerClears,
  K!Unfriended, K!PressMenu, K!Press, K!Refuse, K!Answered, K!Refused, K!OpenContacts, K!LeaveContacts,
  K!MessageFriend, K!TakeHint, K!Connect, K!Register, K!Drop, K!Blame, K!ReadRequests, K!ReadFriends,
  K!FetchFails, K!ApplyPage, K!ApplyNowhere, K!ApplyCount, K!ApplyList

(* What is seen after a step was seen before, or is the friendship now.    *)
LEMMA SeenFollows ==
  ASSUME ContactsTyped, ConnectionIsTold, PageIsThere, FollowedAreFetched, [K!Next]_(K!vars)
  PROVE  SeenIds' \subseteq SeenIds \cup {0, friendship'}
<1> DEFINE Kept(v) == v \in SeenIds \cup {0, friendship'}
<1>1. /\ \A f \in fetches : f.friend # None => f.friend \in SeenIds
      /\ \A c \in actions : c.op = "menu" => c.target \in SeenIds
      /\ {friendship, friend, onPage.friend} \subseteq SeenIds
  BY DEF SeenIds
<1>2. actions \subseteq Action /\ K!Blank.friend = 0
  BY DEF ContactsTyped, K!Blank
<1>3. Kept(friend')
  <2>1. ASSUME NEW c \in actions, K!Answered(c) PROVE friend' \in {0, friend}
    BY <2>1 DEF K!Answered
  <2>2. CASE K!MessageFriend
    BY <1>1, <2>2 DEF K!MessageFriend
  <2>3. ASSUME NEW f \in fetches, K!ApplyList(f) PROVE friend' = f.friend /\ f.friend # None
    BY <2>3 DEF K!ApplyList
  <2>4. ASSUME NEW f \in fetches, K!FetchFails(f) PROVE friend' \in {0, friend}
    BY <2>4 DEF K!FetchFails
  <2>5. CASE friend' = friend
    BY <1>1, <2>5
  <2>6. QED BY <1>1, <2>1, <2>2, <2>3, <2>4, <2>5 DEF K!Next, K!vars, K!main, K!PeerAsks, K!PeerAnswers,
    K!PeerDeletes, K!PeerClears, K!PressMenu, K!Press, K!Handle, K!Refuse, K!Refused, K!OpenContacts,
    K!LeaveContacts, K!TakeHint, K!Connect, K!Register, K!Drop, K!Blame, K!ReadRequests, K!ReadFriends,
    K!ApplyPage, K!ApplyNowhere, K!ApplyCount
<1>4. Kept(onPage'.friend)
  <2>1. ASSUME NEW f \in fetches, K!ApplyPage(f) PROVE onPage'.friend = f.friend /\ f.friend # None
    BY <2>1 DEF K!ApplyPage
  <2>2. CASE K!LeaveContacts \/ K!MessageFriend
    BY <1>2, <2>2 DEF K!LeaveContacts, K!MessageFriend, K!Leave
  <2>3. CASE onPage' = onPage
    BY <1>1, <2>3
  <2>4. QED BY <1>1, <2>1, <2>2, <2>3 DEF K!Next, K!vars, K!page, K!PeerAsks, K!PeerAnswers,
    K!PeerDeletes, K!PeerClears, K!PressMenu, K!Press, K!Handle, K!Refuse, K!Answered, K!Refused, K!OpenContacts,
    K!TakeHint, K!Connect, K!Register, K!Drop, K!Blame, K!ReadRequests, K!ReadFriends, K!FetchFails,
    K!ApplyNowhere, K!ApplyCount, K!ApplyList
<1>5. ASSUME NEW f \in fetches', f.friend # None PROVE Kept(f.friend)
  <2>1. PICK copies \in SUBSET followed : StepIs(copies)
    BY EveryStep
  <2>2. QED BY <1>1, <1>5, <2>1 DEF StepIs, FetchesFollow, Drops
<1>6. ASSUME NEW c \in actions', c.op = "menu" PROVE Kept(c.target)
  <2>1. CASE actions' \subseteq actions
    BY <1>1, <1>6, <2>1
  <2>2. ASSUME NEW d \in actions, NEW at, actions' = (actions \ {d}) \cup {[d EXCEPT !.at = at]} PROVE Kept(c.target)
    BY <1>1, <1>2, <1>6, <2>2 DEF Action
  <2>3. CASE actions' = {[d EXCEPT !.here = FALSE] : d \in actions}
    BY <1>1, <1>2, <1>6, <2>3 DEF Action
  <2>4. ASSUME NEW d \in Action, actions' = actions \cup {d}, d.op = "menu" => d.target = friend PROVE Kept(c.target)
    BY <1>1, <1>6, <2>4
  <2>5. CallsFollow
    BY CallsChange
  <2>6. QED BY <2>1, <2>2, <2>3, <2>4, <2>5 DEF CallsFollow
<1>7. QED BY <1>3, <1>4, <1>5, <1>6 DEF SeenIds

LEMMA IdsStayNew ==
  ASSUME ContactsTyped, ConnectionIsTold, PageIsThere, FollowedAreFetched, IdsAreNew, [K!Next]_(K!vars)
  PROVE  IdsAreNew'
<1>1. /\ acts \in Nat /\ actions \subseteq Action /\ SeenIds \subseteq 0 .. acts + 1
      /\ \A c \in actions : c.n \in 2 .. acts + 1 /\ (c.op = "menu" => c.target # 0)
      /\ \A c \in actions : c.at = "asked" => c.n \notin SeenIds
      /\ \A c, d \in actions : c.n = d.n => c = d
      /\ \A c \in actions : c \in Action
  BY DEF ContactsTyped, IdsAreNew, Id
<1>2. friendship \in SeenIds /\ SeenIds' \subseteq SeenIds \cup {0, friendship'}
  BY SeenFollows DEF SeenIds
<1>3. acts' \in {acts, acts + 1}
  BY CallsChange DEF CallsFollow
<1>4. friendship' \in 0 .. acts' + 1
  BY <1>1, <1>2, <1>3, FriendshipChanges DEF FriendshipFollows
<1>5. SeenIds' \subseteq Id'
  <2>0. acts \in Nat /\ (acts' = acts \/ acts' = acts + 1)
    BY <1>1, <1>3
  <2>1. \A v \in 0 .. acts + 1 : v \in 0 .. acts' + 1
    BY <2>0
  <2>2. 0 \in 0 .. acts' + 1
    BY <2>0
  <2>3. SeenIds' \subseteq 0 .. acts' + 1
    BY <1>1, <1>2, <1>4, <2>1, <2>2
  <2>4. QED BY <2>3 DEF Id
<1>6. \A d \in actions' :
        \/ d.n = acts + 2 /\ acts' = acts + 1 /\ (d.op = "menu" => friend # 0 /\ d.target = friend)
           /\ friendship' = friendship
        \/ \E c \in actions : d.n = c.n /\ d.op = c.op /\ d.target = c.target /\ (d.at = "asked" => c.at = "asked")
  <2>1. CASE actions' \subseteq actions
    BY <2>1
  <2>2. ASSUME NEW c \in actions, NEW at \in {"done", "refused"}, actions' = (actions \ {c}) \cup {[c EXCEPT !.at = at]}
        PROVE  \A d \in actions' : \E x \in actions :
                 d.n = x.n /\ d.op = x.op /\ d.target = x.target /\ (d.at = "asked" => x.at = "asked")
    BY <1>1, <2>2 DEF Action
  <2>3. CASE actions' = {[c EXCEPT !.here = FALSE] : c \in actions}
    BY <1>1, <2>3 DEF Action
  <2>4. ASSUME NEW d \in Action, actions' = actions \cup {d}, d.n = acts + 2, acts' = acts + 1,
               friendship' = friendship, d.op = "menu" => d.target = friend /\ friend # 0
        PROVE  \A x \in actions' : x \in actions \/ x = d
    BY <2>4
  <2>5. CallsFollow
    BY CallsChange
  <2>6. QED BY <2>1, <2>2, <2>3, <2>4, <2>5 DEF CallsFollow
<1>7. \A c \in actions' : c.n \in 2 .. acts' + 1 /\ (c.op = "menu" => c.target # 0)
  BY <1>1, <1>3, <1>6
<1>8. \A c \in actions' : c.at = "asked" => c.n \notin SeenIds'
  <2> SUFFICES ASSUME NEW d \in actions', d.at = "asked" PROVE d.n \notin SeenIds' OBVIOUS
  <2>1. CASE d.n = acts + 2 /\ friendship' = friendship
    BY <1>1, <1>2, <2>1
  <2>2. ASSUME NEW c \in actions, d.n = c.n, c.at = "asked" PROVE d.n \notin SeenIds'
    <3>1. c.n \notin SeenIds /\ c.n # 0 /\ c.n # acts + 2
      BY <1>1, <2>2
    <3>2. CASE friendship' \in {friendship, 0}
      BY <1>2, <2>2, <3>1, <3>2
    <3>3. CASE friendship' = acts + 2
      BY <1>2, <2>2, <3>1, <3>3
    <3>4. ASSUME NEW x \in actions, friendship' = x.n, actions' = (actions \ {x}) \cup {[x EXCEPT !.at = "done"]}
          PROVE  d.n \notin SeenIds'
      <4>1. d \in actions \ {x}
        BY <1>1, <3>4 DEF Action
      <4>2. d.n # x.n
        BY <1>1, <4>1
      <4>3. QED BY <1>2, <2>2, <3>1, <3>4, <4>2
    <3>5. QED BY <3>2, <3>3, <3>4, FriendshipChanges DEF FriendshipFollows
  <2>3. QED BY <1>6, <2>1, <2>2
<1>9. \A c, d \in actions' : c.n = d.n => c = d
  <2>1. CASE actions' \subseteq actions
    BY <1>1, <2>1
  <2>2. ASSUME NEW x \in actions, NEW at \in {"done", "refused"}, actions' = (actions \ {x}) \cup {[x EXCEPT !.at = at]}
        PROVE  \A c, d \in actions' : c.n = d.n => c = d
    <3>1. [x EXCEPT !.at = at].n = x.n
      BY <1>1 DEF Action
    <3>2. QED BY <1>1, <2>2, <3>1
  <2>3. CASE actions' = {[c EXCEPT !.here = FALSE] : c \in actions}
    <3>1. \A c \in actions : [c EXCEPT !.here = FALSE].n = c.n
      BY <1>1 DEF Action
    <3>2. ASSUME NEW c \in actions', NEW d \in actions', c.n = d.n PROVE c = d
      <4>1. PICK x \in actions : c = [x EXCEPT !.here = FALSE]
        BY <2>3
      <4>2. PICK y \in actions : d = [y EXCEPT !.here = FALSE]
        BY <2>3
      <4>3. x = y
        BY <1>1, <3>1, <3>2, <4>1, <4>2
      <4>4. QED BY <4>1, <4>2, <4>3
    <3>3. QED BY <3>2
  <2>4. ASSUME NEW x \in Action, actions' = actions \cup {x}, x.n = acts + 2
        PROVE  \A c, d \in actions' : c.n = d.n => c = d
    <3>1. \A c \in actions : c.n # x.n
      BY <1>1, <2>4
    <3>2. QED BY <1>1, <2>4, <3>1
  <2>5. CallsFollow
    BY CallsChange
  <2>6. QED BY <2>1, <2>2, <2>3, <2>4, <2>5 DEF CallsFollow
<1>10. QED BY <1>5, <1>7, <1>8, <1>9 DEF IdsAreNew

LEMMA MenuStaysDeleted ==
  ASSUME ContactsTyped, IdsAreNew, MenuHasDeleted, [K!Next]_(K!vars)
  PROVE  MenuHasDeleted'
<1>1. /\ acts \in Nat /\ \A c \in actions : c \in Action
      /\ \A c \in actions : c.op = "menu" => c.target \in SeenIds /\ c.target # 0
      /\ \A c \in actions : c.at = "asked" => c.n \notin SeenIds
      /\ \A v \in SeenIds : v # acts + 2
  BY DEF ContactsTyped, IdsAreNew, SeenIds, Id
<1>2. \A c \in actions : c.op = "menu" /\ c.at = "done" => friendship # c.target
  BY DEF MenuHasDeleted
<1>3. \A c \in actions : c.op = "menu" /\ c.at = "done" => friendship' # c.target
  BY <1>1, <1>2, FriendshipChanges DEF FriendshipFollows
<1>4. SUFFICES \A d \in actions' : d.op = "menu" /\ d.at = "done" => friendship' # d.target
  BY DEF MenuHasDeleted
<1>5. CASE actions' \subseteq actions
  BY <1>3, <1>5
<1>6. ASSUME NEW c \in actions, NEW at \in {"done", "refused"}, actions' = (actions \ {c}) \cup {[c EXCEPT !.at = at]},
             c.op = "menu" /\ at = "done" => friendship' = 0
      PROVE \A d \in actions' : d.op = "menu" /\ d.at = "done" => friendship' # d.target
  BY <1>1, <1>3, <1>6 DEF Action
<1>7. CASE actions' = {[c EXCEPT !.here = FALSE] : c \in actions}
  BY <1>1, <1>3, <1>7 DEF Action
<1>8. ASSUME NEW d \in Action, actions' = actions \cup {d}, d.at = "asked"
      PROVE \A c \in actions' : c.op = "menu" /\ c.at = "done" => friendship' # c.target
  BY <1>3, <1>8
<1>9. CallsFollow
  BY CallsChange
<1>10. QED BY <1>5, <1>6, <1>7, <1>8, <1>9 DEF CallsFollow

-----------------------------------------------------------------------------
(* The invariant                                                           *)

LEMMA ContactsBegin == K!Init => ContactsInv
<1> SUFFICES ASSUME K!Init PROVE ContactsInv OBVIOUS
<1>1. PICK look \in Looks : followed = look.at /\ acts = look.acts
  BY DEF K!Init
<1>2. followed \subseteq K!Copy /\ acts \in Nat
  BY <1>1, LooksAssumption DEF K!Copy
<1>3. /\ line = "none" /\ hints = 0 /\ online = FALSE /\ mounted = FALSE /\ onPage = [request |-> K!NoRow, friend |-> 0]
      /\ friend = 0 /\ actions = {} /\ fresh = {} /\ lost = {}
  BY DEF K!Init, K!Blank
<1>4. K!NoRow \in Shown /\ request \in Shown /\ friendship \in {0, 1}
  BY DEF K!Init, K!NoRow, Shown
<1>5. \A f \in fetches : f \in Fetch /\ f.request = None /\ f.friend = None /\ f.of \in followed \ {"page"}
  <2>1. ASSUME NEW c \in K!Copy, NEW first \in BOOLEAN
        PROVE  /\ K!Fetch(c, first, "no") \in Fetch /\ K!Fetch(c, first, "no").of = c
               /\ K!Fetch(c, first, "no").request = None /\ K!Fetch(c, first, "no").friend = None
    BY DEF K!Fetch, Fetch
  <2>2. fetches = {K!Fetch(c, c = "list", "no") : c \in followed \ {"page"}}
    BY DEF K!Init
  <2>3. \A c \in followed \ {"page"} : \E first \in BOOLEAN : K!Fetch(c, c = "list", "no") = K!Fetch(c, first, "no")
    BY DEF K!Fetch
  <2>4. ASSUME NEW f \in fetches
        PROVE  \E c \in followed \ {"page"}, first \in BOOLEAN : f = K!Fetch(c, first, "no")
    BY <2>2, <2>3
  <2>5. QED BY <1>2, <2>1, <2>4
<1>6. ContactsTyped /\ ConnectionIsTold
  <2>1. onPage \in [request : Shown, friend : Nat] /\ fetches \subseteq Fetch /\ friendship \in Nat
    BY <1>3, <1>4, <1>5
  <2>2. QED BY <1>2, <1>3, <1>4, <2>1 DEF ContactsTyped, ConnectionIsTold
<1>7. PageIsThere /\ FollowedAreFetched
  BY <1>3, <1>5 DEF PageIsThere, FollowedAreFetched
<1>8. IdsAreNew /\ MenuHasDeleted
  <2>1. SeenIds \subseteq {0, 1}
    BY <1>3, <1>4, <1>5 DEF SeenIds
  <2>2. QED BY <1>2, <1>3, <2>1 DEF IdsAreNew, MenuHasDeleted, Id
<1>9. CountIsKnown /\ ListIsKnown /\ PageFriendsAreKnown /\ PageRequestsAreKnown
  BY <1>3, <1>5 DEF CountIsKnown, ListIsKnown, PageFriendsAreKnown, PageRequestsAreKnown
<1>10. QED BY <1>6, <1>7, <1>8, <1>9 DEF ContactsInv

LEMMA ContactsStay == ContactsInv /\ [K!Next]_(K!vars) => ContactsInv'
<1> SUFFICES ASSUME ContactsInv, [K!Next]_(K!vars) PROVE ContactsInv' OBVIOUS
<1> USE DEF ContactsInv
<1>1. ContactsTyped' /\ ConnectionIsTold' /\ PageIsThere' /\ FollowedAreFetched'
  BY TypesStay, ConnectionStaysTold, PageStaysThere, FollowedStayFetched
<1>2. IdsAreNew' /\ MenuHasDeleted'
  BY IdsStayNew, MenuStaysDeleted
<1>3. CountIsKnown' /\ PageFriendsAreKnown' /\ PageRequestsAreKnown' /\ ListIsKnown'
  BY KnownStays, ListStaysKnown
<1>4. QED BY <1>1, <1>2, <1>3

(* Every hint that is sent and every fetch that is begun keeps what is     *)
(* known of the copies: a copy with the answer of its latest fetch is      *)
(* right, or a hint is coming, or it was not told of a change.             *)
THEOREM ContactsInvariant == K!Spec => []ContactsInv
BY ContactsBegin, ContactsStay, PTL DEF K!Spec

(* What a client shows of its contacts once it is quiet is what the server *)
(* has, for every sequence of changes, hints, fetches and connections.     *)
THEOREM ContactsAreRight == K!Spec => []QuietContactsAreRight
<1>1. ContactsInv => QuietContactsAreRight
  <2> SUFFICES ASSUME ContactsInv, K!Quiet
               PROVE  /\ mounted /\ K!Right("page") => onPage = [request |-> request, friend |-> friendship]
                      /\ K!Right("count") => count = K!Waits(request)
                      /\ K!Right("list") /\ loaded => friend = friendship \/ vouched
    BY DEF QuietContactsAreRight, K!QuietContactsAreRight
  <2>1. actions = {} /\ hints = 0 /\ line = "served"
    BY DEF K!Quiet
  <2>2. onPage = [request |-> onPage.request, friend |-> onPage.friend]
    BY DEF ContactsInv, ContactsTyped
  <2>3. QED BY <2>1, <2>2 DEF ContactsInv, CountIsKnown, ListIsKnown, PageFriendsAreKnown,
    PageRequestsAreKnown, Clearing, K!Right
<1>2. QED BY <1>1, ContactsInvariant, PTL
=============================================================================
