------------------------------ MODULE Friends ------------------------------
(***************************************************************************)
(* Pairing codes, friend requests and friendships: FriendsService.         *)
(*                                                                         *)
(* createPairingCode, createRequest, acceptRequest and rejectRequest read  *)
(* in one statement and write in a later one.  What such a handler has     *)
(* read waits in minting, asking, accepting or rejecting until it writes;  *)
(* the reads of one handler are taken together.  A transaction that a      *)
(* unique index or a missing row makes fail leaves every row as it was.    *)
(* deleteFriend deletes by the id it has read, and so does nothing if the  *)
(* friendship has gone; it is one step.                                    *)
(***************************************************************************)
EXTENDS Naturals, FiniteSets

CONSTANTS
  User,
  Code,       \* rows of friend_pairing_codes
  Row,        \* rows of friend_requests
  None,       \* no user, no code, no request
  MaxAnswers  \* bound: answers to one request between their read and their write

ASSUME NoneAssumption == None \notin User \cup Code \cup Row
ASSUME BoundAssumption == MaxAnswers \in Nat

VARIABLES
  codeOwner,   \* who has created a code
  codeState,   \* a code is live until it is consumed or expires
  minting,     \* createPairingCode: the new code, and those it consumes
  asking,      \* createRequest after its checks: who, and with which code
  requester,   \* requesterId of a request
  addressee,   \* addresseeId of a request
  status,      \* of a request, "cleared" once the row is deleted
  madeWith,    \* history: the code a request was made with
  accepting,   \* how many acceptRequest calls have read a request as PENDING
  rejecting,   \* how many rejectRequest calls have
  friends,     \* the pairs with a row in friendships
  origin,      \* createdFromRequestId
  ended        \* history: the pairs whose friendship was deleted

codes    == <<codeOwner, codeState, minting>>
requests == <<requester, addressee, status, madeWith>>
answers  == <<accepting, rejecting>>
pairs    == <<friends, origin, ended>>
vars == <<codes, asking, requests, answers, pairs>>

CodeState == {"none", "live", "dead"}
Status    == {"none", "PENDING", "ACCEPTED", "REJECTED", "cleared"}
Pair      == {p \in SUBSET User : \E u, v \in User : u # v /\ p = {u, v}}
Ask       == [user : User, code : Code]
Mint      == [user : User, code : Code, old : SUBSET Code]

(* The rows that are in the table. *)
Requests  == {r \in Row : status[r] \notin {"none", "cleared"}}
PairOf(r) == {requester[r], addressee[r]}
Between(u, v) == {r \in Requests : PairOf(r) = {u, v}}

-----------------------------------------------------------------------------
(* createPairingCode                                                       *)

(* The transaction finds the live codes of the user. *)
MintBegin(u, c) ==
  /\ codeState[c] = "none" /\ \A x \in minting : x.code # c
  /\ minting' = minting \cup
       {[user |-> u, code |-> c,
         old |-> {d \in Code : codeOwner[d] = u /\ codeState[d] = "live"}]}
  /\ UNCHANGED <<codeOwner, codeState, asking, requests, answers, pairs>>

MintCommit(x) ==
  /\ x \in minting
  /\ minting' = minting \ {x}
  /\ codeOwner' = [codeOwner EXCEPT ![x.code] = x.user]
  /\ codeState' = [c \in Code |-> IF c = x.code THEN "live"
                                  ELSE IF c \in x.old THEN "dead" ELSE codeState[c]]
  /\ UNCHANGED <<asking, requests, answers, pairs>>

(* expiresAt passes. *)
Expire(c) ==
  /\ codeState[c] = "live"
  /\ codeState' = [codeState EXCEPT ![c] = "dead"]
  /\ UNCHANGED <<codeOwner, minting, asking, requests, answers, pairs>>

-----------------------------------------------------------------------------
(* createRequest                                                           *)

AskRead(u, c) ==
  /\ codeState[c] = "live" /\ codeOwner[c] # u
  /\ {u, codeOwner[c]} \notin friends /\ Between(u, codeOwner[c]) = {}
  /\ asking' = asking \cup {[user |-> u, code |-> c]}
  /\ UNCHANGED <<codes, requests, answers, pairs>>

(* Mutant: no unique index on requester and addressee. *)
NeverAsked(u, v) == u \in User /\ v \in User

(* The unique index on requester and addressee has room. *)
NotAsked(u, v) == \A r \in Requests : ~(requester[r] = u /\ addressee[r] = v)

(* The code is consumed by its id, whatever has become of it meanwhile. *)
AskWrite(x, r) ==
  LET v == codeOwner[x.code] IN
  /\ x \in asking /\ status[r] = "none" /\ NotAsked(x.user, v)
  /\ asking' = asking \ {x}
  /\ codeState' = [codeState EXCEPT ![x.code] = "dead"]
  /\ requester' = [requester EXCEPT ![r] = x.user]
  /\ addressee' = [addressee EXCEPT ![r] = v]
  /\ status' = [status EXCEPT ![r] = "PENDING"]
  /\ madeWith' = [madeWith EXCEPT ![r] = x.code]
  /\ UNCHANGED <<codeOwner, minting, answers, pairs>>

AskFail(x) ==
  /\ x \in asking /\ ~NotAsked(x.user, codeOwner[x.code])
  /\ asking' = asking \ {x}
  /\ UNCHANGED <<codes, requests, answers, pairs>>

-----------------------------------------------------------------------------
(* acceptRequest and rejectRequest                                         *)

FreeAnswer(r) == accepting[r] + rejecting[r] < MaxAnswers

AcceptRead(r) ==
  /\ status[r] = "PENDING" /\ PairOf(r) \notin friends /\ FreeAnswer(r)
  /\ accepting' = [accepting EXCEPT ![r] = @ + 1]
  /\ UNCHANGED <<codes, asking, requests, rejecting, pairs>>

(* Mutant: the status is written outside of the transaction. *)
AcceptStatusFirst(r) ==
  /\ accepting[r] > 0 /\ r \in Requests /\ PairOf(r) \notin friends
  /\ accepting' = [accepting EXCEPT ![r] = @ - 1]
  /\ status' = [status EXCEPT ![r] = "ACCEPTED"]
  /\ UNCHANGED <<codes, asking, requester, addressee, madeWith, rejecting, pairs>>

(* The status is written by id, the friendship under its unique index. *)
AcceptWrite(r) ==
  /\ accepting[r] > 0 /\ r \in Requests /\ PairOf(r) \notin friends
  /\ accepting' = [accepting EXCEPT ![r] = @ - 1]
  /\ status' = [status EXCEPT ![r] = "ACCEPTED"]
  /\ friends' = friends \cup {PairOf(r)}
  /\ origin' = [origin EXCEPT ![PairOf(r)] = r]
  /\ UNCHANGED <<codes, asking, requester, addressee, madeWith, rejecting, ended>>

AcceptFail(r) ==
  /\ accepting[r] > 0 /\ (r \notin Requests \/ PairOf(r) \in friends)
  /\ accepting' = [accepting EXCEPT ![r] = @ - 1]
  /\ UNCHANGED <<codes, asking, requests, rejecting, pairs>>

RejectRead(r) ==
  /\ status[r] = "PENDING" /\ FreeAnswer(r)
  /\ rejecting' = [rejecting EXCEPT ![r] = @ + 1]
  /\ UNCHANGED <<codes, asking, requests, accepting, pairs>>

(* The status is written by id. *)
RejectWrite(r) ==
  /\ rejecting[r] > 0 /\ r \in Requests
  /\ rejecting' = [rejecting EXCEPT ![r] = @ - 1]
  /\ status' = [status EXCEPT ![r] = "REJECTED"]
  /\ UNCHANGED <<codes, asking, requester, addressee, madeWith, accepting, pairs>>

RejectFail(r) ==
  /\ rejecting[r] > 0 /\ r \notin Requests
  /\ rejecting' = [rejecting EXCEPT ![r] = @ - 1]
  /\ UNCHANGED <<codes, asking, requests, accepting, pairs>>

-----------------------------------------------------------------------------
(* clearRequestHistory and deleteFriend                                    *)

Answered(u) == {r \in Row : status[r] \in {"ACCEPTED", "REJECTED"} /\ u \in PairOf(r)}

(* Mutant: the friendships keep the id of a request that is gone. *)
ClearKeepingOrigin(u) ==
  /\ Answered(u) # {}
  /\ status' = [r \in Row |-> IF r \in Answered(u) THEN "cleared" ELSE status[r]]
  /\ UNCHANGED <<codes, asking, requester, addressee, madeWith, answers, pairs>>

(* The foreign key of the friendships is set to null. *)
ClearHistory(u) ==
  /\ Answered(u) # {}
  /\ status' = [r \in Row |-> IF r \in Answered(u) THEN "cleared" ELSE status[r]]
  /\ origin' = [p \in Pair |-> IF origin[p] \in Answered(u) THEN None ELSE origin[p]]
  /\ UNCHANGED <<codes, asking, requester, addressee, madeWith, answers, friends, ended>>

DeleteFriend(p) ==
  /\ p \in friends
  /\ friends' = friends \ {p}
  /\ origin' = [origin EXCEPT ![p] = None]
  /\ ended' = ended \cup {p}
  /\ UNCHANGED <<codes, asking, requests, answers>>

-----------------------------------------------------------------------------
Init ==
  /\ codeOwner = [c \in Code |-> None]
  /\ codeState = [c \in Code |-> "none"]
  /\ minting = {} /\ asking = {}
  /\ requester = [r \in Row |-> None]
  /\ addressee = [r \in Row |-> None]
  /\ status = [r \in Row |-> "none"]
  /\ madeWith = [r \in Row |-> None]
  /\ accepting = [r \in Row |-> 0]
  /\ rejecting = [r \in Row |-> 0]
  /\ friends = {} /\ ended = {}
  /\ origin = [p \in Pair |-> None]

Next ==
  \/ \E u \in User, c \in Code : MintBegin(u, c) \/ AskRead(u, c)
  \/ \E x \in minting : MintCommit(x)
  \/ \E c \in Code : Expire(c)
  \/ \E x \in asking : AskFail(x) \/ \E r \in Row : AskWrite(x, r)
  \/ \E r \in Row : \/ AcceptRead(r) \/ AcceptWrite(r) \/ AcceptFail(r)
                    \/ RejectRead(r) \/ RejectWrite(r) \/ RejectFail(r)
  \/ \E u \in User : ClearHistory(u)
  \/ \E p \in Pair : DeleteFriend(p)

Spec == Init /\ [][Next]_vars

-----------------------------------------------------------------------------
TypeOK ==
  /\ codeOwner \in [Code -> User \cup {None}]
  /\ codeState \in [Code -> CodeState]
  /\ minting \in SUBSET Mint
  /\ asking \in SUBSET Ask
  /\ requester \in [Row -> User \cup {None}]
  /\ addressee \in [Row -> User \cup {None}]
  /\ \A r \in Row : status[r] # "none" => PairOf(r) \in Pair
  /\ status \in [Row -> Status]
  /\ madeWith \in [Row -> Code \cup {None}]
  /\ accepting \in [Row -> 0 .. MaxAnswers]
  /\ rejecting \in [Row -> 0 .. MaxAnswers]
  /\ friends \in SUBSET Pair
  /\ origin \in [Pair -> Row \cup {None}]
  /\ ended \in SUBSET Pair

(* A friendship that names a request names one between its two users that  *)
(* was answered and is still there, through every race of answers with the *)
(* clearing of the history.                                                *)
OriginIsAnswered ==
  \A p \in Pair : origin[p] # None =>
    /\ p \in friends
    /\ PairOf(origin[p]) = p
    /\ status[origin[p]] \in {"ACCEPTED", "REJECTED"}

(* Accepting is all or nothing: an accepted request has made its two users *)
(* friends, and only deleteFriend can have ended that.                     *)
AcceptedMadeFriends ==
  \A r \in Row : status[r] = "ACCEPTED" => PairOf(r) \in friends \cup ended

(* createRequest refuses when a request exists in either direction, and    *)
(* two that run together pass that check.  All that comes of it are two    *)
(* requests that cross: one that is pending between friends is the other   *)
(* half of the one that made them friends.                                 *)
PendingCrossesOrigin ==
  \A r \in Row : status[r] = "PENDING" /\ PairOf(r) \in friends =>
    LET q == origin[PairOf(r)] IN
    q # None => requester[q] = addressee[r] /\ addressee[q] = requester[r]

(* A code that has made a request stays consumed, so that no later call    *)
(* finds it, whichever of the handlers that had found it wrote first.      *)
UsedCodesAreDead ==
  \A r \in Row : status[r] # "none" => codeState[madeWith[r]] = "dead"

=============================================================================
