--------------------------- MODULE FriendsProofs ---------------------------
(***************************************************************************)
(* Proofs about Friends, for every set of users, codes and requests and    *)
(* every number of answers between their read and their write.  The        *)
(* inductive invariant, IInv, says what an open createPairingCode,         *)
(* createRequest, acceptRequest or rejectRequest may still rely on.        *)
(***************************************************************************)
EXTENDS Friends, TLAPS

(* A request is from one user to another and was made with a code. *)
RowsHavePeople ==
  \A r \in Row : status[r] # "none" =>
    requester[r] \in User /\ addressee[r] \in User \ {requester[r]} /\ madeWith[r] \in Code

(* The unique index on requester and addressee. *)
OneRowEach ==
  \A q, r \in Requests : requester[q] = requester[r] /\ addressee[q] = addressee[r] => q = r

(* A code that exists has an owner. *)
CodesHaveOwners == \A c \in Code : codeState[c] # "none" => codeOwner[c] \in User

(* A code is not seen while its transaction is open, and has one. *)
OpenMintsAreUnseen ==
  /\ \A x \in minting : codeState[x.code] = "none" /\ \A c \in x.old : codeState[c] # "none"
  /\ \A x, y \in minting : x.code = y.code => x = y

(* createRequest has found a code of another user. *)
AskersFoundCodes ==
  \A x \in asking : codeState[x.code] # "none" /\ codeOwner[x.code] # x.user

(* An answer is to a request that was made. *)
AnswersSawRows == \A r \in Row : accepting[r] > 0 \/ rejecting[r] > 0 => status[r] # "none"

IInv ==
  /\ TypeOK
  /\ RowsHavePeople
  /\ OneRowEach
  /\ CodesHaveOwners
  /\ OpenMintsAreUnseen
  /\ AskersFoundCodes
  /\ AnswersSawRows
  /\ OriginIsAnswered
  /\ AcceptedMadeFriends
  /\ UsedCodesAreDead

-----------------------------------------------------------------------------
(* Each action keeps the invariant.  The conjuncts it cannot disturb come   *)
(* last: none of their variables changes.                                  *)

(* A step of MintBegin keeps the inductive invariant.                      *)
LEMMA MintBeginKeeps ==
  ASSUME IInv, NEW u \in User, NEW c \in Code,
         MintBegin(u, c)
  PROVE  IInv'
<1>1. TypeOK'
  <2>1. minting' \in SUBSET Mint
    BY DEF IInv, TypeOK, MintBegin, Mint
  <2>2. \A q \in Row : status'[q] # "none" => PairOf(q)' \in Pair
    BY DEF IInv, TypeOK, MintBegin, requests, PairOf
  <2>3. QED BY <2>1, <2>2 DEF IInv, TypeOK, MintBegin, requests, answers, pairs
<1>2. OpenMintsAreUnseen'
  <2> DEFINE new == [user |-> u, code |-> c,
                     old |-> {d \in Code : codeOwner[d] = u /\ codeState[d] = "live"}]
  <2>1. minting' = minting \cup {new} /\ UNCHANGED codeState
    BY DEF MintBegin
  <2>2. codeState[c] = "none" /\ \A x \in minting : x.code # c
    BY DEF MintBegin
  <2>3. new.code = c /\ \A d \in new.old : codeState[d] # "none"
    OBVIOUS
  <2> HIDE DEF new
  <2>4. QED BY <2>1, <2>2, <2>3 DEF IInv, OpenMintsAreUnseen
<1>3. /\ RowsHavePeople' /\ OneRowEach' /\ CodesHaveOwners' /\ AskersFoundCodes' /\
        AnswersSawRows' /\ OriginIsAnswered' /\ AcceptedMadeFriends' /\
        UsedCodesAreDead'
  BY DEF IInv, RowsHavePeople, OneRowEach, Requests, CodesHaveOwners,
    AskersFoundCodes, AnswersSawRows, OriginIsAnswered, PairOf,
    AcceptedMadeFriends, UsedCodesAreDead, MintBegin, requests, answers, pairs
<1>4. QED
  BY <1>1, <1>2, <1>3 DEF IInv

(* A step of MintCommit keeps the inductive invariant.                     *)
LEMMA MintCommitKeeps ==
  ASSUME IInv, NEW x \in minting, MintCommit(x)
  PROVE  IInv'
<1>1. TypeOK'
  BY NoneAssumption, BoundAssumption DEF IInv, TypeOK, CodeState, Status, Mint,
    Ask, PairOf, Pair, MintCommit, requests, answers, pairs
<1>2. CodesHaveOwners'
  BY NoneAssumption, BoundAssumption DEF IInv, TypeOK, CodesHaveOwners,
    CodeState, Status, Mint, Ask, RowsHavePeople, OpenMintsAreUnseen,
    AskersFoundCodes, AnswersSawRows, Requests, PairOf, NotAsked, MintCommit,
    requests, answers, pairs
<1>3. OpenMintsAreUnseen'
  BY NoneAssumption, BoundAssumption DEF IInv, TypeOK, OpenMintsAreUnseen,
    CodeState, Status, Mint, Ask, MintCommit, requests, answers, pairs
<1>4. AskersFoundCodes'
  BY NoneAssumption, BoundAssumption DEF IInv, TypeOK, AskersFoundCodes,
    CodeState, Status, Mint, Ask, RowsHavePeople, CodesHaveOwners,
    OpenMintsAreUnseen, AnswersSawRows, Requests, PairOf, NotAsked, MintCommit,
    requests, answers, pairs
<1>5. UsedCodesAreDead'
  BY NoneAssumption, BoundAssumption DEF IInv, TypeOK, UsedCodesAreDead,
    CodeState, Status, Mint, Ask, RowsHavePeople, CodesHaveOwners,
    OpenMintsAreUnseen, AskersFoundCodes, AnswersSawRows, Requests, PairOf,
    NotAsked, MintCommit, requests, answers, pairs
<1>6. /\ RowsHavePeople' /\ OneRowEach' /\ AnswersSawRows' /\ OriginIsAnswered' /\
        AcceptedMadeFriends'
  BY DEF IInv, RowsHavePeople, OneRowEach, Requests, AnswersSawRows,
    OriginIsAnswered, PairOf, AcceptedMadeFriends, MintCommit, requests,
    answers, pairs
<1>7. QED
  BY <1>1, <1>2, <1>3, <1>4, <1>5, <1>6 DEF IInv

(* A step of Expire keeps the inductive invariant.                         *)
LEMMA ExpireKeeps ==
  ASSUME IInv, NEW c \in Code, Expire(c)
  PROVE  IInv'
<1>1. TypeOK'
  BY NoneAssumption, BoundAssumption DEF IInv, TypeOK, CodeState, Status, Mint,
    Ask, PairOf, Pair, Expire, requests, answers, pairs
<1>2. CodesHaveOwners'
  BY NoneAssumption, BoundAssumption DEF IInv, TypeOK, CodesHaveOwners,
    CodeState, Status, Mint, Ask, Expire, requests, answers, pairs
<1>3. OpenMintsAreUnseen'
  BY NoneAssumption, BoundAssumption DEF IInv, TypeOK, OpenMintsAreUnseen,
    CodeState, Status, Mint, Ask, Expire, requests, answers, pairs
<1>4. AskersFoundCodes'
  BY NoneAssumption, BoundAssumption DEF IInv, TypeOK, AskersFoundCodes,
    CodeState, Status, Mint, Ask, Expire, requests, answers, pairs
<1>5. UsedCodesAreDead'
  BY NoneAssumption, BoundAssumption DEF IInv, TypeOK, UsedCodesAreDead,
    CodeState, Status, Mint, Ask, Expire, requests, answers, pairs
<1>6. /\ RowsHavePeople' /\ OneRowEach' /\ AnswersSawRows' /\ OriginIsAnswered' /\
        AcceptedMadeFriends'
  BY DEF IInv, RowsHavePeople, OneRowEach, Requests, AnswersSawRows,
    OriginIsAnswered, PairOf, AcceptedMadeFriends, Expire, requests, answers,
    pairs
<1>7. QED
  BY <1>1, <1>2, <1>3, <1>4, <1>5, <1>6 DEF IInv

(* A step of AskRead keeps the inductive invariant.                        *)
LEMMA AskReadKeeps ==
  ASSUME IInv, NEW u \in User, NEW c \in Code,
         AskRead(u, c)
  PROVE  IInv'
<1>1. TypeOK'
  <2>1. asking' \in SUBSET Ask
    BY DEF IInv, TypeOK, AskRead, Ask
  <2>2. \A q \in Row : status'[q] # "none" => PairOf(q)' \in Pair
    BY DEF IInv, TypeOK, AskRead, requests, PairOf
  <2>3. QED BY <2>1, <2>2 DEF IInv, TypeOK, AskRead, codes, requests, answers, pairs
<1>2. AskersFoundCodes'
  BY NoneAssumption, BoundAssumption DEF IInv, TypeOK, AskersFoundCodes,
    CodeState, Status, Mint, Ask, AskRead, codes, requests, answers, pairs
<1>3. /\ RowsHavePeople' /\ OneRowEach' /\ CodesHaveOwners' /\ OpenMintsAreUnseen' /\
        AnswersSawRows' /\ OriginIsAnswered' /\ AcceptedMadeFriends' /\
        UsedCodesAreDead'
  BY DEF IInv, RowsHavePeople, OneRowEach, Requests, CodesHaveOwners,
    OpenMintsAreUnseen, AnswersSawRows, OriginIsAnswered, PairOf,
    AcceptedMadeFriends, UsedCodesAreDead, AskRead, codes, requests, answers,
    pairs
<1>4. QED
  BY <1>1, <1>2, <1>3 DEF IInv

(* A step of AskWrite keeps the inductive invariant.                       *)
LEMMA AskWriteKeeps ==
  ASSUME IInv, NEW x \in asking, NEW r \in Row,
         AskWrite(x, r)
  PROVE  IInv'
<1>1. TypeOK'
  <2> DEFINE v == codeOwner[x.code]
  <2>1. x.user \in User /\ x.code \in Code
    BY DEF IInv, TypeOK, Ask
  <2>2. v \in User /\ v # x.user
    BY <2>1 DEF IInv, AskersFoundCodes, CodesHaveOwners
  <2>3. /\ requester' = [requester EXCEPT ![r] = x.user]
        /\ addressee' = [addressee EXCEPT ![r] = v]
        /\ status' = [status EXCEPT ![r] = "PENDING"]
        /\ madeWith' = [madeWith EXCEPT ![r] = x.code]
        /\ codeState' = [codeState EXCEPT ![x.code] = "dead"]
    BY DEF AskWrite
  <2>4. ASSUME NEW q \in Row, status'[q] # "none" PROVE PairOf(q)' \in Pair
    <3>1. CASE q = r
      <4>1. PairOf(q)' = {x.user, v}
        BY <2>3, <3>1 DEF PairOf, IInv, TypeOK
      <4>2. QED BY <2>1, <2>2, <4>1 DEF Pair
    <3>2. CASE q # r
      BY <2>3, <2>4, <3>2 DEF PairOf, IInv, TypeOK
    <3>3. QED BY <3>1, <3>2
  <2>5. /\ requester' \in [Row -> User \cup {None}]
        /\ addressee' \in [Row -> User \cup {None}]
        /\ status' \in [Row -> Status]
        /\ madeWith' \in [Row -> Code \cup {None}]
        /\ codeState' \in [Code -> CodeState]
    BY <2>1, <2>2, <2>3 DEF IInv, TypeOK, Status, CodeState
  <2>6. QED BY <2>4, <2>5 DEF IInv, TypeOK, AskWrite, answers, pairs
<1>2. RowsHavePeople'
  BY NoneAssumption, BoundAssumption DEF IInv, TypeOK, RowsHavePeople,
    CodeState, Status, Mint, Ask, CodesHaveOwners, OpenMintsAreUnseen,
    AskersFoundCodes, AnswersSawRows, Requests, PairOf, NotAsked, AskWrite,
    answers, pairs
<1>3. OneRowEach'
  BY NoneAssumption, BoundAssumption DEF IInv, TypeOK, OneRowEach, Requests,
    CodeState, Status, Mint, Ask, RowsHavePeople, CodesHaveOwners,
    OpenMintsAreUnseen, AskersFoundCodes, AnswersSawRows, PairOf, NotAsked,
    AskWrite, answers, pairs
<1>4. CodesHaveOwners'
  BY NoneAssumption, BoundAssumption DEF IInv, TypeOK, CodesHaveOwners,
    CodeState, Status, Mint, Ask, RowsHavePeople, OpenMintsAreUnseen,
    AskersFoundCodes, AnswersSawRows, Requests, PairOf, NotAsked, AskWrite,
    answers, pairs
<1>5. OpenMintsAreUnseen'
  BY NoneAssumption, BoundAssumption DEF IInv, TypeOK, OpenMintsAreUnseen,
    CodeState, Status, Mint, Ask, RowsHavePeople, CodesHaveOwners,
    AskersFoundCodes, AnswersSawRows, Requests, PairOf, NotAsked, AskWrite,
    answers, pairs
<1>6. AskersFoundCodes'
  BY NoneAssumption, BoundAssumption DEF IInv, TypeOK, AskersFoundCodes,
    CodeState, Status, Mint, Ask, AskWrite, answers, pairs
<1>7. AnswersSawRows'
  BY NoneAssumption, BoundAssumption DEF IInv, TypeOK, AnswersSawRows,
    CodeState, Status, Mint, Ask, AskWrite, answers, pairs
<1>8. OriginIsAnswered'
  BY NoneAssumption, BoundAssumption DEF IInv, TypeOK, OriginIsAnswered,
    PairOf, CodeState, Status, Mint, Ask, AskWrite, answers, pairs
<1>9. AcceptedMadeFriends'
  BY NoneAssumption, BoundAssumption DEF IInv, TypeOK, AcceptedMadeFriends,
    PairOf, CodeState, Status, Mint, Ask, AskWrite, answers, pairs
<1>10. UsedCodesAreDead'
  BY NoneAssumption, BoundAssumption DEF IInv, TypeOK, UsedCodesAreDead,
    CodeState, Status, Mint, Ask, AskWrite, answers, pairs
<1>11. QED
  BY <1>1, <1>2, <1>3, <1>4, <1>5, <1>6, <1>7, <1>8, <1>9, <1>10 DEF IInv

(* A step of AskFail keeps the inductive invariant.                        *)
LEMMA AskFailKeeps ==
  ASSUME IInv, NEW x \in asking, AskFail(x)
  PROVE  IInv'
<1>1. TypeOK'
  BY NoneAssumption, BoundAssumption DEF IInv, TypeOK, CodeState, Status, Mint,
    Ask, PairOf, Pair, AskFail, codes, requests, answers, pairs
<1>2. AskersFoundCodes'
  BY NoneAssumption, BoundAssumption DEF IInv, TypeOK, AskersFoundCodes,
    CodeState, Status, Mint, Ask, AskFail, codes, requests, answers, pairs
<1>3. /\ RowsHavePeople' /\ OneRowEach' /\ CodesHaveOwners' /\ OpenMintsAreUnseen' /\
        AnswersSawRows' /\ OriginIsAnswered' /\ AcceptedMadeFriends' /\
        UsedCodesAreDead'
  BY DEF IInv, RowsHavePeople, OneRowEach, Requests, CodesHaveOwners,
    OpenMintsAreUnseen, AnswersSawRows, OriginIsAnswered, PairOf,
    AcceptedMadeFriends, UsedCodesAreDead, AskFail, codes, requests, answers,
    pairs
<1>4. QED
  BY <1>1, <1>2, <1>3 DEF IInv

(* A step of AcceptRead keeps the inductive invariant.                     *)
LEMMA AcceptReadKeeps ==
  ASSUME IInv, NEW r \in Row, AcceptRead(r)
  PROVE  IInv'
<1>1. TypeOK'
  <2>1. accepting' \in [Row -> 0 .. MaxAnswers]
    BY NoneAssumption, BoundAssumption DEF IInv, TypeOK, AcceptRead, FreeAnswer
  <2>2. \A q \in Row : status'[q] # "none" => PairOf(q)' \in Pair
    BY DEF IInv, TypeOK, AcceptRead, requests, PairOf, AnswersSawRows, Requests
  <2>3. status' \in [Row -> Status]
    BY DEF IInv, TypeOK, AcceptRead, requests, Status
  <2>5. QED BY <2>1, <2>2, <2>3 DEF IInv, TypeOK, AcceptRead, codes, requests, pairs
<1>2. AnswersSawRows'
  BY NoneAssumption, BoundAssumption DEF IInv, TypeOK, AnswersSawRows,
    CodeState, Status, Mint, Ask, AcceptRead, FreeAnswer, codes, requests,
    pairs
<1>3. /\ RowsHavePeople' /\ OneRowEach' /\ CodesHaveOwners' /\ OpenMintsAreUnseen' /\
        AskersFoundCodes' /\ OriginIsAnswered' /\ AcceptedMadeFriends' /\
        UsedCodesAreDead'
  BY DEF IInv, RowsHavePeople, OneRowEach, Requests, CodesHaveOwners,
    OpenMintsAreUnseen, AskersFoundCodes, OriginIsAnswered, PairOf,
    AcceptedMadeFriends, UsedCodesAreDead, AcceptRead, FreeAnswer, codes,
    requests, pairs
<1>4. QED
  BY <1>1, <1>2, <1>3 DEF IInv

(* A step of AcceptWrite keeps the inductive invariant.                    *)
LEMMA AcceptWriteKeeps ==
  ASSUME IInv, NEW r \in Row, AcceptWrite(r)
  PROVE  IInv'
<1>1. TypeOK'
  <2>1. accepting' \in [Row -> 0 .. MaxAnswers]
    BY NoneAssumption, BoundAssumption DEF IInv, TypeOK, AcceptWrite
  <2>2. \A q \in Row : status'[q] # "none" => PairOf(q)' \in Pair
    BY DEF IInv, TypeOK, AcceptWrite, requests, PairOf, AnswersSawRows, Requests
  <2>3. status' \in [Row -> Status]
    BY DEF IInv, TypeOK, AcceptWrite, requests, Status
  <2>4. friends' \in SUBSET Pair /\ origin' \in [Pair -> Row \cup {None}]
    BY DEF IInv, TypeOK, AcceptWrite, Requests
  <2>5. QED BY <2>1, <2>2, <2>3, <2>4 DEF IInv, TypeOK, AcceptWrite, codes, requests, pairs
<1>2. RowsHavePeople'
  BY NoneAssumption, BoundAssumption DEF IInv, TypeOK, RowsHavePeople,
    CodeState, Status, Mint, Ask, CodesHaveOwners, OpenMintsAreUnseen,
    AskersFoundCodes, AnswersSawRows, Requests, PairOf, NotAsked, AcceptWrite,
    codes
<1>3. OneRowEach'
  BY NoneAssumption, BoundAssumption DEF IInv, TypeOK, OneRowEach, Requests,
    CodeState, Status, Mint, Ask, AcceptWrite, codes
<1>4. AnswersSawRows'
  BY NoneAssumption, BoundAssumption DEF IInv, TypeOK, AnswersSawRows,
    CodeState, Status, Mint, Ask, AcceptWrite, codes
<1>5. OriginIsAnswered'
  BY NoneAssumption, BoundAssumption DEF IInv, TypeOK, OriginIsAnswered,
    PairOf, CodeState, Status, Mint, Ask, AcceptWrite, codes
<1>6. AcceptedMadeFriends'
  BY NoneAssumption, BoundAssumption DEF IInv, TypeOK, AcceptedMadeFriends,
    PairOf, CodeState, Status, Mint, Ask, AcceptWrite, codes
<1>7. UsedCodesAreDead'
  BY NoneAssumption, BoundAssumption DEF IInv, TypeOK, UsedCodesAreDead,
    CodeState, Status, Mint, Ask, RowsHavePeople, CodesHaveOwners,
    OpenMintsAreUnseen, AskersFoundCodes, AnswersSawRows, Requests, PairOf,
    NotAsked, AcceptWrite, codes
<1>8. /\ CodesHaveOwners' /\ OpenMintsAreUnseen' /\ AskersFoundCodes'
  BY DEF IInv, CodesHaveOwners, OpenMintsAreUnseen, AskersFoundCodes,
    AcceptWrite, codes
<1>9. QED
  BY <1>1, <1>2, <1>3, <1>4, <1>5, <1>6, <1>7, <1>8 DEF IInv

(* A step of AcceptFail keeps the inductive invariant.                     *)
LEMMA AcceptFailKeeps ==
  ASSUME IInv, NEW r \in Row, AcceptFail(r)
  PROVE  IInv'
<1>1. TypeOK'
  <2>1. accepting' \in [Row -> 0 .. MaxAnswers]
    BY NoneAssumption, BoundAssumption DEF IInv, TypeOK, AcceptFail
  <2>2. \A q \in Row : status'[q] # "none" => PairOf(q)' \in Pair
    BY DEF IInv, TypeOK, AcceptFail, requests, PairOf, AnswersSawRows, Requests
  <2>3. status' \in [Row -> Status]
    BY DEF IInv, TypeOK, AcceptFail, requests, Status
  <2>5. QED BY <2>1, <2>2, <2>3 DEF IInv, TypeOK, AcceptFail, codes, requests, pairs
<1>2. AnswersSawRows'
  BY NoneAssumption, BoundAssumption DEF IInv, TypeOK, AnswersSawRows,
    CodeState, Status, Mint, Ask, AcceptFail, codes, requests, pairs
<1>3. /\ RowsHavePeople' /\ OneRowEach' /\ CodesHaveOwners' /\ OpenMintsAreUnseen' /\
        AskersFoundCodes' /\ OriginIsAnswered' /\ AcceptedMadeFriends' /\
        UsedCodesAreDead'
  BY DEF IInv, RowsHavePeople, OneRowEach, Requests, CodesHaveOwners,
    OpenMintsAreUnseen, AskersFoundCodes, OriginIsAnswered, PairOf,
    AcceptedMadeFriends, UsedCodesAreDead, AcceptFail, codes, requests, pairs
<1>4. QED
  BY <1>1, <1>2, <1>3 DEF IInv

(* A step of RejectRead keeps the inductive invariant.                     *)
LEMMA RejectReadKeeps ==
  ASSUME IInv, NEW r \in Row, RejectRead(r)
  PROVE  IInv'
<1>1. TypeOK'
  <2>1. rejecting' \in [Row -> 0 .. MaxAnswers]
    BY NoneAssumption, BoundAssumption DEF IInv, TypeOK, RejectRead, FreeAnswer
  <2>2. \A q \in Row : status'[q] # "none" => PairOf(q)' \in Pair
    BY DEF IInv, TypeOK, RejectRead, requests, PairOf, AnswersSawRows, Requests
  <2>3. status' \in [Row -> Status]
    BY DEF IInv, TypeOK, RejectRead, requests, Status
  <2>5. QED BY <2>1, <2>2, <2>3 DEF IInv, TypeOK, RejectRead, codes, requests, pairs
<1>2. AnswersSawRows'
  BY NoneAssumption, BoundAssumption DEF IInv, TypeOK, AnswersSawRows,
    CodeState, Status, Mint, Ask, RejectRead, FreeAnswer, codes, requests,
    pairs
<1>3. /\ RowsHavePeople' /\ OneRowEach' /\ CodesHaveOwners' /\ OpenMintsAreUnseen' /\
        AskersFoundCodes' /\ OriginIsAnswered' /\ AcceptedMadeFriends' /\
        UsedCodesAreDead'
  BY DEF IInv, RowsHavePeople, OneRowEach, Requests, CodesHaveOwners,
    OpenMintsAreUnseen, AskersFoundCodes, OriginIsAnswered, PairOf,
    AcceptedMadeFriends, UsedCodesAreDead, RejectRead, FreeAnswer, codes,
    requests, pairs
<1>4. QED
  BY <1>1, <1>2, <1>3 DEF IInv

(* A step of RejectWrite keeps the inductive invariant.                    *)
LEMMA RejectWriteKeeps ==
  ASSUME IInv, NEW r \in Row, RejectWrite(r)
  PROVE  IInv'
<1>1. TypeOK'
  <2>1. rejecting' \in [Row -> 0 .. MaxAnswers]
    BY NoneAssumption, BoundAssumption DEF IInv, TypeOK, RejectWrite
  <2>2. \A q \in Row : status'[q] # "none" => PairOf(q)' \in Pair
    BY DEF IInv, TypeOK, RejectWrite, requests, PairOf, AnswersSawRows, Requests
  <2>3. status' \in [Row -> Status]
    BY DEF IInv, TypeOK, RejectWrite, requests, Status
  <2>5. QED BY <2>1, <2>2, <2>3 DEF IInv, TypeOK, RejectWrite, codes, requests, pairs
<1>2. RowsHavePeople'
  BY NoneAssumption, BoundAssumption DEF IInv, TypeOK, RowsHavePeople,
    CodeState, Status, Mint, Ask, CodesHaveOwners, OpenMintsAreUnseen,
    AskersFoundCodes, AnswersSawRows, Requests, PairOf, NotAsked, RejectWrite,
    codes, pairs
<1>3. OneRowEach'
  BY NoneAssumption, BoundAssumption DEF IInv, TypeOK, OneRowEach, Requests,
    CodeState, Status, Mint, Ask, RejectWrite, codes, pairs
<1>4. AnswersSawRows'
  BY NoneAssumption, BoundAssumption DEF IInv, TypeOK, AnswersSawRows,
    CodeState, Status, Mint, Ask, RejectWrite, codes, pairs
<1>5. OriginIsAnswered'
  BY NoneAssumption, BoundAssumption DEF IInv, TypeOK, OriginIsAnswered,
    PairOf, CodeState, Status, Mint, Ask, RejectWrite, codes, pairs
<1>6. AcceptedMadeFriends'
  BY NoneAssumption, BoundAssumption DEF IInv, TypeOK, AcceptedMadeFriends,
    PairOf, CodeState, Status, Mint, Ask, RejectWrite, codes, pairs
<1>7. UsedCodesAreDead'
  BY NoneAssumption, BoundAssumption DEF IInv, TypeOK, UsedCodesAreDead,
    CodeState, Status, Mint, Ask, RowsHavePeople, CodesHaveOwners,
    OpenMintsAreUnseen, AskersFoundCodes, AnswersSawRows, Requests, PairOf,
    NotAsked, RejectWrite, codes, pairs
<1>8. /\ CodesHaveOwners' /\ OpenMintsAreUnseen' /\ AskersFoundCodes'
  BY DEF IInv, CodesHaveOwners, OpenMintsAreUnseen, AskersFoundCodes,
    RejectWrite, codes, pairs
<1>9. QED
  BY <1>1, <1>2, <1>3, <1>4, <1>5, <1>6, <1>7, <1>8 DEF IInv

(* A step of RejectFail keeps the inductive invariant.                     *)
LEMMA RejectFailKeeps ==
  ASSUME IInv, NEW r \in Row, RejectFail(r)
  PROVE  IInv'
<1>1. TypeOK'
  <2>1. rejecting' \in [Row -> 0 .. MaxAnswers]
    BY NoneAssumption, BoundAssumption DEF IInv, TypeOK, RejectFail
  <2>2. \A q \in Row : status'[q] # "none" => PairOf(q)' \in Pair
    BY DEF IInv, TypeOK, RejectFail, requests, PairOf, AnswersSawRows, Requests
  <2>3. status' \in [Row -> Status]
    BY DEF IInv, TypeOK, RejectFail, requests, Status
  <2>5. QED BY <2>1, <2>2, <2>3 DEF IInv, TypeOK, RejectFail, codes, requests, pairs
<1>2. AnswersSawRows'
  BY NoneAssumption, BoundAssumption DEF IInv, TypeOK, AnswersSawRows,
    CodeState, Status, Mint, Ask, RejectFail, codes, requests, pairs
<1>3. /\ RowsHavePeople' /\ OneRowEach' /\ CodesHaveOwners' /\ OpenMintsAreUnseen' /\
        AskersFoundCodes' /\ OriginIsAnswered' /\ AcceptedMadeFriends' /\
        UsedCodesAreDead'
  <2>1. UNCHANGED <<codes, asking, requests, pairs>>
    BY DEF RejectFail
  <2>2. \A q \in Row : PairOf(q)' = PairOf(q)
    BY <2>1 DEF requests, PairOf
  <2>3. OriginIsAnswered' /\ AcceptedMadeFriends'
    BY <2>1, <2>2 DEF IInv, OriginIsAnswered, AcceptedMadeFriends, PairOf, requests, pairs
  <2>4. QED BY <2>1, <2>3 DEF IInv, RowsHavePeople, OneRowEach, Requests, CodesHaveOwners,
        OpenMintsAreUnseen, AskersFoundCodes, UsedCodesAreDead, codes, requests
<1>4. QED
  BY <1>1, <1>2, <1>3 DEF IInv

(* A step of ClearHistory keeps the inductive invariant.                   *)
LEMMA ClearHistoryKeeps ==
  ASSUME IInv, NEW u \in User, ClearHistory(u)
  PROVE  IInv'
<1>1. TypeOK'
  BY NoneAssumption, BoundAssumption DEF IInv, TypeOK, CodeState, Status, Mint,
    Ask, PairOf, Pair, ClearHistory, Answered, codes, answers
<1>2. RowsHavePeople'
  BY NoneAssumption, BoundAssumption DEF IInv, TypeOK, RowsHavePeople,
    CodeState, Status, Mint, Ask, ClearHistory, Answered, codes, answers
<1>3. OneRowEach'
  BY NoneAssumption, BoundAssumption DEF IInv, TypeOK, OneRowEach, Requests,
    CodeState, Status, Mint, Ask, ClearHistory, Answered, codes, answers
<1>4. AnswersSawRows'
  BY NoneAssumption, BoundAssumption DEF IInv, TypeOK, AnswersSawRows,
    CodeState, Status, Mint, Ask, ClearHistory, Answered, codes, answers
<1>5. OriginIsAnswered'
  BY NoneAssumption, BoundAssumption DEF IInv, TypeOK, OriginIsAnswered,
    PairOf, CodeState, Status, Mint, Ask, ClearHistory, Answered, codes,
    answers
<1>6. AcceptedMadeFriends'
  BY NoneAssumption, BoundAssumption DEF IInv, TypeOK, AcceptedMadeFriends,
    PairOf, CodeState, Status, Mint, Ask, ClearHistory, Answered, codes,
    answers
<1>7. UsedCodesAreDead'
  BY NoneAssumption, BoundAssumption DEF IInv, TypeOK, UsedCodesAreDead,
    CodeState, Status, Mint, Ask, ClearHistory, Answered, codes, answers
<1>8. /\ CodesHaveOwners' /\ OpenMintsAreUnseen' /\ AskersFoundCodes'
  BY DEF IInv, CodesHaveOwners, OpenMintsAreUnseen, AskersFoundCodes,
    ClearHistory, Answered, codes, answers
<1>9. QED
  BY <1>1, <1>2, <1>3, <1>4, <1>5, <1>6, <1>7, <1>8 DEF IInv

(* A step of DeleteFriend keeps the inductive invariant.                   *)
LEMMA DeleteFriendKeeps ==
  ASSUME IInv, NEW p \in Pair, DeleteFriend(p)
  PROVE  IInv'
<1>1. TypeOK'
  BY NoneAssumption, BoundAssumption DEF IInv, TypeOK, CodeState, Status, Mint,
    Ask, PairOf, Pair, DeleteFriend, codes, requests, answers
<1>2. OriginIsAnswered'
  BY NoneAssumption, BoundAssumption DEF IInv, TypeOK, OriginIsAnswered,
    PairOf, CodeState, Status, Mint, Ask, DeleteFriend, codes, requests,
    answers
<1>3. AcceptedMadeFriends'
  BY NoneAssumption, BoundAssumption DEF IInv, TypeOK, AcceptedMadeFriends,
    PairOf, CodeState, Status, Mint, Ask, DeleteFriend, codes, requests,
    answers
<1>4. /\ RowsHavePeople' /\ OneRowEach' /\ CodesHaveOwners' /\ OpenMintsAreUnseen' /\
        AskersFoundCodes' /\ AnswersSawRows' /\ UsedCodesAreDead'
  BY DEF IInv, RowsHavePeople, OneRowEach, Requests, CodesHaveOwners,
    OpenMintsAreUnseen, AskersFoundCodes, AnswersSawRows, UsedCodesAreDead,
    DeleteFriend, codes, requests, answers
<1>5. QED
  BY <1>1, <1>2, <1>3, <1>4 DEF IInv

-----------------------------------------------------------------------------
(* The initial state satisfies the inductive invariant. *)
LEMMA InitEstablishes == Init => IInv
  BY NoneAssumption, BoundAssumption
  DEF Init, IInv, TypeOK, CodeState, Status, Mint, Ask, RowsHavePeople, OneRowEach,
      Requests, CodesHaveOwners, OpenMintsAreUnseen, AskersFoundCodes, AnswersSawRows,
      OriginIsAnswered, AcceptedMadeFriends, UsedCodesAreDead

(* Every step keeps the inductive invariant. *)
LEMMA NextKeeps == IInv /\ [Next]_vars => IInv'
<1> SUFFICES ASSUME IInv, [Next]_vars PROVE IInv'
  OBVIOUS
<1>1. CASE Next
  BY <1>1, MintBeginKeeps, MintCommitKeeps, ExpireKeeps, AskReadKeeps, AskWriteKeeps,
     AskFailKeeps, AcceptReadKeeps, AcceptWriteKeeps, AcceptFailKeeps, RejectReadKeeps,
     RejectWriteKeeps, RejectFailKeeps, ClearHistoryKeeps, DeleteFriendKeeps
  DEF Next
<1>2. CASE UNCHANGED vars
  BY <1>2
  DEF vars, codes, requests, answers, pairs, IInv, TypeOK, PairOf, RowsHavePeople,
      OneRowEach, Requests, CodesHaveOwners, OpenMintsAreUnseen, AskersFoundCodes,
      AnswersSawRows, OriginIsAnswered, AcceptedMadeFriends, UsedCodesAreDead
<1>3. QED BY <1>1, <1>2

(* The inductive invariant holds in every reachable state. *)
THEOREM Invariance == Spec => []IInv
  BY InitEstablishes, NextKeeps, PTL DEF Spec

(* Every variable keeps its type, and nobody asks themselves. *)
THEOREM TypeCorrect == Spec => []TypeOK
<1>1. IInv => TypeOK BY DEF IInv
<1>2. QED BY <1>1, Invariance, PTL

(* A friendship never names a request of others, or one that has gone. *)
THEOREM OriginStandsForAnswer == Spec => []OriginIsAnswered
<1>1. IInv => OriginIsAnswered BY DEF IInv
<1>2. QED BY <1>1, Invariance, PTL

(* An accepted request has made its two users friends. *)
THEOREM AcceptingIsAtomic == Spec => []AcceptedMadeFriends
<1>1. IInv => AcceptedMadeFriends BY DEF IInv
<1>2. QED BY <1>1, Invariance, PTL

(* The code of a request is dead. *)
THEOREM CodesAreConsumed == Spec => []UsedCodesAreDead
<1>1. IInv => UsedCodesAreDead BY DEF IInv
<1>2. QED BY <1>1, Invariance, PTL

(* Of two distinct requests between the same two users, each is from the   *)
(* addressee of the other: the unique index leaves no other possibility.   *)
LEMMA TwoRequestsCross ==
  ASSUME IInv, NEW q \in Requests, NEW r \in Requests, q # r, PairOf(q) = PairOf(r)
  PROVE  requester[q] = addressee[r] /\ addressee[q] = requester[r]
<1>1. ~(requester[q] = requester[r] /\ addressee[q] = addressee[r])
  BY DEF IInv, OneRowEach
<1>2. requester[q] # addressee[q] /\ requester[r] # addressee[r]
  BY DEF IInv, RowsHavePeople, Requests
<1>3. {requester[q], addressee[q]} = {requester[r], addressee[r]}
  BY DEF PairOf
<1>4. requester[q] \in {requester[r], addressee[r]} /\ addressee[q] \in {requester[r], addressee[r]}
  BY <1>3
<1>5. QED BY <1>1, <1>2, <1>4

(* A request that is pending between friends is the other half of the one  *)
(* that made them friends.                                                 *)
THEOREM PendingRequestsCross == Spec => []PendingCrossesOrigin
<1>1. ASSUME IInv PROVE PendingCrossesOrigin
  <2> SUFFICES ASSUME NEW r \in Row, status[r] = "PENDING", PairOf(r) \in friends,
                      origin[PairOf(r)] # None
               PROVE  LET q == origin[PairOf(r)] IN
                      requester[q] = addressee[r] /\ addressee[q] = requester[r]
    BY DEF PendingCrossesOrigin
  <2> DEFINE q == origin[PairOf(r)]
  <2>1. PairOf(r) \in Pair /\ q \in Row
    BY <1>1 DEF IInv, TypeOK
  <2>2. PairOf(q) = PairOf(r) /\ status[q] \in {"ACCEPTED", "REJECTED"}
    BY <1>1, <2>1 DEF IInv, OriginIsAnswered
  <2>3. q \in Requests /\ r \in Requests /\ q # r
    BY <2>1, <2>2 DEF Requests
  <2>4. QED BY <1>1, <2>2, <2>3, TwoRequestsCross
<1>2. QED BY <1>1, Invariance, PTL

=============================================================================
