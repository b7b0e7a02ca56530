------------------------------ MODULE FilesProofs ------------------------------
(***************************************************************************)
(* Proofs that the storage of the server matches its rows, that a file     *)
(* stays with the message it was sent with, that the rows of a client's    *)
(* local_files name complete files, and that the preferences a client shows*)
(* and has chosen are those on file: for any sets of requests, any number  *)
(* of restarts and crashes, of names that are tried, and of choices.       *)
(*                                                                         *)
(* Uploads, sends and avatars are kept apart: each has an invariant of its *)
(* own, which the steps of the others leave alone.                         *)
(***************************************************************************)
EXTENDS Disks, Sequences, WellFoundedInduction, TLAPS

Phase == {"none", "received", "refused", "copying", "moved", "failed", "unrecorded", "unnamed",
          "read", "written", "done", "ended"}

(* Every variable of Files that a proof looks at has its type. *)
Types ==
  /\ at \in [Request -> Phase]
  /\ rows \in [File -> Row \cup {None}]
  /\ place \in [File -> Conversation \cup {None}]
  /\ object \in [Clone \cup Message -> File \cup {None}]
  /\ pictures \subseteq Nat
  /\ avatar \in Nat \cup {None} /\ clock \in Nat
  /\ stamp \in [Portrait -> Nat \cup {None}] /\ previous \in [Portrait -> Nat \cup {None}]
  /\ temps \subseteq Upload \cup Portrait /\ files \subseteq Upload
  /\ there \subseteq Conversation
  /\ broken \subseteq Request /\ crossed \in BOOLEAN
  /\ \A f \in File : at[f] \notin {"none", "ended"} => place[f] \in Conversation
  /\ \A k \in Clone : at[k] = "read" => object[k] \in Upload
  /\ \A m \in Message : at[m] = "read" => object[m] \in File /\ rows[object[m]] # None
  /\ \A p \in Portrait : stamp[p] = None <=> at[p] = "none"

-----------------------------------------------------------------------------
(* Uploaded files                                                          *)

(* The file of an upload is in its place from the move to the clean-up.    *)
FilesByPhase ==
  \A u \in Upload :
    /\ at[u] \in {"copying", "moved"} => u \in files
    /\ at[u] \in {"none", "received", "refused"} => u \notin files

(* A temporary file belongs to the request before its move, or to one that *)
(* was broken off.                                                         *)
TempsByPhase == \A r \in temps \ broken : at[r] \in {"received", "copying", "refused", "failed"}

(* What a forward is going to write. *)
ForwardsHaveContent ==
  \A k \in Clone : at[k] = "read" => object[k] \in files /\ at[object[k]] = "done"

(* A row that is known has the file of an upload that is done; an upload's *)
(* row has its own.                                                        *)
RowsHaveUploads ==
  /\ \A u \in Upload : rows[u] # None => rows[u].content = u
  /\ \A f \in File : Known(f) => rows[f].content \in files /\ at[rows[f].content] = "done"
  /\ \A k \in Clone : at[k] \in {"none", "read"} => rows[k] = None
  /\ \A u \in Upload : at[u] \in {"none", "received", "copying", "moved"} => rows[u] = None

-----------------------------------------------------------------------------
(* Sends                                                                   *)

(* What a send has read is a file that the sender knows of. *)
SendsHaveObjects ==
  \A m \in Message :
    at[m] \in {"read", "done"} => object[m] \in File /\ at[object[m]] = "done"

(* Sends with one file of which one has not written yet. *)
ReadersAreContested ==
  \A m, n \in Message :
    m # n /\ at[m] = "read" /\ at[n] \in {"read", "done"} /\ object[m] = object[n]
      /\ rows[object[n]] # None
    => {m, n} \in contested

-----------------------------------------------------------------------------
(* Avatars                                                                 *)

Early == {"received", "copying", "moved", "failed", "unnamed"}
Late  == {"written", "done", "ended"}

(* Two uploads have got the name s. *)
Shared(s) == \E p, q \in Portrait : p # q /\ stamp[p] = s /\ stamp[q] = s

(* The name s was written to the row by an upload. *)
Written(s) == \E q \in Portrait : stamp[q] = s /\ at[q] \in Late

StampsByPhase ==
  \A p \in Portrait :
    /\ at[p] \in Early => previous[p] = None
    /\ at[p] = "none" => previous[p] = None

AvatarsWereWritten ==
  /\ avatar # None => Written(avatar)
  /\ \A p \in Portrait : previous[p] # None => Written(previous[p])

(* The picture that an upload is going to write is there. *)
PicturesAreThere ==
  \A p \in Portrait : at[p] \in {"copying", "moved", "read"} => stamp[p] \in pictures \/ Shared(stamp[p])

(* What an upload is going to remove is not the avatar. *)
ReplacedIsPast ==
  \A p \in Portrait :
    at[p] = "written" /\ previous[p] = avatar /\ avatar \notin {None, stamp[p]} => Shared(avatar)

(* Without overlaps the upload that has read the avatar is the next one to *)
(* write it.                                                               *)
OneReader ==
  ~crossed =>
    /\ \A p, q \in Portrait : at[p] = "read" /\ at[q] = "read" => p = q
    /\ \A p \in Portrait : at[p] = "read" => previous[p] = avatar

(* An upload that is not through has the name s, or is going to remove it. *)
Claims(q, s) ==
  \/ previous[q] = s /\ stamp[q] # s /\ q \in Open \cup broken
  \/ stamp[q] = s /\ (at[q] \in Early \cup {"read"} \/ q \in broken)

(* What an upload has written is the avatar until another one claims it. *)
WrittenIsClaimed ==
  \A p \in Portrait :
    ~crossed /\ at[p] = "written" /\ stamp[p] \in pictures \ {avatar} =>
      \E q \in Portrait : Claims(q, stamp[p])

-----------------------------------------------------------------------------
UploadInv == FilesByPhase /\ TempsByPhase /\ ForwardsHaveContent /\ RowsHaveUploads /\ FilesHaveRows
SendInv   == SendsHaveObjects /\ ReadersAreContested /\ FileStaysWithItsMessage
AvatarInv == /\ StampsByPhase /\ AvatarsWereWritten /\ PicturesAreThere /\ ReplacedIsPast
             /\ OneReader /\ WrittenIsClaimed /\ AvatarIsThere /\ PicturesAreNamed

IInv == Types /\ UploadInv /\ SendInv /\ AvatarInv

-----------------------------------------------------------------------------
(* A step keeps the types.                                                 *)
LEMMA TypesAreKept == Types /\ [Next]_vars => Types'
<1> SUFFICES ASSUME Types, [Next]_vars PROVE Types'
  OBVIOUS
<1> USE KindAssumption, NoneAssumption
    DEF Types, Phase, Goes, Starts, Request, File, Row, NewRow, Open, Idle, disk, sending, face, past
<1>1. ASSUME NEW u \in Upload, NEW c \in Conversation, UploadBegin(u, c) PROVE Types'
  BY <1>1 DEF UploadBegin
<1>2. ASSUME NEW u \in Upload, UploadRefused(u) PROVE Types'
  BY <1>2 DEF UploadRefused
<1>3. ASSUME NEW u \in Upload, Rename(u) PROVE Types'
  BY <1>3 DEF Rename
<1>4. ASSUME NEW u \in Upload, CopyBegin(u) PROVE Types'
  BY <1>4 DEF CopyBegin
<1>5. ASSUME NEW u \in Upload, CopyEnd(u) PROVE Types'
  BY <1>5 DEF CopyEnd
<1>6. ASSUME NEW u \in Upload, MoveFails(u) PROVE Types'
  BY <1>6 DEF MoveFails
<1>7. ASSUME NEW u \in Upload, Record(u) PROVE Types'
  BY <1>7 DEF Record
<1>8. ASSUME NEW u \in Upload, RecordFails(u) PROVE Types'
  BY <1>8 DEF RecordFails
<1>9. ASSUME NEW u \in Upload, RemoveTemp(u) PROVE Types'
  BY <1>9 DEF RemoveTemp
<1>10. ASSUME NEW u \in Upload, RemoveFile(u) PROVE Types'
  BY <1>10 DEF RemoveFile
<1>11. ASSUME NEW u \in Upload, RemoveFails(u) PROVE Types'
  BY <1>11 DEF RemoveFails
<1>12. ASSUME NEW k \in Clone, NEW f \in File, NEW c \in Conversation, ForwardRead(k, f, c) PROVE Types'
  <2>1. rows[f] \in Row
    BY <1>12 DEF ForwardRead, Known
  <2>2. rows[f].content \in Upload
    BY <2>1
  <2>3. QED BY <1>12, <2>2 DEF ForwardRead
<1>13. ASSUME NEW k \in Clone, ForwardCreate(k) PROVE Types'
  <2>1. NewRow(object[k], place[k]) \in Row
    BY <1>13 DEF ForwardCreate
  <2>2. QED BY <1>13, <2>1 DEF ForwardCreate
<1>14. ASSUME NEW k \in Clone, ForwardFails(k) PROVE Types'
  BY <1>14 DEF ForwardFails
<1>15. ASSUME NEW m \in Message, NEW f \in File, SendRead(m, f) PROVE Types'
  BY <1>15 DEF SendRead, Unattached, Known
<1>16. ASSUME NEW m \in Message, SendWrite(m) PROVE Types'
  <2>1. object[m] \in File /\ rows[object[m]] \in Row
    BY <1>16 DEF SendWrite
  <2>2. rows' = [rows EXCEPT ![object[m]] = [rows[object[m]] EXCEPT !.message = m]]
    BY <1>16, <2>1, Z3 DEF SendWrite
  <2>3. [rows[object[m]] EXCEPT !.message = m] \in Row
    BY <2>1
  <2>4. QED BY <1>16, <2>1, <2>2, <2>3 DEF SendWrite
<1>17. ASSUME NEW m \in Message, SendFails(m) PROVE Types'
  BY <1>17 DEF SendFails
<1>18. ASSUME NEW p \in Portrait, AvatarBegin(p) PROVE Types'
  BY <1>18 DEF AvatarBegin
<1>19. ASSUME NEW p \in Portrait, AvatarRefused(p) PROVE Types'
  BY <1>19 DEF AvatarRefused
<1>20. ASSUME NEW p \in Portrait, AvatarRename(p) PROVE Types'
  <2>1. stamp[p] \in Nat
    BY <1>20 DEF AvatarRename
  <2>2. QED BY <1>20, <2>1 DEF AvatarRename
<1>21. ASSUME NEW p \in Portrait, AvatarCopyBegin(p) PROVE Types'
  <2>1. stamp[p] \in Nat
    BY <1>21 DEF AvatarCopyBegin
  <2>2. QED BY <1>21, <2>1 DEF AvatarCopyBegin
<1>22. ASSUME NEW p \in Portrait, AvatarCopyEnd(p) PROVE Types'
  BY <1>22 DEF AvatarCopyEnd
<1>23. ASSUME NEW p \in Portrait, AvatarMoveFails(p) PROVE Types'
  BY <1>23 DEF AvatarMoveFails
<1>24. ASSUME NEW p \in Portrait, AvatarRemoveTemp(p) PROVE Types'
  BY <1>24 DEF AvatarRemoveTemp
<1>25. ASSUME NEW p \in Portrait, AvatarRemove(p) PROVE Types'
  BY <1>25 DEF AvatarRemove
<1>26. ASSUME NEW p \in Portrait, AvatarRead(p) PROVE Types'
  BY <1>26 DEF AvatarRead
<1>27. ASSUME NEW p \in Portrait, AvatarWrite(p) PROVE Types'
  BY <1>27 DEF AvatarWrite
<1>28. ASSUME NEW p \in Portrait, AvatarRemovePrevious(p) PROVE Types'
  BY <1>28 DEF AvatarRemovePrevious
<1>29. ASSUME NEW p \in Portrait, AvatarFails(p) PROVE Types'
  BY <1>29 DEF AvatarFails
<1>30. CASE Restart
  <2>1. there' \subseteq there /\ broken' \subseteq Request
    BY <1>30 DEF Restart
  <2>2. rows' \in [File -> Row \cup {None}] /\ at' \in [Request -> Phase]
    BY <1>30 DEF Restart
  <2>3. QED BY <1>30, <2>1, <2>2 DEF Restart, Sweep
<1>31. CASE UNCHANGED vars
  BY <1>31 DEF vars
<1>32. QED
  BY <1>1, <1>2, <1>3, <1>4, <1>5, <1>6, <1>7, <1>8, <1>9, <1>10, <1>11,
     <1>12, <1>13, <1>14, <1>15, <1>16, <1>17, <1>18, <1>19, <1>20, <1>21,
     <1>22, <1>23, <1>24, <1>25, <1>26, <1>27, <1>28, <1>29, <1>30, <1>31
  DEF Next, UploadNext, ForwardNext, SendNext, AvatarNext

(* A step keeps what holds of uploads and forwards: a file leaves its place*)
(* only with its own request, and that before it has a row that is known.  *)
LEMMA UploadsAreKept == Types /\ Types' /\ UploadInv /\ [Next]_vars => UploadInv'
<1> SUFFICES ASSUME Types, Types', UploadInv, [Next]_vars PROVE UploadInv'
  OBVIOUS
<1> USE KindAssumption, NoneAssumption
    DEF Types, UploadInv, FilesByPhase, TempsByPhase, ForwardsHaveContent, RowsHaveUploads,
        FilesHaveRows, Phase, Known, Goes, Starts, Request, File, Row, NewRow, Open, Idle, disk, sending, face, past
<1>1. ASSUME NEW u \in Upload, NEW c \in Conversation, UploadBegin(u, c) PROVE UploadInv'
  BY <1>1 DEF UploadBegin
<1>2. ASSUME NEW u \in Upload, UploadRefused(u) PROVE UploadInv'
  BY <1>2 DEF UploadRefused
<1>3. ASSUME NEW u \in Upload, Rename(u) PROVE UploadInv'
  BY <1>3 DEF Rename
<1>4. ASSUME NEW u \in Upload, CopyBegin(u) PROVE UploadInv'
  BY <1>4 DEF CopyBegin
<1>5. ASSUME NEW u \in Upload, CopyEnd(u) PROVE UploadInv'
  BY <1>5 DEF CopyEnd
<1>6. ASSUME NEW u \in Upload, MoveFails(u) PROVE UploadInv'
  BY <1>6 DEF MoveFails
<1>7. ASSUME NEW u \in Upload, Record(u) PROVE UploadInv'
  BY <1>7 DEF Record
<1>8. ASSUME NEW u \in Upload, RecordFails(u) PROVE UploadInv'
  BY <1>8 DEF RecordFails
<1>9. ASSUME NEW u \in Upload, RemoveTemp(u) PROVE UploadInv'
  BY <1>9 DEF RemoveTemp
<1>10. ASSUME NEW u \in Upload, RemoveFile(u) PROVE UploadInv'
  BY <1>10 DEF RemoveFile
<1>11. ASSUME NEW u \in Upload, RemoveFails(u) PROVE UploadInv'
  BY <1>11 DEF RemoveFails
<1>12. ASSUME NEW k \in Clone, NEW f \in File, NEW c \in Conversation, ForwardRead(k, f, c) PROVE UploadInv'
  BY <1>12 DEF ForwardRead
<1>13. ASSUME NEW k \in Clone, ForwardCreate(k) PROVE UploadInv'
  BY <1>13 DEF ForwardCreate
<1>14. ASSUME NEW k \in Clone, ForwardFails(k) PROVE UploadInv'
  BY <1>14 DEF ForwardFails
<1>15. ASSUME NEW m \in Message, NEW f \in File, SendRead(m, f) PROVE UploadInv'
  BY <1>15 DEF SendRead
<1>16. ASSUME NEW m \in Message, SendWrite(m) PROVE UploadInv'
  BY <1>16 DEF SendWrite
<1>17. ASSUME NEW m \in Message, SendFails(m) PROVE UploadInv'
  BY <1>17 DEF SendFails
<1>18. ASSUME NEW p \in Portrait, AvatarBegin(p) PROVE UploadInv'
  BY <1>18 DEF AvatarBegin
<1>19. ASSUME NEW p \in Portrait, AvatarRefused(p) PROVE UploadInv'
  BY <1>19 DEF AvatarRefused
<1>20. ASSUME NEW p \in Portrait, AvatarRename(p) PROVE UploadInv'
  BY <1>20 DEF AvatarRename
<1>21. ASSUME NEW p \in Portrait, AvatarCopyBegin(p) PROVE UploadInv'
  BY <1>21 DEF AvatarCopyBegin
<1>22. ASSUME NEW p \in Portrait, AvatarCopyEnd(p) PROVE UploadInv'
  BY <1>22 DEF AvatarCopyEnd
<1>23. ASSUME NEW p \in Portrait, AvatarMoveFails(p) PROVE UploadInv'
  BY <1>23 DEF AvatarMoveFails
<1>24. ASSUME NEW p \in Portrait, AvatarRemoveTemp(p) PROVE UploadInv'
  BY <1>24 DEF AvatarRemoveTemp
<1>25. ASSUME NEW p \in Portrait, AvatarRemove(p) PROVE UploadInv'
  BY <1>25 DEF AvatarRemove
<1>26. ASSUME NEW p \in Portrait, AvatarRead(p) PROVE UploadInv'
  BY <1>26 DEF AvatarRead
<1>27. ASSUME NEW p \in Portrait, AvatarWrite(p) PROVE UploadInv'
  BY <1>27 DEF AvatarWrite
<1>28. ASSUME NEW p \in Portrait, AvatarRemovePrevious(p) PROVE UploadInv'
  BY <1>28 DEF AvatarRemovePrevious
<1>29. ASSUME NEW p \in Portrait, AvatarFails(p) PROVE UploadInv'
  BY <1>29 DEF AvatarFails
<1>30. CASE Restart
  <2>1. \A u \in Upload : /\ at'[u] \in {"copying", "moved"} => at[u] \in {"copying", "moved"}
                        /\ at'[u] \in {"none", "received", "refused"} => at[u] \in {"none", "received", "refused"}
    BY <1>30 DEF Restart
  <2>2. FilesByPhase'
    BY <1>30, <2>1 DEF Restart, Sweep
  <2>3. TempsByPhase' /\ ForwardsHaveContent' /\ RowsHaveUploads'
    BY <1>30 DEF Restart, Sweep
  <2>4. FilesHaveRows'
    BY <1>30 DEF Restart, Sweep
  <2>5. QED BY <2>2, <2>3, <2>4
<1>31. CASE UNCHANGED vars
  BY <1>31 DEF vars
<1>32. QED
  BY <1>1, <1>2, <1>3, <1>4, <1>5, <1>6, <1>7, <1>8, <1>9, <1>10, <1>11,
     <1>12, <1>13, <1>14, <1>15, <1>16, <1>17, <1>18, <1>19, <1>20, <1>21,
     <1>22, <1>23, <1>24, <1>25, <1>26, <1>27, <1>28, <1>29, <1>30, <1>31
  DEF Next, UploadNext, ForwardNext, SendNext, AvatarNext

(* A step keeps what holds of sends: who writes over another's message had *)
(* read the file while that send was still to write.                       *)
LEMMA SendsAreKept == Types /\ Types' /\ SendInv /\ [Next]_vars => SendInv'
<1> SUFFICES ASSUME Types, Types', SendInv, [Next]_vars PROVE SendInv'
  OBVIOUS
<1> USE KindAssumption, NoneAssumption
    DEF Types, SendInv, SendsHaveObjects, ReadersAreContested, FileStaysWithItsMessage,
        Unattached, Phase, Known, Goes, Starts, Request, File, Row, NewRow, Open, Idle, disk, sending, face, past
<1>1. ASSUME NEW u \in Upload, NEW c \in Conversation, UploadBegin(u, c) PROVE SendInv'
  BY <1>1 DEF UploadBegin
<1>2. ASSUME NEW u \in Upload, UploadRefused(u) PROVE SendInv'
  BY <1>2 DEF UploadRefused
<1>3. ASSUME NEW u \in Upload, Rename(u) PROVE SendInv'
  BY <1>3 DEF Rename
<1>4. ASSUME NEW u \in Upload, CopyBegin(u) PROVE SendInv'
  BY <1>4 DEF CopyBegin
<1>5. ASSUME NEW u \in Upload, CopyEnd(u) PROVE SendInv'
  BY <1>5 DEF CopyEnd
<1>6. ASSUME NEW u \in Upload, MoveFails(u) PROVE SendInv'
  BY <1>6 DEF MoveFails
<1>7. ASSUME NEW u \in Upload, Record(u) PROVE SendInv'
  BY <1>7 DEF Record
<1>8. ASSUME NEW u \in Upload, RecordFails(u) PROVE SendInv'
  BY <1>8 DEF RecordFails
<1>9. ASSUME NEW u \in Upload, RemoveTemp(u) PROVE SendInv'
  BY <1>9 DEF RemoveTemp
<1>10. ASSUME NEW u \in Upload, RemoveFile(u) PROVE SendInv'
  BY <1>10 DEF RemoveFile
<1>11. ASSUME NEW u \in Upload, RemoveFails(u) PROVE SendInv'
  BY <1>11 DEF RemoveFails
<1>12. ASSUME NEW k \in Clone, NEW f \in File, NEW c \in Conversation, ForwardRead(k, f, c) PROVE SendInv'
  BY <1>12 DEF ForwardRead
<1>13. ASSUME NEW k \in Clone, ForwardCreate(k) PROVE SendInv'
  BY <1>13 DEF ForwardCreate
<1>14. ASSUME NEW k \in Clone, ForwardFails(k) PROVE SendInv'
  BY <1>14 DEF ForwardFails
<1>15. ASSUME NEW m \in Message, NEW f \in File, SendRead(m, f) PROVE SendInv'
  BY <1>15 DEF SendRead
<1>16. ASSUME NEW m \in Message, SendWrite(m) PROVE SendInv'
  <2>1. object[m] \in File /\ rows[object[m]] \in Row /\ object' = object
    BY <1>16 DEF SendWrite
  <2>2. rows' = [rows EXCEPT ![object[m]] = [rows[object[m]] EXCEPT !.message = m]]
    BY <1>16, <2>1, Z3 DEF SendWrite
  <2>3. /\ rows'[object[m]] # None /\ rows'[object[m]].message = m
        /\ \A f \in File : f # object[m] => rows'[f] = rows[f]
    BY <2>1, <2>2
  <2>4. SendsHaveObjects' /\ ReadersAreContested'
    BY <1>16, <2>1, <2>3 DEF SendWrite
  <2>5. FileStaysWithItsMessage'
    <3> SUFFICES ASSUME NEW n \in Message, at'[n] = "done", rows'[object[n]] # None
                 PROVE  \/ rows'[object[n]].message = n
                        \/ \E l \in Message : /\ rows'[object[n]].message = l
                                              /\ \E e \in contested : n \in e /\ e # {n}
      BY <1>16, <2>1 DEF SendWrite
    <3>1. CASE n = m
      BY <3>1, <2>3
    <3>2. CASE n # m /\ object[n] # object[m]
      BY <1>16, <2>1, <2>3, <3>2 DEF SendWrite
    <3>3. CASE n # m /\ object[n] = object[m]
      <4>1. {m, n} \in contested
        BY <1>16, <2>1, <2>3, <3>3 DEF SendWrite
      <4>2. n \in {m, n} /\ m \in {m, n} /\ m \notin {n}
        BY <3>3
      <4>3. rows'[object[n]].message = m
        BY <2>3, <3>3
      <4>4. QED BY <4>1, <4>2, <4>3, Zenon
    <3>4. QED BY <3>1, <3>2, <3>3
  <2>6. QED BY <2>4, <2>5
<1>17. ASSUME NEW m \in Message, SendFails(m) PROVE SendInv'
  BY <1>17 DEF SendFails
<1>18. ASSUME NEW p \in Portrait, AvatarBegin(p) PROVE SendInv'
  BY <1>18 DEF AvatarBegin
<1>19. ASSUME NEW p \in Portrait, AvatarRefused(p) PROVE SendInv'
  BY <1>19 DEF AvatarRefused
<1>20. ASSUME NEW p \in Portrait, AvatarRename(p) PROVE SendInv'
  BY <1>20 DEF AvatarRename
<1>21. ASSUME NEW p \in Portrait, AvatarCopyBegin(p) PROVE SendInv'
  BY <1>21 DEF AvatarCopyBegin
<1>22. ASSUME NEW p \in Portrait, AvatarCopyEnd(p) PROVE SendInv'
  BY <1>22 DEF AvatarCopyEnd
<1>23. ASSUME NEW p \in Portrait, AvatarMoveFails(p) PROVE SendInv'
  BY <1>23 DEF AvatarMoveFails
<1>24. ASSUME NEW p \in Portrait, AvatarRemoveTemp(p) PROVE SendInv'
  BY <1>24 DEF AvatarRemoveTemp
<1>25. ASSUME NEW p \in Portrait, AvatarRemove(p) PROVE SendInv'
  BY <1>25 DEF AvatarRemove
<1>26. ASSUME NEW p \in Portrait, AvatarRead(p) PROVE SendInv'
  BY <1>26 DEF AvatarRead
<1>27. ASSUME NEW p \in Portrait, AvatarWrite(p) PROVE SendInv'
  BY <1>27 DEF AvatarWrite
<1>28. ASSUME NEW p \in Portrait, AvatarRemovePrevious(p) PROVE SendInv'
  BY <1>28 DEF AvatarRemovePrevious
<1>29. ASSUME NEW p \in Portrait, AvatarFails(p) PROVE SendInv'
  BY <1>29 DEF AvatarFails
<1>30. CASE Restart
  BY <1>30 DEF Restart
<1>31. CASE UNCHANGED vars
  BY <1>31 DEF vars
<1>32. QED
  BY <1>1, <1>2, <1>3, <1>4, <1>5, <1>6, <1>7, <1>8, <1>9, <1>10, <1>11,
     <1>12, <1>13, <1>14, <1>15, <1>16, <1>17, <1>18, <1>19, <1>20, <1>21,
     <1>22, <1>23, <1>24, <1>25, <1>26, <1>27, <1>28, <1>29, <1>30, <1>31
  DEF Next, UploadNext, ForwardNext, SendNext, AvatarNext

(* A step keeps what holds of avatars: an upload removes what it has made, *)
(* before it is the avatar, or what it has read, after it was.             *)
LEMMA AvatarsAreKept == Types /\ Types' /\ AvatarInv /\ [Next]_vars => AvatarInv'
<1> SUFFICES ASSUME Types, Types', AvatarInv, [Next]_vars PROVE AvatarInv'
  OBVIOUS
<1> USE KindAssumption, NoneAssumption
    DEF Types, AvatarInv, StampsByPhase, AvatarsWereWritten, PicturesAreThere, ReplacedIsPast,
        OneReader, WrittenIsClaimed, AvatarIsThere, PicturesAreNamed,
        Early, Late, Shared, Written, Claims, Phase, Known, Goes, Starts, Request, File, Row, NewRow, Open, Idle, disk, sending, face, past
<1>1. ASSUME NEW u \in Upload, NEW c \in Conversation, UploadBegin(u, c) PROVE AvatarInv'
  BY <1>1 DEF UploadBegin
<1>2. ASSUME NEW u \in Upload, UploadRefused(u) PROVE AvatarInv'
  BY <1>2 DEF UploadRefused
<1>3. ASSUME NEW u \in Upload, Rename(u) PROVE AvatarInv'
  BY <1>3 DEF Rename
<1>4. ASSUME NEW u \in Upload, CopyBegin(u) PROVE AvatarInv'
  BY <1>4 DEF CopyBegin
<1>5. ASSUME NEW u \in Upload, CopyEnd(u) PROVE AvatarInv'
  BY <1>5 DEF CopyEnd
<1>6. ASSUME NEW u \in Upload, MoveFails(u) PROVE AvatarInv'
  BY <1>6 DEF MoveFails
<1>7. ASSUME NEW u \in Upload, Record(u) PROVE AvatarInv'
  BY <1>7 DEF Record
<1>8. ASSUME NEW u \in Upload, RecordFails(u) PROVE AvatarInv'
  BY <1>8 DEF RecordFails
<1>9. ASSUME NEW u \in Upload, RemoveTemp(u) PROVE AvatarInv'
  BY <1>9 DEF RemoveTemp
<1>10. ASSUME NEW u \in Upload, RemoveFile(u) PROVE AvatarInv'
  BY <1>10 DEF RemoveFile
<1>11. ASSUME NEW u \in Upload, RemoveFails(u) PROVE AvatarInv'
  BY <1>11 DEF RemoveFails
<1>12. ASSUME NEW k \in Clone, NEW f \in File, NEW c \in Conversation, ForwardRead(k, f, c) PROVE AvatarInv'
  BY <1>12 DEF ForwardRead
<1>13. ASSUME NEW k \in Clone, ForwardCreate(k) PROVE AvatarInv'
  BY <1>13 DEF ForwardCreate
<1>14. ASSUME NEW k \in Clone, ForwardFails(k) PROVE AvatarInv'
  BY <1>14 DEF ForwardFails
<1>15. ASSUME NEW m \in Message, NEW f \in File, SendRead(m, f) PROVE AvatarInv'
  BY <1>15 DEF SendRead
<1>16. ASSUME NEW m \in Message, SendWrite(m) PROVE AvatarInv'
  BY <1>16 DEF SendWrite
<1>17. ASSUME NEW m \in Message, SendFails(m) PROVE AvatarInv'
  BY <1>17 DEF SendFails
<1>18. ASSUME NEW p \in Portrait, AvatarBegin(p) PROVE AvatarInv'
  BY <1>18 DEF AvatarBegin
<1>19. ASSUME NEW p \in Portrait, AvatarRefused(p) PROVE AvatarInv'
  BY <1>19 DEF AvatarRefused
<1>20. ASSUME NEW p \in Portrait, AvatarRename(p) PROVE AvatarInv'
  BY <1>20 DEF AvatarRename
<1>21. ASSUME NEW p \in Portrait, AvatarCopyBegin(p) PROVE AvatarInv'
  BY <1>21 DEF AvatarCopyBegin
<1>22. ASSUME NEW p \in Portrait, AvatarCopyEnd(p) PROVE AvatarInv'
  BY <1>22 DEF AvatarCopyEnd
<1>23. ASSUME NEW p \in Portrait, AvatarMoveFails(p) PROVE AvatarInv'
  BY <1>23 DEF AvatarMoveFails
<1>24. ASSUME NEW p \in Portrait, AvatarRemoveTemp(p) PROVE AvatarInv'
  BY <1>24 DEF AvatarRemoveTemp
<1>25. ASSUME NEW p \in Portrait, AvatarRemove(p) PROVE AvatarInv'
  BY <1>25 DEF AvatarRemove
<1>26. ASSUME NEW p \in Portrait, AvatarRead(p) PROVE AvatarInv'
  <2>1. /\ at' = [at EXCEPT ![p] = "read"] /\ at[p] = "moved"
        /\ previous' = [previous EXCEPT ![p] = avatar] /\ crossed' = (crossed \/ \E q \in Portrait : at[q] = "read")
        /\ UNCHANGED <<avatar, stamp, pictures, broken>>
    BY <1>26 DEF AvatarRead
  <2>2. StampsByPhase'
    BY <2>1
  <2>3. AvatarsWereWritten'
    BY <2>1
  <2>4. PicturesAreThere'
    BY <2>1
  <2>5. ReplacedIsPast'
    BY <2>1
  <2>6. OneReader'
    <3>1. ~crossed' => ~crossed /\ \A q \in Portrait : at[q] # "read"
      BY <2>1, Zenon
    <3>2. \A q \in Portrait : at'[q] = "read" /\ ~crossed' => q = p
      BY <2>1, <3>1
    <3>3. QED BY <2>1, <3>2
  <2>7. WrittenIsClaimed'
    <3> SUFFICES ASSUME NEW q \in Portrait, ~crossed, at[q] = "written", stamp[q] \in pictures \ {avatar}
                 PROVE  \E c \in Portrait : Claims(c, stamp[q])'
      BY <2>1
    <3>1. PICK c \in Portrait : Claims(c, stamp[q])
      OBVIOUS
    <3>2. previous[p] = None /\ stamp[q] \in Nat
      BY <2>1
    <3>3. Claims(c, stamp[q])'
      BY <2>1, <3>1, <3>2
    <3>4. QED BY <3>3
  <2>8. AvatarIsThere' /\ PicturesAreNamed'
    BY <2>1
  <2>9. QED BY <2>2, <2>3, <2>4, <2>5, <2>6, <2>7, <2>8
<1>27. ASSUME NEW p \in Portrait, AvatarWrite(p) PROVE AvatarInv'
  BY <1>27 DEF AvatarWrite
<1>28. ASSUME NEW p \in Portrait, AvatarRemovePrevious(p) PROVE AvatarInv'
  BY <1>28 DEF AvatarRemovePrevious
<1>29. ASSUME NEW p \in Portrait, AvatarFails(p) PROVE AvatarInv'
  BY <1>29 DEF AvatarFails
<1>30. CASE Restart
  BY <1>30 DEF Restart
<1>31. CASE UNCHANGED vars
  BY <1>31 DEF vars
<1>32. QED
  BY <1>1, <1>2, <1>3, <1>4, <1>5, <1>6, <1>7, <1>8, <1>9, <1>10, <1>11,
     <1>12, <1>13, <1>14, <1>15, <1>16, <1>17, <1>18, <1>19, <1>20, <1>21,
     <1>22, <1>23, <1>24, <1>25, <1>26, <1>27, <1>28, <1>29, <1>30, <1>31
  DEF Next, UploadNext, ForwardNext, SendNext, AvatarNext

(* The invariant holds in every state.                                     *)
THEOREM FilesInvariant == Spec => []IInv
<1>1. Init => IInv
  <2>1. Init => Types
    <3>1. Init => rows \in [File -> Row \cup {None}] /\ object \in [Clone \cup Message -> File \cup {None}]
      BY DEF Init
    <3>2. Init => at \in [Request -> Phase] /\ \A r \in Request : at[r] = "none"
      BY DEF Init, Phase
    <3>3. Init => /\ place \in [File -> Conversation \cup {None}]
                  /\ stamp \in [Portrait -> Nat \cup {None}] /\ previous \in [Portrait -> Nat \cup {None}]
                  /\ \A p \in Portrait : stamp[p] = None
      BY DEF Init
    <3>4. Init => crossed \in BOOLEAN
      BY DEF Init
    <3>5. QED BY <3>1, <3>2, <3>3, <3>4 DEF Init, Types, Request, File
  <2> USE KindAssumption, NoneAssumption
      DEF Init, Types, Phase, Request, File, Row, Open, Idle, Known
  <2>2. Init => UploadInv
    BY DEF UploadInv, FilesByPhase, TempsByPhase, ForwardsHaveContent, RowsHaveUploads, FilesHaveRows
  <2>3. Init => SendInv
    BY DEF SendInv, SendsHaveObjects, ReadersAreContested, FileStaysWithItsMessage
  <2>4. Init => AvatarInv
    BY DEF AvatarInv, StampsByPhase, AvatarsWereWritten, PicturesAreThere, ReplacedIsPast, OneReader,
           WrittenIsClaimed, AvatarIsThere, PicturesAreNamed, Early, Late, Shared, Written, Claims
  <2>5. QED BY <2>1, <2>2, <2>3, <2>4 DEF IInv
<1>2. IInv /\ [Next]_vars => IInv'
  BY TypesAreKept, UploadsAreKept, SendsAreKept, AvatarsAreKept DEF IInv
<1>3. QED BY <1>1, <1>2, PTL DEF Spec

(* What the storage of the server holds and what the database says of it   *)
(* agree but for the ways of leaving a file behind that the code has: a    *)
(* request cut off, an unlink that fails, a guest whose rows are gone, two *)
(* avatars in one millisecond, and two avatars at once.                    *)
THEOREM StorageMatches == Spec => []StorageMatchesRows
<1>1. IInv => StorageMatchesRows
  <2> SUFFICES ASSUME IInv PROVE StorageMatchesRows
    OBVIOUS
  <2>1. RowsHaveContent /\ FilesHaveRows
    BY DEF IInv, UploadInv, RowsHaveUploads, RowsHaveContent
  <2>2. TempsHaveRequests
    BY DEF IInv, UploadInv, TempsByPhase, Types, TempsHaveRequests, Open, Idle, Request
  <2>3. AvatarIsThere /\ PicturesAreNamed
    BY DEF IInv, AvatarInv
  <2>4. QED BY <2>1, <2>2, <2>3 DEF StorageMatchesRows
<1>2. QED BY <1>1, FilesInvariant, PTL

(* A message keeps the file it was sent with, unless another send had read *)
(* the file at the same time.                                              *)
THEOREM FileStays == Spec => []FileStaysWithItsMessage
<1>1. IInv => FileStaysWithItsMessage
  BY DEF IInv, SendInv
<1>2. QED BY <1>1, FilesInvariant, PTL

-----------------------------------------------------------------------------
(* Downloads: a path is written only while nothing is there, so that what  *)
(* a download that is yet to be recorded has saved stays as it is.         *)

(* What is on disk is there after the step, too. *)
FilesStay == \A p \in DOMAIN folder : p \in DOMAIN folder' /\ folder'[p] = folder[p]

DownloadShapes ==
  /\ phase \in [Download -> {"none", "fetching", "saving", "saved", "done"}]
  /\ DOMAIN file = Download /\ DOMAIN path = Download

(* What was saved and is yet to be recorded is complete. *)
SavedIsThere ==
  \A d \in Download : phase[d] = "saved" =>
    path[d] \in DOMAIN folder /\ folder[path[d]] = D!Stored(file[d], TRUE)

DInv == DownloadShapes /\ SavedIsThere /\ RecordedIsThere

(* The least of some numbers is one of them.                               *)
LEMMA LeastIsOne ==
  ASSUME NEW S \in SUBSET Nat, S # {} PROVE D!Min(S) \in S
<1> DEFINE Less == OpToRel(<, Nat)
<1>1. IsWellFoundedOn(Less, Nat)
  BY NatLessThanWellFounded
<1>2. \A i, j \in Nat : <<i, j>> \in Less <=> i < j
  BY DEF OpToRel
<1> HIDE DEF Less
<1>3. PICK m \in S : \A n \in S : ~ (<<n, m>> \in Less)
  BY <1>1, WFMin
<1>4. ASSUME NEW n \in S PROVE m <= n
  <2>1. n \in Nat /\ m \in Nat
    OBVIOUS
  <2>2. ~ (n < m)
    BY <1>2, <1>3, <2>1
  <2>3. QED BY <2>1, <2>2
<1>5. QED BY <1>4 DEF D!Min

(* A file is written where there is none.                                  *)
LEMMA SavedWhereNothingIs ==
  ASSUME NEW f, D!Free(f) # {}
  PROVE  D!Path(dir, f, D!Min(D!Free(f))) \notin DOMAIN folder
<1>1. D!Free(f) \in SUBSET Nat
  BY DEF D!Free
<1>2. D!Min(D!Free(f)) \in D!Free(f)
  BY <1>1, LeastIsOne
<1>3. QED BY <1>2 DEF D!Free

(* What is on disk stays when a file is written where there is none.       *)
LEMMA WritingKeeps ==
  ASSUME NEW STATE p, p \notin DOMAIN folder, NEW STATE content, folder' = D!Put(p, content)
  PROVE  FilesStay /\ DOMAIN folder' = DOMAIN folder \cup {p} /\ folder'[p] = content
  BY DEF D!Put, FilesStay

(* A step keeps the invariant if what is on disk stays, nothing is saved,  *)
(* and nothing is recorded.                                                *)
LEMMA DownloadAside ==
  ASSUME DInv, DownloadShapes', FilesStay, UNCHANGED records,
         \A d \in Download : phase'[d] = "saved" =>
           phase[d] = "saved" /\ path'[d] = path[d] /\ file'[d] = file[d]
  PROVE  DInv'
<1>1. SavedIsThere'
  BY DEF DInv, SavedIsThere, FilesStay
<1>2. RecordedIsThere'
  BY DEF DInv, RecordedIsThere, D!RecordedIsThere, FilesStay
<1>3. QED BY <1>1, <1>2 DEF DInv

(* A step of the downloads keeps the invariant.                            *)
LEMMA DownloadsAreKept ==
  DInv /\ [D!Next]_(D!vars) => DInv'
<1> SUFFICES ASSUME DInv, [D!Next]_(D!vars) PROVE DInv'
  OBVIOUS
<1>1. DownloadShapes
  BY DEF DInv
<1>2. ASSUME UNCHANGED folder PROVE FilesStay
  BY <1>2 DEF FilesStay
<1>3. ASSUME NEW d \in Download, NEW f \in Asset, D!Start(d, f) PROVE DInv'
  BY <1>1, <1>2, <1>3, DownloadAside DEF D!Start, D!Goes, DownloadShapes
<1>4. ASSUME NEW d \in Download, D!Fetched(d) PROVE DInv'
  BY <1>1, <1>2, <1>4, DownloadAside DEF D!Fetched, D!Goes, DownloadShapes
<1>5. ASSUME NEW d \in Download, D!Save(d) PROVE DInv'
  <2> DEFINE p == D!Path(dir, file[d], D!Min(D!Free(file[d])))
  <2>1. p \notin DOMAIN folder
    BY <1>5, SavedWhereNothingIs DEF D!Save
  <2>2. folder' = D!Put(p, D!Stored(file[d], TRUE)) /\ path' = [path EXCEPT ![d] = p]
    BY <1>5 DEF D!Save
  <2>3. DownloadShapes' /\ phase' = [phase EXCEPT ![d] = "saved"] /\ UNCHANGED <<file, records>>
    BY <1>1, <1>5 DEF D!Save, D!Goes, DownloadShapes
  <2> HIDE DEF p
  <2>4. FilesStay /\ p \in DOMAIN folder' /\ folder'[p] = D!Stored(file[d], TRUE)
    BY <2>1, <2>2, WritingKeeps
  <2>5. SavedIsThere'
    BY <1>1, <2>2, <2>3, <2>4 DEF DInv, SavedIsThere, DownloadShapes, FilesStay
  <2>6. RecordedIsThere'
    BY <2>3, <2>4 DEF DInv, RecordedIsThere, D!RecordedIsThere, FilesStay
  <2>7. QED BY <2>3, <2>5, <2>6 DEF DInv
<1>6. ASSUME NEW d \in Download, D!Record(d) PROVE DInv'
  <2>1. path[d] \in DOMAIN folder /\ folder[path[d]] = D!Stored(file[d], TRUE)
    BY <1>6 DEF DInv, SavedIsThere, D!Record
  <2>2. DownloadShapes' /\ phase' = [phase EXCEPT ![d] = "done"] /\ UNCHANGED <<file, path, folder>>
    BY <1>1, <1>6 DEF D!Record, D!Goes, DownloadShapes
  <2>3. RecordedIsThere'
    <3> DEFINE new == [file |-> file[d], path |-> path[d]]
    <3>1. records' \subseteq records \cup {new}
      BY <1>6 DEF D!Record
    <3>2. new.path \in DOMAIN folder /\ folder[new.path] = D!Stored(new.file, TRUE)
      BY <2>1
    <3> HIDE DEF new
    <3>3. QED BY <2>2, <3>1, <3>2 DEF DInv, RecordedIsThere, D!RecordedIsThere
  <2>4. QED BY <1>1, <2>2, <2>3 DEF DInv, SavedIsThere, DownloadShapes
<1>7. ASSUME NEW d \in Download, D!Fail(d) PROVE DInv'
  <2>1. DownloadShapes' /\ UNCHANGED <<file, path, records>> /\ phase' = [phase EXCEPT ![d] = "done"]
    BY <1>1, <1>7 DEF D!Fail, D!Goes, DownloadShapes
  <2>2. FilesStay
    <3>1. CASE UNCHANGED folder
      BY <1>2, <3>1
    <3>2. CASE /\ D!Free(file[d]) # {}
               /\ folder' = D!Put(D!Path(dir, file[d], D!Min(D!Free(file[d]))), D!Stored(file[d], FALSE))
      BY <3>2, SavedWhereNothingIs, WritingKeeps
    <3>3. QED BY <1>7, <3>1, <3>2 DEF D!Fail
  <2>3. QED BY <1>1, <2>1, <2>2, DownloadAside DEF DownloadShapes
<1>8. ASSUME NEW d \in Folder, D!ChangeDirectory(d) PROVE DInv'
  BY <1>1, <1>2, <1>8, DownloadAside DEF D!ChangeDirectory, DownloadShapes
<1>9. CASE D!Reopen
  BY <1>1, <1>2, <1>9, DownloadAside DEF D!Reopen, DownloadShapes
<1>10. CASE D!Crash
  <2>1. DownloadShapes' /\ UNCHANGED <<file, path, records>> /\ \A d \in Download : phase'[d] # "saved"
    BY <1>1, <1>10 DEF D!Crash, DownloadShapes
  <2>2. FilesStay
    <3>1. CASE UNCHANGED folder
      BY <1>2, <3>1
    <3>2. ASSUME NEW d \in Download, D!Free(file[d]) # {},
                 folder' = D!Put(D!Path(dir, file[d], D!Min(D!Free(file[d]))), D!Stored(file[d], FALSE))
          PROVE  FilesStay
      BY <3>2, SavedWhereNothingIs, WritingKeeps
    <3>3. QED BY <1>10, <3>1, <3>2 DEF D!Crash
  <2>3. QED BY <2>1, <2>2, DownloadAside
<1>11. CASE UNCHANGED D!vars
  BY <1>1, <1>2, <1>11, DownloadAside DEF D!vars, DownloadShapes
<1>12. QED BY <1>3, <1>4, <1>5, <1>6, <1>7, <1>8, <1>9, <1>10, <1>11 DEF D!Next

(* A row of local_files always names a file that is there and complete,    *)
(* however many downloads run beside each other, fail or are cut off.      *)
THEOREM RecordsAreTrue ==
  D!Spec => []RecordedIsThere
<1>1. D!Init => DInv
  BY DEF D!Init, DInv, DownloadShapes, SavedIsThere, RecordedIsThere, D!RecordedIsThere
<1>2. DInv /\ [D!Next]_(D!vars) => DInv'
  BY DownloadsAreKept
<1>3. DInv => RecordedIsThere
  BY DEF DInv
<1>4. QED BY <1>1, <1>2, <1>3, PTL DEF D!Spec

-----------------------------------------------------------------------------
(* The preferences                                                         *)

(* What is sent with a command, or was with the command of an answer *)
Sent(x) ==
  /\ x.do = "load" => x.change = None \/ x.change.field = "dir"
  /\ x.do # "load" => x.change # None
  /\ x.do = "dir" => x.change.field = "dir"
  /\ x.do \in {"read", "save"} => x.change.field # "dir"
  /\ x.do = "save" /\ x.config # None => x.config[x.change.field] = x.change.value

Orders ==
  {x \in [do : {"load", "read", "save", "dir", "tray"}, change : P!Choice \cup {None},
          config : P!Config \cup {None}] :
     Sent(x) /\ (x.config # None <=> x.do = "save") /\ (x.do = "tray" => x.change.field = "tray")}
Replies ==
  {x \in [do : {"load", "read", "save", "dir"}, change : P!Choice \cup {None}, ok : BOOLEAN,
          config : P!Config \cup {None}] :
     Sent(x) /\ (x.config # None <=> x.ok)}

PreferencesTyped ==
  /\ saved \in P!Config \cup {Missing, Torn} /\ config \in P!Config \cup {None}
  /\ tray \in BOOLEAN /\ devices \in Nat
  /\ commands \in Seq(Orders) /\ answers \in Seq(Replies)
  /\ wanted = [f \in P!Field |-> wanted[f]]
  /\ wanted.theme \in Theme /\ wanted.pins \in SUBSET Chat /\ wanted.tray \in BOOLEAN /\ wanted.dir \in Folder

(* What was last read or saved agrees with the file, up to the directory,  *)
(* which a load is going to mend.                                          *)
Copies(x) == x.ok /\ x.do \in {"load", "save"}
Mends(x) == x.change # None /\ x.change.field = "dir"
Mending ==
  \/ \E i \in DOMAIN commands : Mends(commands[i])
  \/ \E i \in DOMAIN answers : Mends(answers[i]) /\ ~Copies(answers[i])
Agrees(c) ==
  saved \in P!Config =>
    /\ [c EXCEPT !.dir = saved.dir] = saved
    /\ c.dir = saved.dir \/ "dir" \in risky \/ Mending
NoneCopied(i) == \A j \in DOMAIN answers : j > i => ~Copies(answers[j])
CopyAgrees ==
  /\ \A i \in DOMAIN answers :
       Copies(answers[i]) => saved # Missing /\ (NoneCopied(i) => Agrees(answers[i].config))
  /\ config # None => saved # Missing /\ (NoneCopied(0) => Agrees(config))

(* What the last choice of f has set, and what is under way does not undo  *)
DefaultOf == P!DefaultConfig(1)
FileRight(f) ==
  /\ saved = Missing => DefaultOf[f] = wanted[f]
  /\ saved \in P!Config => saved[f] = wanted[f]
Right(f, x) ==
  /\ x.config # None => x.config[f] = wanted[f]
  /\ x.do \in {"read", "save", "dir"} /\ x.change.field = f => x.change.value = wanted[f]
CommandsRight(f) == \A i \in DOMAIN commands : Right(f, commands[i])
NoReads ==
  /\ \A i \in DOMAIN commands : commands[i].do # "read"
  /\ \A i \in DOMAIN answers : answers[i].do # "read"
Of(f, x) == x.change # None /\ x.change.field = f

(* An answer is going to make the choice risky *)
Doomed(f) == \E i \in DOMAIN answers : Of(f, answers[i]) /\ ~answers[i].ok

(* The choice waits for the file to be read *)
ToRead(f) ==
  /\ \/ \E i \in DOMAIN commands : commands[i].do = "read"
     \/ \E i \in DOMAIN answers : answers[i].do = "read"
  /\ \A i \in DOMAIN commands : commands[i].do = "read" => Of(f, commands[i]) /\ Right(f, commands[i])
  /\ \A i \in DOMAIN answers :
       answers[i].do = "read" => Of(f, answers[i]) /\ answers[i].change.value = wanted[f]

(* It waits in the queue, and nothing behind undoes it. *)
InCommands(f) ==
  /\ NoReads
  /\ \E i \in DOMAIN commands :
       /\ commands[i].do \in {"save", "dir"} /\ Of(f, commands[i])
       /\ \A j \in DOMAIN commands : j >= i => Right(f, commands[j])

(* It is on file, and an answer brings it to the copy. *)
InAnswers(f) ==
  /\ NoReads /\ FileRight(f) /\ CommandsRight(f)
  /\ \E i \in DOMAIN answers :
       /\ answers[i].do \in {"save", "dir", "load"} /\ answers[i].ok /\ Of(f, answers[i])
       /\ \A j \in DOMAIN answers : j >= i => Right(f, answers[j])

(* It is on file, and a load is going to bring it. *)
ToLoad(f) ==
  /\ NoReads /\ FileRight(f) /\ CommandsRight(f)
  /\ \E i \in DOMAIN commands : commands[i].do = "load" /\ Of(f, commands[i])

(* The shell's flag is right once the commands are through. *)
TrayRight ==
  \E i \in 0 .. Len(commands) :
    /\ i = 0 => tray = wanted.tray
    /\ \A j \in DOMAIN commands :
         commands[j].do = "tray" /\ j >= i => commands[j].change.value = wanted.tray
    /\ i # 0 => commands[i].do = "tray"

(* There is nothing that a torn file could be replaced with. *)
Hopeless ==
  /\ saved = Torn /\ config = None
  /\ \A i \in DOMAIN commands : commands[i].config = None
  /\ \A i \in DOMAIN answers : answers[i].config = None

(* It is everywhere. *)
Settled(f) ==
  /\ FileRight(f) /\ CommandsRight(f)
  /\ config # None => config[f] = wanted[f]
  /\ \A i \in DOMAIN answers : Right(f, answers[i])
  /\ f = "tray" => TrayRight \/ Hopeless

ChoicesArrive ==
  \A f \in P!Field \ risky :
    Settled(f) \/ InAnswers(f) \/ ToLoad(f) \/ InCommands(f) \/ ToRead(f) \/ Doomed(f)

PreferencesInv == PreferencesTyped /\ CopyAgrees /\ ChoicesArrive

-----------------------------------------------------------------------------
(* Nothing that is kept is mistaken for nothing. *)
LEMMA ConstantsApart ==
  /\ None \notin P!Config /\ None \notin P!Choice
  /\ Missing \notin P!Config /\ Torn \notin P!Config /\ Missing # Torn
  BY ChoiceAssumption

LEMMA DefaultIsConfig ==
  ASSUME NEW n \in Nat
  PROVE  /\ P!DefaultConfig(n) \in P!Config
         /\ \A f \in P!Field : P!DefaultConfig(n)[f] = DefaultOf[f]
  BY ChoiceAssumption DEF P!DefaultConfig, P!Config, P!Field, DefaultOf

LEMMA ChoiceTypes ==
  ASSUME NEW x \in P!Choice
  PROVE  /\ x.field \in P!Field
         /\ x = P!Change(x.field, x.value)
         /\ x.field = "theme" => x.value \in Theme
         /\ x.field = "pins" => x.value \in SUBSET Chat
         /\ x.field = "tray" => x.value \in BOOLEAN
         /\ x.field = "dir" => x.value \in Folder
  BY DEF P!Choice, P!Field, P!Change

LEMMA MadeIsConfig ==
  ASSUME NEW c \in P!Config, NEW x \in P!Choice
  PROVE  /\ P!Made(c, x) \in P!Config
         /\ P!Made(c, x)[x.field] = x.value
         /\ \A f \in P!Field \ {x.field} : P!Made(c, x)[f] = c[f]
<1>1. P!Made(c, x) \in P!Config
  BY ChoiceTypes DEF P!Config, P!Made, P!Field
<1>2. P!Made(c, x)[x.field] = x.value
  BY ChoiceTypes DEF P!Config, P!Made, P!Field
<1>3. \A f \in P!Field \ {x.field} : P!Made(c, x)[f] = c[f]
  BY DEF P!Config, P!Made, P!Field
<1>4. QED BY <1>1, <1>2, <1>3

(* A directory in a configuration *)
LEMMA DirectoryOf ==
  ASSUME NEW c \in P!Config, NEW d \in Folder
  PROVE  /\ [c EXCEPT !.dir = d] \in P!Config
         /\ [c EXCEPT !.dir = d].dir = d
         /\ [c EXCEPT !.dir = c.dir] = c
         /\ \A f \in P!Field \ {"dir"} : [c EXCEPT !.dir = d][f] = c[f]
         /\ \A b \in P!Config : [b EXCEPT !.dir = c.dir] = c => [b EXCEPT !.dir = d] = [c EXCEPT !.dir = d]
  BY DEF P!Config, P!Field

(* The queues *)
LEMMA Appended ==
  ASSUME NEW S, NEW s \in Seq(S), NEW x \in S
  PROVE  /\ Append(s, x) \in Seq(S)
         /\ Len(Append(s, x)) = Len(s) + 1
         /\ DOMAIN Append(s, x) = 1 .. Len(s) + 1 /\ DOMAIN s = 1 .. Len(s) /\ Len(s) \in Nat
         /\ \A i \in DOMAIN s : Append(s, x)[i] = s[i] /\ i \in DOMAIN Append(s, x)
         /\ Append(s, x)[Len(s) + 1] = x
  OBVIOUS

LEMMA Taken ==
  ASSUME NEW S, NEW s \in Seq(S), s # <<>>
  PROVE  /\ Head(s) = s[1] /\ Head(s) \in S /\ 1 \in DOMAIN s
         /\ Tail(s) \in Seq(S)
         /\ Len(Tail(s)) = Len(s) - 1 /\ Len(s) \in Nat \ {0}
         /\ DOMAIN Tail(s) = 1 .. Len(s) - 1 /\ DOMAIN s = 1 .. Len(s)
         /\ \A i \in DOMAIN Tail(s) : Tail(s)[i] = s[i + 1] /\ i + 1 \in DOMAIN s
         /\ \A i \in DOMAIN s \ {1} : i - 1 \in DOMAIN Tail(s) /\ Tail(s)[i - 1] = s[i]
  OBVIOUS

LEMMA Joined ==
  ASSUME NEW S, NEW s \in Seq(S), NEW x \in S
  PROVE  s \o <<>> = s /\ s \o <<x>> = Append(s, x)
  OBVIOUS

(* What an order and a reply can be *)
LEMMA OrderTypes ==
  ASSUME NEW x \in Orders
  PROVE  /\ x.do \in {"load", "read", "save", "dir", "tray"} /\ x.change \in P!Choice \cup {None}
         /\ x.config \in P!Config \cup {None} /\ (x.config # None <=> x.do = "save") /\ Sent(x)
         /\ x.do # "load" => x.change \in P!Choice
         /\ x.do = "tray" => x.change.field = "tray"
         /\ x.do = "tray" => x.change.value \in BOOLEAN
         /\ x.do = "dir" => x.change.value \in Folder
         /\ x.do = "save" => x.config \in P!Config
  BY ConstantsApart, ChoiceTypes DEF Orders, Sent

LEMMA ReplyTypes ==
  ASSUME NEW x \in Replies
  PROVE  /\ x.do \in {"load", "read", "save", "dir"} /\ x.change \in P!Choice \cup {None}
         /\ x.config \in P!Config \cup {None} /\ x.ok \in BOOLEAN /\ (x.config # None <=> x.ok) /\ Sent(x)
         /\ x.do # "load" => x.change \in P!Choice
         /\ x.ok => x.config \in P!Config
  BY ConstantsApart DEF Replies, Sent

(* Orders as they are made *)
LEMMA CommandMade ==
  /\ P!Command("load", None, None) \in Orders
  /\ \A x \in P!Choice :
       /\ x.field # "dir" => P!Command("read", x, None) \in Orders
       /\ x.field # "dir" => \A c \in P!Config : P!Command("save", x, P!Made(c, x)) \in Orders
       /\ x.field = "dir" => P!Command("dir", x, None) \in Orders
       /\ x.field = "dir" => P!Command("load", x, None) \in Orders
       /\ x.field = "tray" => P!Command("tray", x, None) \in Orders
  BY ConstantsApart, MadeIsConfig DEF Orders, Sent, P!Command

LEMMA AnswerMade ==
  ASSUME NEW x \in Orders, x.do # "tray", NEW c \in P!Config
  PROVE  /\ P!Answer(x, FALSE, None) \in Replies
         /\ x.do # "save" => P!Answer(x, TRUE, c) \in Replies
         /\ P!Answer(x, TRUE, x.config) \in Replies \/ x.do # "save"
  BY ConstantsApart, OrderTypes DEF Replies, Sent, P!Answer

(* What the shell reads, and leaves *)
LEMMA ReadIsConfig ==
  ASSUME PreferencesTyped, saved # Torn
  PROVE  /\ P!Read \in P!Config
         /\ saved \in P!Config => P!Read = saved
         /\ \A f \in P!Field : FileRight(f) => P!Read[f] = wanted[f]
  BY ConstantsApart, DefaultIsConfig DEF PreferencesTyped, P!Read, FileRight

LEMMA WrittenIsConfig ==
  ASSUME PreferencesTyped, NEW x \in Orders, x.do # "tray", P!Works(x)
  PROVE  /\ P!Written(x) \in P!Config
         /\ x.do = "save" => P!Written(x) = x.config
         /\ x.do \in {"load", "read"} => P!Written(x) = P!Read /\ saved # Torn
         /\ x.do = "dir" => P!Written(x) = [P!Read EXCEPT !.dir = x.change.value] /\ saved # Torn
         /\ P!Answer(x, TRUE, P!Written(x)) \in Replies
<1>1. CASE x.do = "save"
  BY <1>1, OrderTypes, AnswerMade DEF P!Written
<1>2. CASE x.do \in {"load", "read"}
  BY <1>2, OrderTypes, AnswerMade, ReadIsConfig DEF P!Written, P!Works
<1>3. CASE x.do = "dir"
  <2>1. saved # Torn /\ P!Written(x) = [P!Read EXCEPT !.dir = x.change.value]
    BY <1>3 DEF P!Written, P!Works
  <2>2. P!Written(x) \in P!Config
    BY <1>3, <2>1, OrderTypes, ReadIsConfig, DirectoryOf
  <2>3. QED BY <1>3, <2>1, <2>2, AnswerMade
<1>4. QED BY <1>1, <1>2, <1>3, OrderTypes

(* What a handler goes on with *)
LEMMA NextIsOrder ==
  ASSUME NEW a \in Replies
  PROVE  /\ a.ok /\ a.do = "read" => LET c == P!Command("save", a.change, P!Made(a.config, a.change)) IN
                                       P!Next1(a) = <<c>> /\ c \in Orders
         /\ a.ok /\ a.do = "save" /\ a.change.field = "tray" =>
              LET c == P!Command("tray", a.change, None) IN P!Next1(a) = <<c>> /\ c \in Orders
         /\ a.ok /\ a.do = "dir" =>
              LET c == P!Command("load", a.change, None) IN P!Next1(a) = <<c>> /\ c \in Orders
         /\ ~a.ok \/ a.do = "load" \/ (a.do = "save" /\ a.change.field # "tray") => P!Next1(a) = <<>>
<1>1. /\ a.ok /\ a.do = "read" => P!Next1(a) = <<P!Command("save", a.change, P!Made(a.config, a.change))>>
      /\ a.ok /\ a.do = "save" /\ a.change.field = "tray" => P!Next1(a) = <<P!Command("tray", a.change, None)>>
      /\ a.ok /\ a.do = "dir" => P!Next1(a) = <<P!Command("load", a.change, None)>>
      /\ ~a.ok \/ a.do = "load" \/ (a.do = "save" /\ a.change.field # "tray") => P!Next1(a) = <<>>
  BY DEF P!Next1
<1>2. /\ a.ok => a.config \in P!Config
      /\ a.do # "load" => a.change \in P!Choice
      /\ a.do = "read" => a.change.field # "dir"
      /\ a.do = "dir" => a.change.field = "dir"
  BY ReplyTypes DEF Sent
<1>3. QED BY <1>1, <1>2, CommandMade

-----------------------------------------------------------------------------
(* The steps, by what they do to the queues                                *)

Sends(c) ==
  /\ commands' = Append(commands, c)
  /\ UNCHANGED <<saved, tray, devices, config, answers>>

(* A choice is sent with what the copy has of the others. *)
Carries(c, change) ==
  /\ c \in Orders /\ c.change = change
  /\ config = None => c.do = "read" /\ c.config = None
  /\ config # None => c.do = "save" /\ c.config = P!Made(config, change)

LEMMA ChoiceIsSent ==
  ASSUME PreferencesTyped, NEW x \in P!Choice, x.field # "dir", NEW w, P!Chooses(x.field, w), P!Update(x)
  PROVE  /\ \E c \in Orders : Sends(c) /\ Carries(c, x)
         /\ wanted' = [wanted EXCEPT ![x.field] = w]
<1>1. CASE config = None
  <2>1. P!Command("read", x, None) \in Orders /\ commands' = Append(commands, P!Command("read", x, None))
    BY <1>1, CommandMade DEF P!Update
  <2>2. QED BY <1>1, <2>1 DEF P!Chooses, P!store, Sends, Carries, P!Command
<1>2. CASE config # None
  <2>1. /\ P!Command("save", x, P!Made(config, x)) \in Orders
        /\ commands' = Append(commands, P!Command("save", x, P!Made(config, x)))
    BY <1>2, CommandMade DEF P!Update, PreferencesTyped
  <2>2. QED BY <1>2, <2>1 DEF P!Chooses, P!store, Sends, Carries, P!Command
<1>3. QED BY <1>1, <1>2

LEMMA ChooseIsSent ==
  ASSUME PreferencesTyped, NEW g \in {"theme", "tray"}, NEW v, P!Choose(g, v),
         P!Change(g, v) \in P!Choice
  PROVE  /\ \E c \in Orders : Sends(c) /\ Carries(c, P!Change(g, v))
         /\ wanted' = [wanted EXCEPT ![g] = v]
         /\ risky' = ((risky \cup P!Pending) \ {g}) \cup P!Late(g)
<1>1. P!Change(g, v).field = g
  BY DEF P!Change
<1>2. QED BY <1>1, ChoiceIsSent DEF P!Choose

LEMMA ToggleIsSent ==
  ASSUME PreferencesTyped, NEW x \in Chat, P!TogglePinned(x)
  PROVE  LET change == P!Change("pins", P!Flip(P!Pins, x)) IN
         /\ change \in P!Choice
         /\ \E c \in Orders : Sends(c) /\ Carries(c, change)
         /\ wanted' = [wanted EXCEPT !.pins = P!Flip(wanted.pins, x)]
         /\ P!Flip(wanted.pins, x) \in SUBSET Chat
         /\ risky' = risky \cup P!Pending \cup P!Late("pins") \cup (IF config = None THEN {"pins"} ELSE {})
<1> DEFINE change == P!Change("pins", P!Flip(P!Pins, x))
<1>1. P!Pins \in SUBSET Chat
  BY DEF P!Pins, PreferencesTyped, P!Config
<1>2. change \in P!Choice /\ change.field = "pins"
  BY <1>1 DEF P!Flip, P!Change, P!Choice
<1>3. P!Chooses("pins", P!Flip(wanted.pins, x)) /\ P!Update(change)
  BY DEF P!TogglePinned
<1> HIDE DEF change
<1>4. P!Flip(wanted.pins, x) \in SUBSET Chat
  BY DEF P!Flip, PreferencesTyped
<1>5. /\ \E c \in Orders : Sends(c) /\ Carries(c, change)
      /\ wanted' = [wanted EXCEPT !.pins = P!Flip(wanted.pins, x)]
  BY <1>2, <1>3, ChoiceIsSent
<1>6. QED BY <1>2, <1>4, <1>5 DEF change, P!TogglePinned

LEMMA DirectoryIsSent ==
  ASSUME NEW d \in Folder, P!ChooseDirectory(d)
  PROVE  LET c == P!Command("dir", P!Change("dir", d), None) IN
         /\ c \in Orders /\ Sends(c) /\ c.do = "dir" /\ c.config = None
         /\ c.change.field = "dir" /\ c.change.value = d
         /\ wanted' = [wanted EXCEPT !.dir = d]
         /\ risky' = (risky \ {"dir"}) \cup P!Late("dir")
<1>1. P!Change("dir", d) \in P!Choice /\ P!Change("dir", d).field = "dir" /\ P!Change("dir", d).value = d
  BY DEF P!Change, P!Choice
<1>2. P!Command("dir", P!Change("dir", d), None) \in Orders
  BY <1>1, CommandMade
<1>3. QED BY <1>1, <1>2 DEF P!ChooseDirectory, P!Chooses, P!store, Sends, P!Command

LEMMA LoadIsSent ==
  ASSUME P!Load
  PROVE  LET c == P!Command("load", None, None) IN
         c \in Orders /\ Sends(c) /\ c.do = "load" /\ c.change = None /\ c.config = None /\ UNCHANGED <<wanted, risky>>
  BY CommandMade DEF P!Load, P!store, P!past, Sends, P!Command

(* An answer is taken, and its handler may go on. *)
GoesOn(c) == commands' = Append(commands, c)
LEMMA SettleShape ==
  ASSUME PreferencesTyped, P!Settle
  PROVE  LET a == answers[1] IN
         /\ answers # <<>> /\ a \in Replies /\ answers' = Tail(answers)
         /\ UNCHANGED <<saved, tray, devices, wanted>>
         /\ config' = IF Copies(a) THEN a.config ELSE config
         /\ risky' = IF a.ok \/ a.change = None THEN risky ELSE risky \cup {a.change.field}
         /\ \/ /\ a.ok /\ a.do = "read"
               /\ \E c \in Orders : GoesOn(c) /\ c = P!Command("save", a.change, P!Made(a.config, a.change))
            \/ /\ a.ok /\ a.do = "save" /\ a.change.field = "tray"
               /\ \E c \in Orders : GoesOn(c) /\ c = P!Command("tray", a.change, None)
            \/ /\ a.ok /\ a.do = "dir"
               /\ \E c \in Orders : GoesOn(c) /\ c = P!Command("load", a.change, None)
            \/ /\ ~a.ok \/ a.do = "load" \/ (a.do = "save" /\ a.change.field # "tray")
               /\ commands' = commands
<1> DEFINE a == answers[1]
<1>1. answers # <<>> /\ a \in Replies /\ a = Head(answers)
  BY Taken DEF P!Settle, PreferencesTyped
<1> HIDE DEF a
<1>2. /\ answers' = Tail(answers) /\ UNCHANGED <<saved, tray, devices, wanted>>
      /\ config' = IF Copies(a) THEN a.config ELSE config
      /\ risky' = IF a.ok \/ a.change = None THEN risky ELSE risky \cup {a.change.field}
      /\ commands' = commands \o P!Next1(a)
  BY <1>1 DEF P!Settle, P!store, Copies
<1>3. /\ P!Next1(a) = <<>> => commands' = commands
      /\ \A c \in Orders : P!Next1(a) = <<c>> => GoesOn(c)
  <2>1. commands \in Seq(Orders)
    BY DEF PreferencesTyped
  <2>2. commands \o <<>> = commands /\ \A c \in Orders : commands \o <<c>> = Append(commands, c)
    BY <2>1, CommandMade, Joined
  <2>3. QED BY <1>2, <2>2 DEF GoesOn
<1>4. a.do \in {"load", "read", "save", "dir"} /\ a.ok \in BOOLEAN
  BY <1>1, ReplyTypes
<1>5. QED BY <1>1, <1>2, <1>3, <1>4, NextIsOrder DEF a

(* A command is run. *)
Answered(c, x) == commands' = Tail(commands) /\ answers' = Append(answers, x)
RunTray(c) ==
  c.do = "tray" /\ tray' = c.change.value /\ commands' = Tail(commands) /\ UNCHANGED <<saved, devices, answers>>
RunWorks(c) ==
  /\ c.do # "tray" /\ P!Works(c) /\ UNCHANGED tray
  /\ saved' = P!Written(c) /\ Answered(c, P!Answer(c, TRUE, P!Written(c)))
RunBreaks(c) ==
  /\ c.do # "tray" /\ UNCHANGED tray /\ Answered(c, P!Answer(c, FALSE, None))
  /\ saved' \in {saved, Torn} \/ (c.do = "dir" /\ P!Works(c) /\ saved' = P!Written(c))

LEMMA RunShape ==
  ASSUME PreferencesTyped, P!Run \/ P!RunFails
  PROVE  LET c == commands[1] IN
         /\ commands # <<>> /\ c \in Orders /\ UNCHANGED <<config, wanted, risky>> /\ devices' \in Nat
         /\ RunTray(c) \/ RunWorks(c) \/ RunBreaks(c)
<1> DEFINE c == commands[1]
<1>1. commands # <<>> /\ c \in Orders /\ c = Head(commands)
  <2>1. commands # <<>>
    BY DEF P!Run, P!RunFails
  <2>2. commands \in Seq(Orders)
    BY DEF PreferencesTyped
  <2>3. QED BY <2>1, <2>2, Taken
<1> HIDE DEF c
<1>2. P!Creates \in Nat /\ devices \in Nat
  BY DEF P!Creates, PreferencesTyped
<1>3. CASE P!Run
  <2>1. CASE c.do = "tray"
    BY <1>1, <1>2, <1>3, <2>1 DEF P!Run, P!past, RunTray, c
  <2>2. CASE c.do # "tray" /\ P!Works(c)
    BY <1>1, <1>2, <1>3, <2>2 DEF P!Run, P!past, RunWorks, Answered, c
  <2>3. CASE c.do # "tray" /\ ~P!Works(c)
    <3>1. UNCHANGED <<saved, devices, tray, config, wanted, risky>> /\ Answered(c, P!Answer(c, FALSE, None))
      <4>1. P!Works(c) = FALSE
        BY <2>3 DEF P!Works
      <4>2. QED BY <1>1, <1>3, <2>3, <4>1 DEF P!Run, P!past, Answered
    <3>2. QED BY <1>1, <1>2, <2>3, <3>1 DEF RunBreaks, c
  <2>4. QED BY <2>1, <2>2, <2>3
<1>4. CASE P!RunFails
  BY <1>1, <1>2, <1>4 DEF P!RunFails, P!past, RunBreaks, Answered, c
<1>5. QED BY <1>3, <1>4

LEMMA CrashShape ==
  ASSUME P!Crash
  PROVE  /\ saved' \in {saved, Torn} /\ config' = None /\ answers' = <<>>
         /\ tray' = IF saved' \in {Missing, Torn} THEN TRUE ELSE saved'.tray
         /\ commands' = <<P!Command("load", None, None), P!Command("load", None, None)>>
         /\ UNCHANGED <<devices, wanted>> /\ risky' = risky \cup P!Pending
  BY DEF P!Crash, P!Starts

-----------------------------------------------------------------------------
LEMMA WantedIsTyped ==
  ASSUME PreferencesTyped, NEW g \in P!Field, NEW w, wanted' = [wanted EXCEPT ![g] = w],
         g = "theme" => w \in Theme, g = "pins" => w \in SUBSET Chat,
         g = "tray" => w \in BOOLEAN, g = "dir" => w \in Folder
  PROVE  /\ wanted' = [f \in P!Field |-> wanted'[f]]
         /\ wanted'.theme \in Theme /\ wanted'.pins \in SUBSET Chat
         /\ wanted'.tray \in BOOLEAN /\ wanted'.dir \in Folder
         /\ wanted'[g] = w /\ \A f \in P!Field \ {g} : wanted'[f] = wanted[f]
<1>1. wanted' = [f \in P!Field |-> IF f = g THEN w ELSE wanted[f]]
  BY DEF PreferencesTyped
<1>2. wanted' = [f \in P!Field |-> wanted'[f]] /\ wanted'[g] = w /\ \A f \in P!Field \ {g} : wanted'[f] = wanted[f]
  BY <1>1
<1>3. {"theme", "pins", "tray", "dir"} = P!Field
  BY DEF P!Field
<1>4. /\ wanted.theme \in Theme /\ wanted.pins \in SUBSET Chat
      /\ wanted.tray \in BOOLEAN /\ wanted.dir \in Folder
  BY DEF PreferencesTyped
<1>5. /\ wanted'.theme \in Theme /\ wanted'.pins \in SUBSET Chat
      /\ wanted'.tray \in BOOLEAN /\ wanted'.dir \in Folder
  BY <1>2, <1>3, <1>4
<1>6. QED BY <1>2, <1>5

LEMMA SentIsTyped ==
  ASSUME PreferencesTyped, NEW c \in Orders, Sends(c)
  PROVE  /\ UNCHANGED <<saved, tray, devices, config, answers>>
         /\ commands' \in Seq(Orders) /\ DOMAIN commands' = 1 .. Len(commands) + 1
         /\ Len(commands) \in Nat /\ Len(commands') = Len(commands) + 1 /\ DOMAIN commands = 1 .. Len(commands)
         /\ \A i \in DOMAIN commands : commands'[i] = commands[i] /\ i \in DOMAIN commands'
         /\ commands'[Len(commands) + 1] = c
  BY Appended DEF PreferencesTyped, Sends

LEMMA PreferencesTypesAreKept ==
  PreferencesTyped /\ [P!Next]_(P!vars) => PreferencesTyped'
<1> SUFFICES ASSUME PreferencesTyped, [P!Next]_(P!vars) PROVE PreferencesTyped'
  OBVIOUS
<1>1. ASSUME NEW t \in Theme, P!Choose("theme", t) PROVE PreferencesTyped'
  <2>1. P!Change("theme", t) \in P!Choice
    BY DEF P!Change, P!Choice
  <2>2. PICK c \in Orders : Sends(c) /\ wanted' = [wanted EXCEPT !["theme"] = t]
    BY <1>1, <2>1, ChooseIsSent
  <2>3. "theme" \in P!Field
    BY DEF P!Field
  <2>4. QED BY <2>2, <2>3, SentIsTyped, WantedIsTyped DEF PreferencesTyped
<1>2. ASSUME NEW b \in BOOLEAN, P!Choose("tray", b) PROVE PreferencesTyped'
  <2>1. P!Change("tray", b) \in P!Choice
    BY DEF P!Change, P!Choice
  <2>2. PICK c \in Orders : Sends(c) /\ wanted' = [wanted EXCEPT !["tray"] = b]
    BY <1>2, <2>1, ChooseIsSent
  <2>3. "tray" \in P!Field
    BY DEF P!Field
  <2>4. QED BY <2>2, <2>3, SentIsTyped, WantedIsTyped DEF PreferencesTyped
<1>3. ASSUME NEW x \in Chat, P!TogglePinned(x) PROVE PreferencesTyped'
  <2>1. /\ \E c \in Orders : Sends(c)
        /\ wanted' = [wanted EXCEPT !["pins"] = P!Flip(wanted.pins, x)] /\ P!Flip(wanted.pins, x) \in SUBSET Chat
    BY <1>3, ToggleIsSent
  <2>2. "pins" \in P!Field
    BY DEF P!Field
  <2>3. QED BY <2>1, <2>2, SentIsTyped, WantedIsTyped DEF PreferencesTyped
<1>4. ASSUME NEW d \in Folder, P!ChooseDirectory(d) PROVE PreferencesTyped'
  <2>1. (\E c \in Orders : Sends(c)) /\ wanted' = [wanted EXCEPT !["dir"] = d]
    BY <1>4, DirectoryIsSent
  <2>2. "dir" \in P!Field
    BY DEF P!Field
  <2>3. QED BY <2>1, <2>2, SentIsTyped, WantedIsTyped DEF PreferencesTyped
<1>5. CASE P!Load
  BY <1>5, LoadIsSent, SentIsTyped DEF PreferencesTyped
<1>6. CASE P!Settle
  <2> DEFINE a == answers[1]
  <2>1. /\ answers # <<>> /\ a \in Replies /\ answers' = Tail(answers)
        /\ UNCHANGED <<saved, tray, devices, wanted>>
        /\ config' = IF Copies(a) THEN a.config ELSE config
        /\ commands' = commands \/ \E c \in Orders : commands' = Append(commands, c)
    BY <1>6, SettleShape DEF GoesOn
  <2> HIDE DEF a
  <2>2. config' \in P!Config \cup {None}
    BY <2>1, ReplyTypes DEF PreferencesTyped
  <2>3. answers \in Seq(Replies) /\ commands \in Seq(Orders)
    BY DEF PreferencesTyped
  <2>4. answers' \in Seq(Replies) /\ commands' \in Seq(Orders)
    BY <2>1, <2>3, Appended, Taken
  <2>5. QED BY <2>1, <2>2, <2>4 DEF PreferencesTyped
<1>7. CASE P!Run \/ P!RunFails
  <2> DEFINE c == commands[1]
  <2>1. /\ commands # <<>> /\ c \in Orders /\ UNCHANGED <<config, wanted>> /\ devices' \in Nat
        /\ RunTray(c) \/ RunWorks(c) \/ RunBreaks(c)
    BY <1>7, RunShape
  <2> HIDE DEF c
  <2>2. Tail(commands) \in Seq(Orders)
    BY <2>1, Taken DEF PreferencesTyped
  <2>3. CASE RunTray(c)
    BY <2>1, <2>2, <2>3, OrderTypes DEF PreferencesTyped, RunTray
  <2>4. CASE RunWorks(c)
    <3>1. P!Written(c) \in P!Config /\ P!Answer(c, TRUE, P!Written(c)) \in Replies
      BY <2>1, <2>4, WrittenIsConfig DEF RunWorks
    <3>2. QED BY <2>1, <2>2, <2>4, <3>1, Appended DEF PreferencesTyped, RunWorks, Answered
  <2>5. CASE RunBreaks(c)
    <3>1. P!Answer(c, FALSE, None) \in Replies
      BY <2>1, <2>5, AnswerMade, DefaultIsConfig DEF RunBreaks
    <3>2. saved' \in P!Config \cup {Missing, Torn}
      BY <2>1, <2>5, WrittenIsConfig DEF RunBreaks, PreferencesTyped
    <3>3. QED BY <2>1, <2>2, <2>5, <3>1, <3>2, Appended DEF PreferencesTyped, RunBreaks, Answered
  <2>6. QED BY <2>1, <2>3, <2>4, <2>5
<1>8. CASE P!Crash
  <2>1. saved' \in P!Config \cup {Missing, Torn} /\ tray' \in BOOLEAN
    BY <1>8, CrashShape DEF PreferencesTyped, P!Config
  <2>2. commands' \in Seq(Orders) /\ answers' \in Seq(Replies)
    <3> DEFINE c == P!Command("load", None, None)
    <3>1. c \in Orders /\ commands' = <<c, c>> /\ answers' = <<>>
      BY <1>8, CrashShape, CommandMade
    <3> HIDE DEF c
    <3>2. QED BY <3>1
  <2>3. QED BY <1>8, <2>1, <2>2, CrashShape DEF PreferencesTyped
<1>9. CASE UNCHANGED P!vars
  BY <1>9 DEF P!vars, P!store, P!past, PreferencesTyped
<1>10. QED BY <1>1, <1>2, <1>3, <1>4, <1>5, <1>6, <1>7, <1>8, <1>9 DEF P!Next

-----------------------------------------------------------------------------
(* The copy agrees with the file                                           *)

LEMMA CopyAside ==
  ASSUME CopyAgrees, UNCHANGED <<saved, config, answers>>,
         Mending \/ "dir" \in risky => Mending' \/ "dir" \in risky'
  PROVE  CopyAgrees'
<1>1. \A c : Agrees(c) => Agrees(c)'
  BY DEF Agrees
<1>2. \A i \in DOMAIN answers \cup {0} : NoneCopied(i)' => NoneCopied(i)
  BY DEF NoneCopied
<1>3. QED BY <1>1, <1>2 DEF CopyAgrees

LEMMA SentIsMending ==
  ASSUME PreferencesTyped, NEW c \in Orders, Sends(c)
  PROVE  Mends(c) \/ Mending => Mending'
<1>1. \A i \in DOMAIN commands : commands'[i] = commands[i] /\ i \in DOMAIN commands'
  BY SentIsTyped
<1>2. commands'[Len(commands) + 1] = c /\ Len(commands) + 1 \in DOMAIN commands' /\ answers' = answers
  BY SentIsTyped
<1>3. QED BY <1>1, <1>2 DEF Mending

(* After a run the answers are the same but for the last. *)
LEMMA AnsweredIs ==
  ASSUME PreferencesTyped, commands # <<>>, NEW x \in Replies, Answered(commands[1], x)
  PROVE  /\ Len(answers) \in Nat /\ DOMAIN answers' = 1 .. Len(answers) + 1 /\ DOMAIN answers = 1 .. Len(answers)
         /\ \A i \in DOMAIN answers : answers'[i] = answers[i] /\ i \in DOMAIN answers'
         /\ answers'[Len(answers) + 1] = x
         /\ Len(commands) \in Nat \ {0} /\ DOMAIN commands' = 1 .. Len(commands) - 1 /\ DOMAIN commands = 1 .. Len(commands)
         /\ \A i \in DOMAIN commands' : commands'[i] = commands[i + 1] /\ i + 1 \in DOMAIN commands
         /\ \A i \in DOMAIN commands \ {1} : i - 1 \in DOMAIN commands' /\ commands'[i - 1] = commands[i]
         /\ Len(commands') = Len(commands) - 1
  BY Appended, Taken DEF PreferencesTyped, Answered

LEMMA MendingIsAnswered ==
  ASSUME PreferencesTyped, commands # <<>>, NEW x \in Replies, Answered(commands[1], x)
  PROVE  /\ Mending /\ ~Mends(commands[1]) => Mending'
         /\ Mends(x) /\ ~Copies(x) => Mending'
<1>1. \A i \in DOMAIN answers : answers'[i] = answers[i] /\ i \in DOMAIN answers'
  BY AnsweredIs
<1>2. answers'[Len(answers) + 1] = x /\ Len(answers) + 1 \in DOMAIN answers'
  BY AnsweredIs
<1>3. \A i \in DOMAIN commands \ {1} : i - 1 \in DOMAIN commands' /\ commands'[i - 1] = commands[i]
  BY AnsweredIs
<1>4. QED BY <1>1, <1>2, <1>3 DEF Mending

(* An answer that is no copy is added while the file stays, or changes in  *)
(* its directory alone; or it is a copy of the file.                       *)
LEMMA CopyIsAnswered ==
  ASSUME PreferencesTyped, CopyAgrees, commands # <<>>, NEW x \in Replies, Answered(commands[1], x),
         UNCHANGED <<config, risky>>, saved' # Missing \/ saved' = saved,
         \/ Copies(x) /\ saved' = x.config
         \/ ~Copies(x) /\ \A c \in P!Config : saved # Missing /\ Agrees(c) => Agrees(c)'
  PROVE  CopyAgrees'
<1>1. Len(answers) \in Nat /\ DOMAIN answers' = 1 .. Len(answers) + 1 /\ DOMAIN answers = 1 .. Len(answers)
  BY AnsweredIs
<1>2. \A i \in DOMAIN answers : answers'[i] = answers[i] /\ i \in DOMAIN answers'
  BY AnsweredIs
<1>3. answers'[Len(answers) + 1] = x /\ Len(answers) + 1 \in DOMAIN answers'
  BY AnsweredIs
<1>4. saved # Missing => saved' # Missing
  OBVIOUS
<1>5. CASE Copies(x) /\ saved' = x.config
  <2>1. saved' \in P!Config
    BY <1>5, ReplyTypes DEF Copies
  <2>2. Agrees(x.config)'
    BY <1>5, <2>1, DirectoryOf DEF Agrees, P!Config
  <2>3. \A i \in DOMAIN answers \cup {0} : ~NoneCopied(i)'
    BY <1>1, <1>3, <1>5 DEF NoneCopied, Copies
  <2>4. saved' # Missing
    BY <2>1, ConstantsApart
  <2>5. QED BY <1>1, <1>3, <2>2, <2>3, <2>4 DEF CopyAgrees, Copies
<1>6. CASE ~Copies(x) /\ \A c \in P!Config : saved # Missing /\ Agrees(c) => Agrees(c)'
  <2>1. \A i \in DOMAIN answers \cup {0} : NoneCopied(i)' => NoneCopied(i)
    BY <1>2 DEF NoneCopied, Copies
  <2>2. \A i \in DOMAIN answers : Copies(answers[i]) => answers[i].config \in P!Config
    BY ReplyTypes DEF PreferencesTyped, Copies
  <2>3. config # None => config \in P!Config
    BY DEF PreferencesTyped
  <2>4. \A i \in DOMAIN answers :
          Copies(answers[i]) => saved' # Missing /\ (NoneCopied(i)' => Agrees(answers[i].config)')
    BY <1>2, <1>4, <1>6, <2>1, <2>2 DEF CopyAgrees
  <2>5. config # None => saved' # Missing /\ (NoneCopied(0)' => Agrees(config)')
    BY <1>4, <1>6, <2>1, <2>3 DEF CopyAgrees
  <2>6. QED BY <1>1, <1>2, <1>3, <1>6, <2>4, <2>5 DEF CopyAgrees, Copies
<1>7. QED BY <1>5, <1>6

LEMMA CopyIsKept ==
  PreferencesTyped /\ CopyAgrees /\ [P!Next]_(P!vars) => CopyAgrees'
<1> SUFFICES ASSUME PreferencesTyped, CopyAgrees, [P!Next]_(P!vars) PROVE CopyAgrees'
  OBVIOUS
<1>1. ASSUME NEW c \in Orders, Sends(c), "dir" \in risky => "dir" \in risky' \/ Mends(c) PROVE CopyAgrees'
  BY <1>1, SentIsMending, CopyAside DEF Sends
<1>2. ASSUME NEW t \in Theme, P!Choose("theme", t) PROVE CopyAgrees'
  <2>1. P!Change("theme", t) \in P!Choice
    BY DEF P!Change, P!Choice
  <2>2. (\E c \in Orders : Sends(c)) /\ risky' = ((risky \cup P!Pending) \ {"theme"}) \cup P!Late("theme")
    BY <1>2, <2>1, ChooseIsSent
  <2>3. QED BY <1>1, <2>2
<1>3. ASSUME NEW b \in BOOLEAN, P!Choose("tray", b) PROVE CopyAgrees'
  <2>1. P!Change("tray", b) \in P!Choice
    BY DEF P!Change, P!Choice
  <2>2. (\E c \in Orders : Sends(c)) /\ risky' = ((risky \cup P!Pending) \ {"tray"}) \cup P!Late("tray")
    BY <1>3, <2>1, ChooseIsSent
  <2>3. QED BY <1>1, <2>2
<1>4. ASSUME NEW x \in Chat, P!TogglePinned(x) PROVE CopyAgrees'
  <2>1. (\E c \in Orders : Sends(c)) /\ risky \subseteq risky'
    BY <1>4, ToggleIsSent
  <2>2. QED BY <1>1, <2>1
<1>5. ASSUME NEW d \in Folder, P!ChooseDirectory(d) PROVE CopyAgrees'
  <2>1. \E c \in Orders : Sends(c) /\ Mends(c)
    BY <1>5, DirectoryIsSent, OrderTypes, ConstantsApart DEF Mends
  <2>2. QED BY <1>1, <2>1
<1>6. CASE P!Load
  BY <1>1, <1>6, LoadIsSent
<1>7. CASE P!Settle
  <2> DEFINE a == answers[1]
  <2>1. /\ answers # <<>> /\ a \in Replies /\ answers' = Tail(answers) /\ saved' = saved
        /\ config' = IF Copies(a) THEN a.config ELSE config
        /\ risky' = IF a.ok \/ a.change = None THEN risky ELSE risky \cup {a.change.field}
        /\ commands' = commands \/ \E c \in Orders : GoesOn(c)
        /\ a.ok /\ a.do = "dir" => \E c \in Orders : GoesOn(c) /\ c = P!Command("load", a.change, None)
    BY <1>7, SettleShape
  <2> HIDE DEF a
  <2>2. \A i \in DOMAIN commands : i \in DOMAIN commands' /\ commands'[i] = commands[i]
    BY <2>1, Appended DEF PreferencesTyped, GoesOn
  <2>3. a.ok /\ a.do = "dir" => \E i \in DOMAIN commands' : Mends(commands'[i])
    <3> SUFFICES ASSUME a.ok, a.do = "dir" PROVE \E i \in DOMAIN commands' : Mends(commands'[i])
      OBVIOUS
    <3>1. PICK c \in Orders : GoesOn(c) /\ c = P!Command("load", a.change, None)
      BY <2>1
    <3>2. Mends(c)
      BY <2>1, <3>1, ReplyTypes, ConstantsApart DEF Mends, P!Command, Sent
    <3>3. commands'[Len(commands) + 1] = c /\ Len(commands) + 1 \in DOMAIN commands'
      BY <3>1, Appended DEF PreferencesTyped, GoesOn
    <3>4. QED BY <3>2, <3>3
  <2>4. /\ \A i \in DOMAIN answers' : answers'[i] = answers[i + 1] /\ i + 1 \in DOMAIN answers /\ i \in Nat \ {0}
        /\ \A i \in DOMAIN answers \ {1} : i - 1 \in DOMAIN answers' /\ answers'[i - 1] = answers[i]
        /\ DOMAIN answers \subseteq Nat \ {0} /\ 1 \in DOMAIN answers
    BY <2>1, Taken DEF PreferencesTyped
  <2>5. \A i \in DOMAIN answers' \cup {0} : NoneCopied(i)' => NoneCopied(i + 1)
    BY <2>4 DEF NoneCopied, Copies
  <2>6. Mending /\ ~Copies(a) => Mending' \/ "dir" \in risky'
    <3> SUFFICES ASSUME Mending, ~Copies(a) PROVE Mending' \/ "dir" \in risky'
      OBVIOUS
    <3>1. ASSUME NEW i \in DOMAIN answers, Mends(answers[i]) /\ ~Copies(answers[i]) PROVE Mending' \/ "dir" \in risky'
      <4>1. CASE i # 1
        BY <2>4, <3>1, <4>1 DEF Mending, Copies
      <4>2. CASE i = 1
        <5>1. a.do \in {"load", "read", "save", "dir"} /\ a.ok \in BOOLEAN /\ (a.do \in {"read", "save"} => ~Mends(a))
          BY <2>1, ReplyTypes DEF Sent, Mends
        <5>2. Mends(a)
          BY <3>1, <4>2 DEF a
        <5>3. CASE a.ok
          BY <2>3, <5>1, <5>2, <5>3 DEF Mending, Copies
        <5>4. CASE ~a.ok
          BY <2>1, <5>2, <5>4 DEF Mends
        <5>5. QED BY <5>3, <5>4
      <4>3. QED BY <4>1, <4>2
    <3>2. ASSUME NEW i \in DOMAIN commands, Mends(commands[i]) PROVE Mending'
      BY <2>2, <3>2 DEF Mending
    <3>3. QED BY <3>1, <3>2 DEF Mending
  <2>7. Mending /\ Copies(a) => Mending'
    <3>1. a = answers[1]
      BY DEF a
    <3>2. QED BY <2>2, <2>4, <3>1 DEF Mending, Copies
  <2>8. \A c : Agrees(c) => Agrees(c)'
    <3>1. risky \subseteq risky'
      BY <2>1
    <3>2. QED BY <2>1, <2>6, <2>7, <3>1 DEF Agrees
  <2>9. \A i \in DOMAIN answers' :
          Copies(answers[i + 1]) => saved' # Missing /\ (NoneCopied(i)' => Agrees(answers[i].config)')
    BY <2>1, <2>4, <2>5, <2>8 DEF CopyAgrees
  <2>10. config' # None => saved' # Missing /\ (NoneCopied(0)' => Agrees(config)')
    <3>1. a = answers[1]
      BY DEF a
    <3>2. CASE Copies(a)
      BY <2>1, <2>4, <2>5, <2>8, <3>1, <3>2 DEF CopyAgrees
    <3>3. CASE ~Copies(a)
      <4>1. NoneCopied(0)' => NoneCopied(0)
        BY <2>4, <2>5, <3>1, <3>3 DEF NoneCopied
      <4>2. QED BY <2>1, <2>8, <3>3, <4>1 DEF CopyAgrees
    <3>4. QED BY <3>2, <3>3
  <2>11. QED BY <2>4, <2>9, <2>10 DEF CopyAgrees, Copies
<1>8. CASE P!Run \/ P!RunFails
  <2> DEFINE c == commands[1]
  <2>1. /\ commands # <<>> /\ c \in Orders /\ UNCHANGED <<config, risky>>
        /\ RunTray(c) \/ RunWorks(c) \/ RunBreaks(c)
    BY <1>8, RunShape
  <2> HIDE DEF c
  <2>2. ~Mends(c) => (Mending => \/ \E i \in DOMAIN Tail(commands) : Mends(Tail(commands)[i])
                                 \/ \E i \in DOMAIN answers : Mends(answers[i]) /\ ~Copies(answers[i]))
    <3>1. c = commands[1] /\ \A i \in DOMAIN commands \ {1} : i - 1 \in DOMAIN Tail(commands) /\ Tail(commands)[i - 1] = commands[i]
      BY <2>1, Taken DEF PreferencesTyped, c
    <3>2. QED BY <3>1 DEF Mending
  <2>3. CASE RunTray(c)
    <3>1. ~Mends(c)
      BY <2>1, <2>3, OrderTypes DEF RunTray, Mends
    <3>2. QED BY <2>1, <2>2, <2>3, <3>1, CopyAside DEF RunTray, Mending
  <2>4. CASE RunWorks(c)
    <3> DEFINE x == P!Answer(c, TRUE, P!Written(c))
    <3>1. /\ P!Written(c) \in P!Config /\ x \in Replies /\ Answered(commands[1], x) /\ saved' = P!Written(c)
          /\ x.config = P!Written(c) /\ x.ok /\ x.do = c.do /\ x.change = c.change /\ c.do # "tray"
      BY <2>1, <2>4, WrittenIsConfig DEF RunWorks, Answered, P!Answer
    <3> HIDE DEF x
    <3>2. saved' # Missing
      BY <3>1, ConstantsApart
    <3>3. CASE c.do \in {"load", "save"}
      BY <2>1, <3>1, <3>2, <3>3, CopyIsAnswered DEF Copies
    <3>4. CASE c.do = "read"
      <4>1. saved \in P!Config => saved' = saved
        BY <2>1, <2>4, <3>1, <3>4, WrittenIsConfig, ReadIsConfig DEF RunWorks
      <4>2. ~Mends(c)
        BY <2>1, <3>4, OrderTypes DEF Mends, Sent
      <4>3. Mending => Mending'
        BY <2>1, <3>1, <4>2, MendingIsAnswered DEF c
      <4>4. saved # Missing => saved \in P!Config
        BY <2>1, <2>4, <3>1, <3>4, WrittenIsConfig DEF PreferencesTyped, RunWorks
      <4>5. \A b \in P!Config : saved # Missing /\ Agrees(b) => Agrees(b)'
        BY <2>1, <4>1, <4>3, <4>4 DEF Agrees
      <4>6. ~Copies(x)
        BY <3>1, <3>4 DEF Copies
      <4>7. QED BY <2>1, <3>1, <3>2, <4>5, <4>6, CopyIsAnswered
    <3>5. CASE c.do = "dir"
      <4>1. Mends(x) /\ ~Copies(x)
        BY <2>1, <3>1, <3>5, OrderTypes, ConstantsApart DEF Mends, Sent, Copies
      <4>2. Mending'
        BY <2>1, <3>1, <4>1, MendingIsAnswered
      <4>3. saved # Missing => saved \in P!Config /\ saved' = [saved EXCEPT !.dir = c.change.value]
        BY <2>1, <2>4, <3>1, <3>5, WrittenIsConfig, ReadIsConfig DEF PreferencesTyped, RunWorks
      <4>4. c.change.value \in Folder
        BY <2>1, <3>5, OrderTypes
      <4>5. \A b \in P!Config : saved # Missing /\ Agrees(b) => Agrees(b)'
        <5> SUFFICES ASSUME NEW b \in P!Config, saved # Missing, Agrees(b) PROVE Agrees(b)'
          OBVIOUS
        <5>1. [b EXCEPT !.dir = saved.dir] = saved
          BY <4>3 DEF Agrees
        <5>2. [b EXCEPT !.dir = saved'.dir] = saved'
          BY <4>3, <4>4, <5>1, DirectoryOf
        <5>3. QED BY <4>2, <5>2 DEF Agrees
      <4>6. QED BY <2>1, <3>1, <3>2, <4>1, <4>5, CopyIsAnswered
    <3>6. QED BY <2>1, <3>1, <3>3, <3>4, <3>5, OrderTypes
  <2>5. CASE RunBreaks(c)
    <3> DEFINE x == P!Answer(c, FALSE, None)
    <3>1. x \in Replies /\ Answered(commands[1], x) /\ ~Copies(x) /\ x.change = c.change /\ c.do # "tray"
      BY <2>1, <2>5, AnswerMade, DefaultIsConfig DEF RunBreaks, Answered, P!Answer, Copies, c
    <3> HIDE DEF x
    <3>2. Mending => Mending'
      BY <2>1, <3>1, MendingIsAnswered DEF c, Mends
    <3>3. CASE saved' = saved
      BY <2>1, <3>1, <3>2, <3>3, CopyIsAnswered DEF Agrees
    <3>4. CASE saved' = Torn
      BY <2>1, <3>1, <3>4, ConstantsApart, CopyIsAnswered DEF Agrees
    <3>5. CASE c.do = "dir" /\ P!Works(c) /\ saved' = P!Written(c)
      <4>1. Mends(x)
        BY <2>1, <3>1, <3>5, OrderTypes, ConstantsApart DEF Mends, Sent
      <4>2. Mending'
        BY <2>1, <3>1, <4>1, MendingIsAnswered
      <4>3. /\ saved' \in P!Config
            /\ saved # Missing => saved \in P!Config /\ saved' = [saved EXCEPT !.dir = c.change.value]
        BY <2>1, <3>1, <3>5, WrittenIsConfig, ReadIsConfig DEF PreferencesTyped
      <4>4. c.change.value \in Folder
        BY <2>1, <3>5, OrderTypes
      <4>5. \A b \in P!Config : saved # Missing /\ Agrees(b) => Agrees(b)'
        <5> SUFFICES ASSUME NEW b \in P!Config, saved # Missing, Agrees(b) PROVE Agrees(b)'
          OBVIOUS
        <5>1. [b EXCEPT !.dir = saved.dir] = saved
          BY <4>3 DEF Agrees
        <5>2. [b EXCEPT !.dir = saved'.dir] = saved'
          BY <4>3, <4>4, <5>1, DirectoryOf
        <5>3. QED BY <4>2, <5>2 DEF Agrees
      <4>6. saved' # Missing
        BY <4>3, ConstantsApart
      <4>7. QED BY <2>1, <3>1, <4>5, <4>6, CopyIsAnswered
    <3>6. QED BY <2>5, <3>3, <3>4, <3>5 DEF RunBreaks
  <2>6. QED BY <2>1, <2>3, <2>4, <2>5
<1>9. CASE P!Crash
  BY <1>9, CrashShape DEF CopyAgrees
<1>10. CASE UNCHANGED P!vars
  BY <1>10, CopyAside DEF P!vars, P!store, P!past, Mending
<1>11. QED BY <1>2, <1>3, <1>4, <1>5, <1>6, <1>7, <1>8, <1>9, <1>10 DEF P!Next

-----------------------------------------------------------------------------
(* Choices arrive                                                          *)

LEMMA PendingIs ==
  ASSUME PreferencesTyped, NEW f
  PROVE  /\ \A i \in DOMAIN commands : Of(f, commands[i]) /\ commands[i].do # "tray" => f \in P!Pending
         /\ \A i \in DOMAIN answers : Of(f, answers[i]) => f \in P!Pending
         /\ "read" \notin {x.do : x \in P!UnderWay} => NoReads
<1>1. /\ \A i \in DOMAIN commands : commands[i] \in P!UnderWay
      /\ \A i \in DOMAIN answers : answers[i] \in P!UnderWay
  BY DEF P!UnderWay, P!ToSet
<1>2. \A i \in DOMAIN answers : answers[i].do # "tray"
  BY ReplyTypes DEF PreferencesTyped
<1>3. QED BY <1>1, <1>2 DEF P!Pending, Of, NoReads

(* A choice that nothing is under way for is settled. *)
LEMMA AtRestIsSettled ==
  ASSUME PreferencesTyped, ChoicesArrive, NEW f \in P!Field, f \notin risky, f \notin P!Pending
  PROVE  Settled(f)
<1>1. ~InAnswers(f) /\ ~Doomed(f)
  BY PendingIs DEF InAnswers, Doomed
<1>2. ~ToLoad(f) /\ ~InCommands(f)
  BY PendingIs DEF ToLoad, InCommands
<1>3. ~ToRead(f)
  BY PendingIs DEF ToRead
<1>4. QED BY <1>1, <1>2, <1>3 DEF ChoicesArrive

(* Commands are added which undo nothing, and the first k answers taken. *)
Onward(f, k) ==
  /\ UNCHANGED <<saved, tray>> /\ wanted'[f] = wanted[f]
  /\ \A i \in DOMAIN commands : i \in DOMAIN commands' /\ commands'[i] = commands[i]
  /\ \A i \in DOMAIN commands' \ DOMAIN commands :
       i > Len(commands) /\ Right(f, commands'[i])
  /\ \A i \in DOMAIN answers' : i + k \in DOMAIN answers /\ answers'[i] = answers[i + k] /\ i \in Nat
  /\ \A i \in DOMAIN answers : i > k => i - k \in DOMAIN answers' /\ answers'[i - k] = answers[i]
  /\ DOMAIN commands' \subseteq Nat /\ DOMAIN answers \subseteq Nat \ {0}
  /\ Len(commands) \in Nat /\ Len(commands') \in Nat /\ Len(commands') >= Len(commands)
NoNewReads == \A i \in DOMAIN commands' \ DOMAIN commands : commands'[i].do # "read"
NewTraysRight ==
  \A i \in DOMAIN commands' \ DOMAIN commands :
    commands'[i].do = "tray" => commands'[i].change.value = wanted.tray

LEMMA OnwardKeepsSettled ==
  ASSUME NEW f \in P!Field, NEW k \in {0, 1}, Onward(f, k), Settled(f),
         config' # None => config'[f] = wanted[f],
         f = "tray" => NewTraysRight, f = "tray" /\ Hopeless => TrayRight' \/ Hopeless'
  PROVE  Settled(f)'
<1>1. FileRight(f)'
  BY DEF Onward, Settled, FileRight, DefaultOf, P!DefaultConfig
<1>2. CommandsRight(f)'
  BY DEF Onward, Settled, CommandsRight, Right
<1>3. \A i \in DOMAIN answers' : Right(f, answers[i])'
  BY DEF Onward, Settled, Right
<1>4. f = "tray" => TrayRight' \/ Hopeless'
  <2>1. CASE f = "tray" /\ TrayRight
    <3>1. PICK i \in 0 .. Len(commands) :
            /\ i = 0 => tray = wanted.tray
            /\ \A j \in DOMAIN commands :
                 commands[j].do = "tray" /\ j >= i => commands[j].change.value = wanted.tray
            /\ i # 0 => commands[i].do = "tray"
      BY <2>1 DEF TrayRight
    <3>2. i # 0 => i \in DOMAIN commands'
      BY <3>1 DEF Onward
    <3>3. QED BY <2>1, <3>1, <3>2 DEF Onward, NewTraysRight, TrayRight
  <2>2. QED BY <2>1 DEF Settled
<1>5. config' # None => config'[f] = wanted'[f]
  BY DEF Onward
<1>6. QED BY <1>1, <1>2, <1>3, <1>4, <1>5 DEF Settled

(* The answer that is taken brings the choice. *)
Brings(f) ==
  /\ answers[1].do \in {"save", "dir", "load"} /\ answers[1].ok /\ Of(f, answers[1])
  /\ \A j \in DOMAIN answers : Right(f, answers[j])

LEMMA OnwardKeepsRest ==
  ASSUME NEW f \in P!Field, NEW k \in {0, 1}, Onward(f, k), NoNewReads
  PROVE  /\ NoReads => NoReads'
         /\ FileRight(f) => FileRight(f)'
         /\ CommandsRight(f) => CommandsRight(f)'
         /\ ToLoad(f) => ToLoad(f)'
         /\ InCommands(f) => InCommands(f)'
         /\ InAnswers(f) => InAnswers(f)' \/ (k = 1 /\ Brings(f))
         /\ ToRead(f) /\ (k = 0 \/ answers[1].do # "read") => ToRead(f)'
         /\ Doomed(f) /\ (k = 0 \/ ~Of(f, answers[1]) \/ answers[1].ok) => Doomed(f)'
<1>1. NoReads => NoReads'
  BY DEF Onward, NoNewReads, NoReads
<1>2. FileRight(f) => FileRight(f)'
  BY DEF Onward, FileRight, DefaultOf, P!DefaultConfig
<1>3. CommandsRight(f) => CommandsRight(f)'
  BY DEF Onward, CommandsRight, Right
<1>4. ToLoad(f) => ToLoad(f)'
  BY <1>1, <1>2, <1>3 DEF ToLoad, Onward
<1>5. InCommands(f) => InCommands(f)'
  BY <1>1 DEF InCommands, Onward, Right
<1>6. InAnswers(f) => InAnswers(f)' \/ (k = 1 /\ Brings(f))
  <2> SUFFICES ASSUME InAnswers(f) PROVE InAnswers(f)' \/ (k = 1 /\ Brings(f))
    OBVIOUS
  <2>1. PICK i \in DOMAIN answers :
          /\ answers[i].do \in {"save", "dir", "load"} /\ answers[i].ok /\ Of(f, answers[i])
          /\ \A j \in DOMAIN answers : j >= i => Right(f, answers[j])
    BY DEF InAnswers
  <2>2. CASE i > k
    <3>1. /\ i - k \in DOMAIN answers' /\ answers'[i - k] = answers[i]
          /\ \A j \in DOMAIN answers' : j >= i - k => Right(f, answers[j])'
      BY <2>1, <2>2 DEF Onward, Right
    <3>2. QED BY <1>1, <1>2, <1>3, <2>1, <3>1 DEF InAnswers
  <2>3. CASE ~(i > k)
    <3>1. k = 1 /\ i = 1 /\ \A j \in DOMAIN answers : j >= i
      BY <2>1, <2>3 DEF Onward
    <3>2. QED BY <2>1, <3>1 DEF Brings
  <2>4. QED BY <2>2, <2>3
<1>7. ToRead(f) /\ (k = 0 \/ answers[1].do # "read") => ToRead(f)'
  <2> SUFFICES ASSUME ToRead(f), k = 0 \/ answers[1].do # "read" PROVE ToRead(f)'
    OBVIOUS
  <2>1. \/ \E i \in DOMAIN commands' : commands'[i].do = "read"
        \/ \E i \in DOMAIN answers' : answers'[i].do = "read"
    <3>1. ASSUME NEW i \in DOMAIN answers, answers[i].do = "read" PROVE \E j \in DOMAIN answers' : answers'[j].do = "read"
      <4>1. i > k
        BY <3>1 DEF Onward
      <4>2. QED BY <3>1, <4>1 DEF Onward
    <3>2. QED BY <3>1 DEF ToRead, Onward
  <2>2. \A i \in DOMAIN commands' : commands'[i].do = "read" => Of(f, commands'[i]) /\ Right(f, commands[i])'
    BY DEF ToRead, Onward, NoNewReads, Right
  <2>3. \A i \in DOMAIN answers' :
          answers'[i].do = "read" => Of(f, answers'[i]) /\ answers'[i].change.value = wanted'[f]
    BY DEF ToRead, Onward
  <2>4. QED BY <2>1, <2>2, <2>3 DEF ToRead
<1>8. Doomed(f) /\ (k = 0 \/ ~Of(f, answers[1]) \/ answers[1].ok) => Doomed(f)'
  <2> SUFFICES ASSUME Doomed(f), k = 0 \/ ~Of(f, answers[1]) \/ answers[1].ok PROVE Doomed(f)'
    OBVIOUS
  <2>1. PICK i \in DOMAIN answers : Of(f, answers[i]) /\ ~answers[i].ok
    BY DEF Doomed
  <2>2. i > k
    BY <2>1 DEF Onward
  <2>3. QED BY <2>1, <2>2 DEF Onward, Doomed
<1>9. QED BY <1>1, <1>2, <1>3, <1>4, <1>5, <1>6, <1>7, <1>8

LEMMA SentIsOnward ==
  ASSUME PreferencesTyped, NEW f \in P!Field, NEW c \in Orders, Sends(c), c.do # "tray",
         Right(f, c), wanted'[f] = wanted[f]
  PROVE  /\ Onward(f, 0) /\ (c.do # "read" => NoNewReads) /\ NewTraysRight
         /\ Hopeless /\ c.config = None => Hopeless'
<1>1. /\ UNCHANGED <<saved, tray, devices, config, answers>>
      /\ DOMAIN commands' = 1 .. Len(commands) + 1
      /\ Len(commands) \in Nat /\ Len(commands') = Len(commands) + 1 /\ DOMAIN commands = 1 .. Len(commands)
      /\ \A i \in DOMAIN commands : commands'[i] = commands[i] /\ i \in DOMAIN commands'
      /\ commands'[Len(commands) + 1] = c
  BY SentIsTyped
<1>2. \A i \in DOMAIN commands' \ DOMAIN commands : i = Len(commands) + 1
  BY <1>1
<1>3. DOMAIN answers \subseteq Nat \ {0}
  BY DEF PreferencesTyped
<1>4. Onward(f, 0)
  BY <1>1, <1>2, <1>3 DEF Onward
<1>5. (c.do # "read" => NoNewReads) /\ NewTraysRight
  BY <1>1, <1>2 DEF NoNewReads, NewTraysRight
<1>6. Hopeless /\ c.config = None => Hopeless'
  BY <1>1, <1>2 DEF Hopeless
<1>7. QED BY <1>4, <1>5, <1>6

(* What a choice carries of the others was settled, unless it is risky. *)
LEMMA CarriedIsSettled ==
  ASSUME PreferencesTyped, NEW x \in P!Choice, NEW c \in Orders, Sends(c), Carries(c, x),
         NEW f \in P!Field, f # x.field, wanted'[f] = wanted[f], Settled(f)
  PROVE  Settled(f)'
<1>1. c.config # None => c.config[f] = wanted[f]
  BY MadeIsConfig, OrderTypes DEF Carries, Settled, PreferencesTyped
<1>2. Right(f, c) /\ c.do # "tray"
  BY <1>1 DEF Carries, Right
<1>3. Onward(f, 0) /\ NewTraysRight /\ (Hopeless /\ c.config = None => Hopeless')
  BY <1>2, SentIsOnward
<1>4. Hopeless => c.config = None
  BY DEF Hopeless, Carries
<1>5. config' = config
  BY DEF Sends
<1>6. QED BY <1>3, <1>4, <1>5, OnwardKeepsSettled DEF Settled

(* A choice that is sent alone is the last to be run. *)
LEMMA SentIsLast ==
  ASSUME PreferencesTyped, NEW c \in Orders, Sends(c), NoReads, NEW f \in P!Field,
         Of(f, c), c.do \in {"save", "dir"}, Right(f, c)'
  PROVE  InCommands(f)'
<1>1. /\ UNCHANGED <<saved, tray, devices, config, answers>>
      /\ DOMAIN commands' = 1 .. Len(commands) + 1
      /\ Len(commands) \in Nat /\ DOMAIN commands = 1 .. Len(commands)
      /\ \A i \in DOMAIN commands : commands'[i] = commands[i] /\ i \in DOMAIN commands'
      /\ commands'[Len(commands) + 1] = c
  BY SentIsTyped
<1>2. NoReads'
  BY <1>1 DEF NoReads
<1>3. \A j \in DOMAIN commands' : j >= Len(commands) + 1 => Right(f, commands[j])'
  <2>1. \A j \in DOMAIN commands' : j >= Len(commands) + 1 => commands'[j] = c
    BY <1>1
  <2>2. QED BY <2>1 DEF Right
<1>4. QED BY <1>1, <1>2, <1>3 DEF InCommands, Of

LEMMA ChosenIsSent ==
  ASSUME PreferencesTyped, NEW x \in P!Choice, NEW c \in Orders, Sends(c), Carries(c, x), NoReads,
         wanted'[x.field] = x.value
  PROVE  InCommands(x.field)' \/ ToRead(x.field)'
<1>1. x.field \in P!Field /\ Of(x.field, c)
  BY ChoiceTypes, ConstantsApart DEF Of, Carries
<1>2. CASE config # None
  <2>1. Right(x.field, c)'
    BY <1>2, MadeIsConfig DEF Carries, Right, PreferencesTyped
  <2>2. QED BY <1>1, <1>2, <2>1, SentIsLast DEF Carries
<1>3. CASE config = None
  <2>1. /\ UNCHANGED <<saved, tray, devices, config, answers>>
        /\ DOMAIN commands' = 1 .. Len(commands) + 1
        /\ Len(commands) \in Nat /\ DOMAIN commands = 1 .. Len(commands)
        /\ \A i \in DOMAIN commands : commands'[i] = commands[i]
        /\ commands'[Len(commands) + 1] = c
    BY SentIsTyped
  <2>2. \A i \in DOMAIN commands' : commands'[i].do = "read" => commands'[i] = c
    BY <2>1 DEF NoReads
  <2>3. \A i \in DOMAIN answers' : answers'[i].do # "read"
    BY <2>1 DEF NoReads
  <2>4. Right(x.field, c)' /\ c.do = "read"
    BY <1>3, OrderTypes DEF Carries, Right
  <2>5. \A i \in DOMAIN commands' : commands'[i].do = "read" => Of(x.field, commands'[i]) /\ Right(x.field, commands[i])'
    BY <1>1, <2>2, <2>4 DEF Right
  <2>6. QED BY <2>1, <2>3, <2>4, <2>5 DEF ToRead
<1>4. QED BY <1>2, <1>3

LEMMA NotLate ==
  ASSUME NEW f, f \notin P!Late(f), PreferencesTyped
  PROVE  NoReads
<1>1. ~ \E x \in P!UnderWay : x.do = "read"
  BY DEF P!Late
<1>2. QED BY <1>1, PendingIs

(* What arrives, and stays under way when nothing is undone *)
Arrives(f) ==
  Settled(f) \/ InAnswers(f) \/ ToLoad(f) \/ InCommands(f) \/ ToRead(f) \/ Doomed(f)

LEMMA SentKeepsArrival ==
  ASSUME PreferencesTyped, NEW f \in P!Field, Arrives(f), NEW c \in Orders, Sends(c), c.do \in {"dir", "load"},
         ~Of(f, c), wanted'[f] = wanted[f]
  PROVE  Arrives(f)'
<1>1. c.config = None
  BY OrderTypes
<1>2. Right(f, c)
  BY <1>1, OrderTypes, ConstantsApart DEF Right, Of
<1>3. Onward(f, 0) /\ NoNewReads /\ NewTraysRight /\ (Hopeless => Hopeless') /\ config' = config
  BY <1>1, <1>2, SentIsOnward DEF Sends
<1>4. Settled(f) => Settled(f)'
  BY <1>3, OnwardKeepsSettled DEF Settled
<1>5. QED BY <1>3, <1>4, OnwardKeepsRest DEF Arrives

LEMMA TakenIsOnward ==
  ASSUME PreferencesTyped, answers # <<>>, answers' = Tail(answers), UNCHANGED <<saved, tray, wanted>>,
         NEW f \in P!Field,
         \/ commands' = commands
         \/ \E c \in Orders : GoesOn(c) /\ Right(f, c)
  PROVE  Onward(f, 1)
<1>1. /\ \A i \in DOMAIN answers' : i + 1 \in DOMAIN answers /\ answers'[i] = answers[i + 1] /\ i \in Nat
      /\ \A i \in DOMAIN answers : i > 1 => i - 1 \in DOMAIN answers' /\ answers'[i - 1] = answers[i]
      /\ DOMAIN answers \subseteq Nat \ {0}
  BY Taken DEF PreferencesTyped
<1>2. CASE commands' = commands
  BY <1>1, <1>2 DEF Onward, PreferencesTyped
<1>3. ASSUME NEW c \in Orders, GoesOn(c) /\ Right(f, c) PROVE Onward(f, 1)
  <2>1. /\ DOMAIN commands' = 1 .. Len(commands) + 1
        /\ Len(commands) \in Nat /\ Len(commands') = Len(commands) + 1 /\ DOMAIN commands = 1 .. Len(commands)
        /\ \A i \in DOMAIN commands : commands'[i] = commands[i] /\ i \in DOMAIN commands'
        /\ commands'[Len(commands) + 1] = c
    BY <1>3, Appended DEF PreferencesTyped, GoesOn
  <2>2. \A i \in DOMAIN commands' \ DOMAIN commands : i > Len(commands) /\ Right(f, commands'[i])
    BY <1>3, <2>1
  <2>3. QED BY <1>1, <2>1, <2>2 DEF Onward
<1>4. QED BY <1>2, <1>3

LEMMA GoesOnIs ==
  ASSUME PreferencesTyped, NEW c \in Orders, GoesOn(c)
  PROVE  /\ Len(commands) + 1 \in DOMAIN commands' /\ commands'[Len(commands) + 1] = c
         /\ DOMAIN commands' = 1 .. Len(commands) + 1 /\ DOMAIN commands = 1 .. Len(commands)
         /\ Len(commands) \in Nat /\ Len(commands') = Len(commands) + 1
         /\ \A i \in DOMAIN commands : commands'[i] = commands[i] /\ i \in DOMAIN commands'
         /\ (c.do # "read" => NoNewReads)
         /\ (c.do = "tray" => c.change.value = wanted.tray) => NewTraysRight
<1>1. /\ DOMAIN commands' = 1 .. Len(commands) + 1
      /\ Len(commands) \in Nat /\ Len(commands') = Len(commands) + 1 /\ DOMAIN commands = 1 .. Len(commands)
      /\ \A i \in DOMAIN commands : commands'[i] = commands[i] /\ i \in DOMAIN commands'
      /\ commands'[Len(commands) + 1] = c
  BY Appended DEF PreferencesTyped, GoesOn
<1>2. \A i \in DOMAIN commands' \ DOMAIN commands : commands'[i] = c
  BY <1>1
<1>3. QED BY <1>1, <1>2 DEF NoNewReads, NewTraysRight

(* The answer that is taken was a read: the choice goes on to be saved. *)
LEMMA ReadGoesOn ==
  ASSUME PreferencesTyped, P!Settle, NEW f \in P!Field, f \notin risky', ToRead(f), answers[1].do = "read"
  PROVE  Arrives(f)'
<1> DEFINE a == answers[1]
<1>1. /\ answers # <<>> /\ a \in Replies /\ answers' = Tail(answers) /\ UNCHANGED <<saved, tray, wanted>>
      /\ risky' = IF a.ok \/ a.change = None THEN risky ELSE risky \cup {a.change.field}
      /\ a.ok => \E c \in Orders : GoesOn(c) /\ c = P!Command("save", a.change, P!Made(a.config, a.change))
  BY SettleShape
<1>2. 1 \in DOMAIN answers
  BY <1>1, Taken DEF PreferencesTyped
<1>3. Of(f, a) /\ a.change.value = wanted[f] /\ a.change \in P!Choice /\ a.do = "read"
  BY <1>1, <1>2, ReplyTypes DEF ToRead
<1> HIDE DEF a
<1>4. a.ok /\ a.config \in P!Config
  BY <1>1, <1>3, ReplyTypes DEF Of
<1>5. PICK c \in Orders : GoesOn(c) /\ c = P!Command("save", a.change, P!Made(a.config, a.change))
  BY <1>1, <1>4
<1>6. c.do = "save" /\ Of(f, c) /\ Right(f, c)
  BY <1>3, <1>4, <1>5, MadeIsConfig DEF P!Command, Of, Right
<1>7. Onward(f, 1) /\ NoNewReads
  BY <1>1, <1>5, <1>6, TakenIsOnward, GoesOnIs
<1>8. /\ \A i \in DOMAIN commands' : commands'[i].do = "read" => Of(f, commands'[i]) /\ Right(f, commands[i])'
      /\ \A i \in DOMAIN answers' :
           answers'[i].do = "read" => Of(f, answers'[i]) /\ answers'[i].change.value = wanted'[f]
  BY <1>7 DEF ToRead, Onward, NoNewReads, Right
<1>9. CASE \/ \E i \in DOMAIN commands' : commands'[i].do = "read"
           \/ \E i \in DOMAIN answers' : answers'[i].do = "read"
  BY <1>8, <1>9 DEF ToRead, Arrives
<1>10. CASE NoReads'
  <2>1. Len(commands) + 1 \in DOMAIN commands' /\ commands'[Len(commands) + 1] = c
    BY <1>5, GoesOnIs
  <2>2. \A j \in DOMAIN commands' : j >= Len(commands) + 1 => Right(f, commands[j])'
    <3>1. \A j \in DOMAIN commands' : j >= Len(commands) + 1 => commands'[j] = c
      BY <1>5, GoesOnIs
    <3>2. QED BY <1>1, <1>6, <3>1 DEF Right
  <2>3. QED BY <1>6, <1>10, <2>1, <2>2 DEF InCommands, Of, Arrives
<1>11. QED BY <1>9, <1>10 DEF NoReads

LEMMA SettleKeepsArrival ==
  ASSUME PreferencesTyped, P!Settle, NEW f \in P!Field, f \notin risky', Arrives(f)
  PROVE  Arrives(f)'
<1> DEFINE a == answers[1]
<1>1. /\ answers # <<>> /\ a \in Replies /\ answers' = Tail(answers) /\ UNCHANGED <<saved, tray, wanted>>
      /\ config' = IF Copies(a) THEN a.config ELSE config
      /\ risky' = IF a.ok \/ a.change = None THEN risky ELSE risky \cup {a.change.field}
      /\ \/ /\ a.ok /\ a.do = "read"
            /\ \E c \in Orders : GoesOn(c) /\ c = P!Command("save", a.change, P!Made(a.config, a.change))
         \/ /\ a.ok /\ a.do = "save" /\ a.change.field = "tray"
            /\ \E c \in Orders : GoesOn(c) /\ c = P!Command("tray", a.change, None)
         \/ /\ a.ok /\ a.do = "dir"
            /\ \E c \in Orders : GoesOn(c) /\ c = P!Command("load", a.change, None)
         \/ /\ ~a.ok \/ a.do = "load" \/ (a.do = "save" /\ a.change.field # "tray")
            /\ commands' = commands
  BY SettleShape
<1>2. 1 \in DOMAIN answers
  BY <1>1, Taken DEF PreferencesTyped
<1>a. a = answers[1]
  OBVIOUS
<1> HIDE DEF a
<1>3. /\ a.do \in {"load", "read", "save", "dir"} /\ a.ok \in BOOLEAN /\ (a.config # None <=> a.ok) /\ Sent(a)
      /\ a.do # "load" => a.change \in P!Choice
      /\ a.ok => a.config \in P!Config
  BY <1>1, ReplyTypes
<1>4. ~a.ok => ~Of(f, a)
  BY <1>1 DEF Of
<1>5. commands' = commands => NoNewReads /\ NewTraysRight
  BY DEF NoNewReads, NewTraysRight
(* What goes on undoes nothing, unless it goes on to save. *)
<1>6. a.do # "read" \/ ~a.ok => Onward(f, 1) /\ NoNewReads
  <2> SUFFICES ASSUME a.do # "read" \/ ~a.ok PROVE Onward(f, 1) /\ NoNewReads
    OBVIOUS
  <2>1. CASE commands' = commands
    BY <1>1, <1>5, <2>1, TakenIsOnward
  <2>2. ASSUME NEW c \in Orders, GoesOn(c),
               c = P!Command("tray", a.change, None) \/ c = P!Command("load", a.change, None)
        PROVE  Onward(f, 1) /\ NoNewReads
    <3>1. c.do \in {"tray", "load"} /\ c.config = None
      BY <2>2 DEF P!Command
    <3>2. Right(f, c)
      BY <3>1 DEF Right
    <3>3. QED BY <1>1, <2>2, <3>1, <3>2, TakenIsOnward, GoesOnIs
  <2>3. QED BY <1>1, <2>1, <2>2
<1>7. CASE Settled(f)
  <2>1. Right(f, a) /\ (config # None => config[f] = wanted[f])
    BY <1>a, <1>2, <1>7 DEF Settled
  <2>2. config' # None => config'[f] = wanted[f]
    BY <1>1, <2>1 DEF Right, Copies
  <2>3. Onward(f, 1) /\ (f = "tray" => NewTraysRight)
    <3>1. CASE a.ok /\ a.do = "read"
      <4>1. PICK c \in Orders : GoesOn(c) /\ c = P!Command("save", a.change, P!Made(a.config, a.change))
        BY <1>1, <3>1
      <4>2. Right(f, c) /\ c.do = "save"
        BY <1>3, <2>1, <3>1, <4>1, MadeIsConfig DEF P!Command, Right
      <4>3. QED BY <1>1, <4>1, <4>2, TakenIsOnward, GoesOnIs
    <3>2. CASE a.ok /\ a.do = "save" /\ a.change.field = "tray"
      <4>1. PICK c \in Orders : GoesOn(c) /\ c = P!Command("tray", a.change, None)
        BY <1>1, <3>2
      <4>2. f = "tray" => c.change.value = wanted.tray
        BY <2>1, <3>2, <4>1 DEF P!Command, Right
      <4>3. QED BY <1>6, <3>2, <4>1, <4>2, GoesOnIs
    <3>3. CASE a.ok /\ a.do = "dir"
      <4>1. PICK c \in Orders : GoesOn(c) /\ c = P!Command("load", a.change, None)
        BY <1>1, <3>3
      <4>2. c.do = "load"
        BY <4>1 DEF P!Command
      <4>3. QED BY <1>6, <3>3, <4>1, <4>2, GoesOnIs
    <3>4. CASE commands' = commands
      BY <1>1, <1>5, <3>4, TakenIsOnward
    <3>5. QED BY <1>1, <3>1, <3>2, <3>3, <3>4
  <2>4. f = "tray" /\ Hopeless => Hopeless'
    <3> SUFFICES ASSUME Hopeless PROVE Hopeless'
      OBVIOUS
    <3>1. a.config = None
      BY <1>a, <1>2 DEF Hopeless
    <3>2. commands' = commands /\ config' = config
      BY <1>1, <1>3, <3>1 DEF Copies
    <3>3. QED BY <1>1, <2>3, <3>2 DEF Hopeless, Onward
  <2>5. QED BY <1>7, <2>2, <2>3, <2>4, OnwardKeepsSettled DEF Arrives
<1>8. CASE Doomed(f)
  <2>1. PICK i \in DOMAIN answers : Of(f, answers[i]) /\ ~answers[i].ok
    BY <1>8 DEF Doomed
  <2>2. i # 1
    BY <1>a, <1>4, <2>1
  <2>3. i - 1 \in DOMAIN answers' /\ answers'[i - 1] = answers[i]
    BY <1>1, <2>2, Taken DEF PreferencesTyped
  <2>4. QED BY <2>1, <2>3 DEF Doomed, Arrives
<1>9. CASE ToRead(f)
  BY <1>a, <1>6, <1>9, ReadGoesOn, OnwardKeepsRest DEF Arrives
<1>10. CASE ToLoad(f) \/ InCommands(f) \/ InAnswers(f)
  <2>1. NoReads
    BY <1>10 DEF ToLoad, InCommands, InAnswers
  <2>2. a.do # "read"
    BY <1>a, <1>2, <2>1 DEF NoReads
  <2>3. Onward(f, 1) /\ NoNewReads
    BY <1>6, <2>2
  <2>4. CASE ~(InAnswers(f) /\ Brings(f))
    BY <1>10, <2>3, <2>4, OnwardKeepsRest DEF Arrives
  <2>5. CASE InAnswers(f) /\ Brings(f)
    <3>1. FileRight(f)' /\ CommandsRight(f)' /\ NoReads'
      BY <2>1, <2>3, <2>5, OnwardKeepsRest DEF InAnswers
    <3>2. a.ok /\ Of(f, a) /\ Right(f, a) /\ \A i \in DOMAIN answers : Right(f, answers[i])
      BY <1>a, <1>2, <2>5 DEF Brings
    <3>3. \A i \in DOMAIN answers' : Right(f, answers[i])'
      BY <2>3, <3>2 DEF Onward, Right
    <3>4. CASE a.do \in {"load", "save"}
      <4>1. config' = a.config /\ (config' # None => config'[f] = wanted'[f])
        BY <1>1, <3>2, <3>4, <2>3 DEF Copies, Right, Onward
      <4>2. f = "tray" => TrayRight'
        <5> SUFFICES ASSUME f = "tray" PROVE TrayRight'
          OBVIOUS
        <5>1. a.do = "save" /\ a.change.field = "tray" /\ a.change.value = wanted.tray
          BY <1>3, <3>2, <3>4 DEF Of, Sent, Right
        <5>2. PICK c \in Orders : GoesOn(c) /\ c = P!Command("tray", a.change, None)
          BY <1>1, <3>2, <5>1
        <5>3. c.do = "tray" /\ c.change.value = wanted.tray
          BY <5>1, <5>2 DEF P!Command
        <5>4. /\ Len(commands) + 1 \in DOMAIN commands' /\ commands'[Len(commands) + 1] = c
              /\ Len(commands') = Len(commands) + 1 /\ Len(commands) \in Nat
              /\ \A j \in DOMAIN commands' : j >= Len(commands) + 1 => j = Len(commands) + 1
          BY <5>2, GoesOnIs
        <5>5. Len(commands) + 1 \in 0 .. Len(commands') /\ Len(commands) + 1 # 0
          BY <5>4
        <5>6. wanted' = wanted
          BY <1>1
        <5>7. QED BY <5>3, <5>4, <5>5, <5>6 DEF TrayRight
      <4>3. QED BY <3>1, <3>3, <4>1, <4>2 DEF Settled, Arrives
    <3>5. CASE a.do = "dir"
      <4>1. PICK c \in Orders : GoesOn(c) /\ c = P!Command("load", a.change, None)
        BY <1>1, <3>2, <3>5
      <4>2. c.do = "load" /\ Of(f, c)
        BY <3>2, <4>1 DEF P!Command, Of
      <4>3. Len(commands) + 1 \in DOMAIN commands' /\ commands'[Len(commands) + 1] = c
        BY <4>1, GoesOnIs
      <4>4. QED BY <3>1, <4>2, <4>3 DEF ToLoad, Arrives
    <3>6. QED BY <1>3, <2>2, <3>4, <3>5
  <2>6. QED BY <2>4, <2>5
<1>11. QED BY <1>7, <1>8, <1>9, <1>10 DEF Arrives

(* What a command writes is right when the file and the command are. *)
LEMMA WrittenIsRight ==
  ASSUME PreferencesTyped, NEW c \in Orders, c.do # "tray", P!Works(c), NEW f \in P!Field,
         FileRight(f) \/ (c.do \in {"save", "dir"} /\ Of(f, c)), Right(f, c)
  PROVE  P!Written(c)[f] = wanted[f]
<1>1. c.do # "load" => c.change \in P!Choice
  BY OrderTypes
<1>2. CASE c.do = "save"
  BY <1>2, OrderTypes, WrittenIsConfig DEF Right
<1>3. CASE c.do \in {"load", "read"}
  BY <1>3, WrittenIsConfig, ReadIsConfig
<1>4. CASE c.do = "dir"
  <2>1. /\ P!Written(c) = [P!Read EXCEPT !.dir = c.change.value] /\ saved # Torn
        /\ c.change.value \in Folder /\ P!Read \in P!Config
    BY <1>4, WrittenIsConfig, OrderTypes, ReadIsConfig
  <2>2. c.change.field = "dir"
    BY <1>4, OrderTypes DEF Sent
  <2>3. CASE f = "dir"
    BY <1>4, <2>1, <2>2, <2>3, DirectoryOf DEF Right
  <2>4. CASE f # "dir"
    <3>1. FileRight(f)
      BY <2>2, <2>4 DEF Of
    <3>2. QED BY <2>1, <2>4, <3>1, DirectoryOf, ReadIsConfig
  <2>5. QED BY <2>3, <2>4
<1>5. QED BY <1>2, <1>3, <1>4, OrderTypes

LEMMA TrayIsServed ==
  ASSUME PreferencesTyped, commands # <<>>, commands' = Tail(commands), TrayRight, wanted' = wanted,
         tray' = IF commands[1].do = "tray" THEN commands[1].change.value ELSE tray
  PROVE  TrayRight'
<1>1. /\ Len(commands) \in Nat \ {0} /\ Len(commands') = Len(commands) - 1 /\ 1 \in DOMAIN commands
      /\ DOMAIN commands = 1 .. Len(commands) /\ DOMAIN commands' = 1 .. Len(commands) - 1
      /\ \A i \in DOMAIN commands' : commands'[i] = commands[i + 1] /\ i + 1 \in DOMAIN commands
  BY Taken DEF PreferencesTyped
<1>2. PICK i \in 0 .. Len(commands) :
        /\ i = 0 => tray = wanted.tray
        /\ \A j \in DOMAIN commands :
             commands[j].do = "tray" /\ j >= i => commands[j].change.value = wanted.tray
        /\ i # 0 => commands[i].do = "tray"
  BY DEF TrayRight
<1>3. CASE i \in {0, 1}
  <2>1. tray' = wanted.tray
    BY <1>1, <1>2, <1>3
  <2>2. \A j \in DOMAIN commands' : commands'[j].do = "tray" => commands'[j].change.value = wanted.tray
    BY <1>1, <1>2, <1>3
  <2>3. 0 \in 0 .. Len(commands')
    BY <1>1
  <2>4. QED BY <2>1, <2>2, <2>3 DEF TrayRight
<1>4. CASE i \notin {0, 1}
  <2>1. i - 1 \in 0 .. Len(commands') /\ i - 1 # 0 /\ commands'[i - 1] = commands[i]
    BY <1>1, <1>2, <1>4
  <2>2. \A j \in DOMAIN commands' :
          commands'[j].do = "tray" /\ j >= i - 1 => commands'[j].change.value = wanted.tray
    BY <1>1, <1>2
  <2>3. QED BY <1>2, <1>4, <2>1, <2>2 DEF TrayRight
<1>5. QED BY <1>3, <1>4

(* The first command goes, and nothing else. *)
LEMMA TrayRunKeepsArrival ==
  ASSUME PreferencesTyped, commands # <<>>, commands[1] \in Orders, RunTray(commands[1]),
         UNCHANGED <<config, wanted>>, NEW f \in P!Field, Arrives(f)
  PROVE  Arrives(f)'
<1>1. /\ \A i \in DOMAIN commands' : commands'[i] = commands[i + 1] /\ i + 1 \in DOMAIN commands /\ i \in Nat
      /\ \A i \in DOMAIN commands \ {1} : i - 1 \in DOMAIN commands' /\ commands'[i - 1] = commands[i]
      /\ DOMAIN commands \subseteq Nat
  BY Taken DEF PreferencesTyped, RunTray
<1>2. commands[1].do = "tray" /\ UNCHANGED <<saved, answers>> /\ commands' = Tail(commands)
  BY DEF RunTray
<1>3. NoReads => NoReads'
  BY <1>1, <1>2 DEF NoReads
<1>4. FileRight(f) => FileRight(f)'
  BY <1>2 DEF FileRight, DefaultOf, P!DefaultConfig
<1>5. CommandsRight(f) => CommandsRight(f)'
  BY <1>1 DEF CommandsRight, Right
<1>6. Settled(f) => Settled(f)'
  <2>1. TrayRight => TrayRight'
    BY <1>2, TrayIsServed DEF RunTray
  <2>2. Hopeless => Hopeless'
    BY <1>1, <1>2 DEF Hopeless
  <2>3. (\A i \in DOMAIN answers : Right(f, answers[i])) => \A i \in DOMAIN answers' : Right(f, answers[i])'
    BY <1>2 DEF Right
  <2>4. QED BY <1>4, <1>5, <2>1, <2>2, <2>3 DEF Settled
<1>7. InAnswers(f) => InAnswers(f)'
  BY <1>2, <1>3, <1>4, <1>5 DEF InAnswers, Right
<1>8. ToLoad(f) => ToLoad(f)'
  <2>1. (\E i \in DOMAIN commands : commands[i].do = "load" /\ Of(f, commands[i]))
          => \E i \in DOMAIN commands' : commands'[i].do = "load" /\ Of(f, commands'[i])
    BY <1>1, <1>2
  <2>2. QED BY <1>3, <1>4, <1>5, <2>1 DEF ToLoad
<1>9. InCommands(f) => InCommands(f)'
  <2> SUFFICES ASSUME InCommands(f) PROVE InCommands(f)'
    OBVIOUS
  <2>1. PICK i \in DOMAIN commands :
          /\ commands[i].do \in {"save", "dir"} /\ Of(f, commands[i])
          /\ \A j \in DOMAIN commands : j >= i => Right(f, commands[j])
    BY DEF InCommands
  <2>2. i - 1 \in DOMAIN commands' /\ commands'[i - 1] = commands[i]
    BY <1>1, <1>2, <2>1
  <2>3. \A j \in DOMAIN commands' : j >= i - 1 => Right(f, commands[j])'
    BY <1>1, <2>1 DEF Right
  <2>4. QED BY <1>3, <2>1, <2>2, <2>3 DEF InCommands
<1>10. ToRead(f) => ToRead(f)'
  <2> SUFFICES ASSUME ToRead(f) PROVE ToRead(f)'
    OBVIOUS
  <2>1. \/ \E i \in DOMAIN commands' : commands'[i].do = "read"
        \/ \E i \in DOMAIN answers' : answers'[i].do = "read"
    BY <1>1, <1>2 DEF ToRead
  <2>2. \A i \in DOMAIN commands' : commands'[i].do = "read" => Of(f, commands'[i]) /\ Right(f, commands[i])'
    BY <1>1 DEF ToRead, Right
  <2>3. QED BY <1>2, <2>1, <2>2 DEF ToRead
<1>11. Doomed(f) => Doomed(f)'
  BY <1>2 DEF Doomed
<1>12. QED BY <1>6, <1>7, <1>8, <1>9, <1>10, <1>11 DEF Arrives

(* The first command is answered. *)
LEMMA AnsweredKeepsRest ==
  ASSUME PreferencesTyped, commands # <<>>, commands[1].do # "tray", NEW x \in Replies, Answered(commands[1], x),
         x.do = commands[1].do, x.change = commands[1].change, UNCHANGED <<config, wanted, tray>>,
         NEW f \in P!Field
  PROVE  LET c == commands[1] IN
         /\ NoReads => NoReads'
         /\ CommandsRight(f) => CommandsRight(f)' /\ Right(f, c)
         /\ Right(f, x) /\ (\A i \in DOMAIN answers : Right(f, answers[i])) => \A i \in DOMAIN answers' : Right(f, answers[i])'
         /\ InCommands(f) => InCommands(f)' \/ (c.do \in {"save", "dir"} /\ Of(f, c) /\ CommandsRight(f) /\ NoReads)
         /\ ToRead(f) => ToRead(f)'
         /\ Doomed(f) => Doomed(f)'
         /\ TrayRight => TrayRight'
<1> DEFINE c == commands[1]
<1>1. /\ \A i \in DOMAIN answers : answers'[i] = answers[i] /\ i \in DOMAIN answers'
      /\ \A i \in DOMAIN answers' : i \in DOMAIN answers \/ i = Len(answers) + 1
      /\ answers'[Len(answers) + 1] = x /\ Len(answers) + 1 \in DOMAIN answers'
  BY AnsweredIs
<1>2. /\ \A i \in DOMAIN commands' : commands'[i] = commands[i + 1] /\ i + 1 \in DOMAIN commands /\ i \in Nat
      /\ \A i \in DOMAIN commands \ {1} : i - 1 \in DOMAIN commands' /\ commands'[i - 1] = commands[i]
      /\ DOMAIN commands \subseteq Nat \ {0} /\ 1 \in DOMAIN commands
  BY AnsweredIs
<1>3. NoReads => NoReads'
  BY <1>1, <1>2 DEF NoReads
<1>4. CommandsRight(f) => CommandsRight(f)' /\ Right(f, c)
  BY <1>2 DEF CommandsRight, Right
<1>5. Right(f, x) /\ (\A i \in DOMAIN answers : Right(f, answers[i])) => \A i \in DOMAIN answers' : Right(f, answers[i])'
  BY <1>1 DEF Right
<1>6. InCommands(f) => InCommands(f)' \/ (c.do \in {"save", "dir"} /\ Of(f, c) /\ CommandsRight(f) /\ NoReads)
  <2> SUFFICES ASSUME InCommands(f)
               PROVE  InCommands(f)' \/ (c.do \in {"save", "dir"} /\ Of(f, c) /\ CommandsRight(f) /\ NoReads)
    OBVIOUS
  <2>1. PICK i \in DOMAIN commands :
          /\ commands[i].do \in {"save", "dir"} /\ Of(f, commands[i])
          /\ \A j \in DOMAIN commands : j >= i => Right(f, commands[j])
    BY DEF InCommands
  <2>2. CASE i = 1
    <3>1. CommandsRight(f)
      BY <1>2, <2>1, <2>2 DEF CommandsRight
    <3>2. QED BY <2>1, <2>2, <3>1 DEF InCommands
  <2>3. CASE i # 1
    <3>1. i - 1 \in DOMAIN commands' /\ commands'[i - 1] = commands[i]
      BY <1>2, <2>1, <2>3
    <3>2. \A j \in DOMAIN commands' : j >= i - 1 => Right(f, commands[j])'
      BY <1>2, <2>1 DEF Right
    <3>3. QED BY <1>3, <2>1, <3>1, <3>2 DEF InCommands
  <2>4. QED BY <2>2, <2>3
<1>7. ToRead(f) => ToRead(f)'
  <2> SUFFICES ASSUME ToRead(f) PROVE ToRead(f)'
    OBVIOUS
  <2>1. \/ \E i \in DOMAIN commands' : commands'[i].do = "read"
        \/ \E i \in DOMAIN answers' : answers'[i].do = "read"
    <3>1. CASE \E i \in DOMAIN answers : answers[i].do = "read"
      BY <1>1, <3>1
    <3>2. ASSUME NEW i \in DOMAIN commands, commands[i].do = "read"
          PROVE  \/ \E j \in DOMAIN commands' : commands'[j].do = "read"
                 \/ \E j \in DOMAIN answers' : answers'[j].do = "read"
      <4>1. CASE i = 1
        BY <1>1, <3>2, <4>1
      <4>2. CASE i # 1
        BY <1>2, <3>2, <4>2
      <4>3. QED BY <4>1, <4>2
    <3>3. QED BY <3>1, <3>2 DEF ToRead
  <2>2. \A i \in DOMAIN commands' : commands'[i].do = "read" => Of(f, commands'[i]) /\ Right(f, commands[i])'
    BY <1>2 DEF ToRead, Right
  <2>3. x.do = "read" => Of(f, x) /\ x.change.value = wanted[f]
    BY <1>2 DEF ToRead, Of, Right
  <2>4. \A i \in DOMAIN answers' :
          answers'[i].do = "read" => Of(f, answers'[i]) /\ answers'[i].change.value = wanted'[f]
    BY <1>1, <2>3 DEF ToRead
  <2>5. QED BY <2>1, <2>2, <2>4 DEF ToRead
<1>8. Doomed(f) => Doomed(f)'
  BY <1>1 DEF Doomed
<1>9. TrayRight => TrayRight'
  BY TrayIsServed DEF Answered
<1>10. QED BY <1>3, <1>4, <1>5, <1>6, <1>7, <1>8, <1>9

LEMMA AnsweredKeepsFiled ==
  ASSUME PreferencesTyped, commands # <<>>, commands[1].do # "tray", NEW x \in Replies, Answered(commands[1], x),
         x.do = commands[1].do, x.change = commands[1].change, UNCHANGED <<config, wanted, tray>>,
         NEW f \in P!Field, Right(f, x), FileRight(f)', ~x.ok => ~Of(f, x)
  PROVE  /\ InAnswers(f) => InAnswers(f)'
         /\ ToLoad(f) => ToLoad(f)' \/ InAnswers(f)'
         /\ NoReads' /\ CommandsRight(f)' /\ x.do \in {"save", "dir", "load"} /\ Of(f, x) => InAnswers(f)'
<1>1. /\ \A i \in DOMAIN answers : answers'[i] = answers[i] /\ i \in DOMAIN answers'
      /\ \A i \in DOMAIN answers' : i \in DOMAIN answers \/ i = Len(answers) + 1
      /\ answers'[Len(answers) + 1] = x /\ Len(answers) + 1 \in DOMAIN answers'
      /\ \A i \in DOMAIN answers' : i >= Len(answers) + 1 => i = Len(answers) + 1
  BY AnsweredIs
<1>2. (NoReads => NoReads') /\ (CommandsRight(f) => CommandsRight(f)')
  BY AnsweredKeepsRest
<1>3. InAnswers(f) => InAnswers(f)'
  <2> SUFFICES ASSUME InAnswers(f) PROVE InAnswers(f)'
    OBVIOUS
  <2>1. PICK i \in DOMAIN answers :
          /\ answers[i].do \in {"save", "dir", "load"} /\ answers[i].ok /\ Of(f, answers[i])
          /\ \A j \in DOMAIN answers : j >= i => Right(f, answers[j])
    BY DEF InAnswers
  <2>2. \A j \in DOMAIN answers' : j >= i => Right(f, answers[j])'
    BY <1>1, <2>1 DEF Right
  <2>3. QED BY <1>1, <1>2, <2>1, <2>2 DEF InAnswers
<1>4. NoReads' /\ CommandsRight(f)' /\ x.do \in {"save", "dir", "load"} /\ Of(f, x) => InAnswers(f)'
  <2>1. \A j \in DOMAIN answers' : j >= Len(answers) + 1 => Right(f, answers[j])'
    BY <1>1 DEF Right
  <2>2. Of(f, x) => x.ok
    OBVIOUS
  <2>3. QED BY <1>1, <2>1, <2>2 DEF InAnswers
<1>5. ToLoad(f) => ToLoad(f)' \/ InAnswers(f)'
  <2> SUFFICES ASSUME ToLoad(f) PROVE ToLoad(f)' \/ InAnswers(f)'
    OBVIOUS
  <2>1. PICK i \in DOMAIN commands : commands[i].do = "load" /\ Of(f, commands[i])
    BY DEF ToLoad
  <2>2. NoReads' /\ CommandsRight(f)'
    BY <1>2 DEF ToLoad
  <2>3. CASE i = 1
    <3>1. x.do = "load" /\ Of(f, x)
      BY <2>1, <2>3 DEF Of
    <3>2. QED BY <1>4, <2>2, <3>1
  <2>4. CASE i # 1
    <3>1. i - 1 \in DOMAIN commands' /\ commands'[i - 1] = commands[i]
      BY <2>4, AnsweredIs
    <3>2. QED BY <2>1, <2>2, <3>1 DEF ToLoad
  <2>5. QED BY <2>3, <2>4
<1>6. QED BY <1>3, <1>4, <1>5

LEMMA RunKeepsArrival ==
  ASSUME PreferencesTyped, P!Run \/ P!RunFails, NEW f \in P!Field, Arrives(f)
  PROVE  Arrives(f)'
<1> DEFINE c == commands[1]
<1>1. /\ commands # <<>> /\ c \in Orders /\ UNCHANGED <<config, wanted, risky>>
      /\ RunTray(c) \/ RunWorks(c) \/ RunBreaks(c)
  BY RunShape
<1>a. c = commands[1]
  OBVIOUS
<1> HIDE DEF c
<1>2. CASE RunTray(c)
  BY <1>a, <1>1, <1>2, TrayRunKeepsArrival
<1>3. CASE RunWorks(c)
  <2> DEFINE x == P!Answer(c, TRUE, P!Written(c))
  <2>1. /\ P!Written(c) \in P!Config /\ x \in Replies /\ Answered(c, x) /\ saved' = P!Written(c) /\ P!Works(c)
        /\ x.config = P!Written(c) /\ x.ok /\ x.do = c.do /\ x.change = c.change /\ c.do # "tray" /\ tray' = tray
    BY <1>1, <1>3, WrittenIsConfig DEF RunWorks, P!Answer
  <2> HIDE DEF x
  <2>2. (FileRight(f) \/ (c.do \in {"save", "dir"} /\ Of(f, c))) /\ Right(f, c) => FileRight(f)' /\ Right(f, x)
    <3> SUFFICES ASSUME FileRight(f) \/ (c.do \in {"save", "dir"} /\ Of(f, c)), Right(f, c)
                 PROVE  FileRight(f)' /\ Right(f, x)
      OBVIOUS
    <3>1. P!Written(c)[f] = wanted[f]
      BY <1>1, <2>1, WrittenIsRight
    <3>2. FileRight(f)'
      BY <1>1, <2>1, <3>1, ConstantsApart DEF FileRight
    <3>3. QED BY <2>1, <3>1, <3>2 DEF Right
  <2>3. CASE Settled(f)
    <3>1. CommandsRight(f) /\ FileRight(f) /\ CommandsRight(f)' /\ Right(f, c)
      BY <1>a, <1>1, <2>1, <2>3, AnsweredKeepsRest DEF Settled
    <3>2. FileRight(f)' /\ Right(f, x)
      BY <2>2, <3>1
    <3>3. \A i \in DOMAIN answers' : Right(f, answers[i])'
      BY <1>a, <1>1, <2>1, <2>3, <3>2, AnsweredKeepsRest DEF Settled
    <3>4. f = "tray" => TrayRight'
      <4>1. ~Hopeless
        <5>1. Hopeless => c.config = None /\ saved = Torn
          BY <1>a, <1>1, Taken DEF Hopeless, PreferencesTyped
        <5>2. c.config # None \/ saved # Torn
          BY <1>1, <2>1, OrderTypes DEF P!Works
        <5>3. QED BY <5>1, <5>2
      <4>2. QED BY <1>a, <1>1, <2>1, <2>3, <4>1, AnsweredKeepsRest DEF Settled
    <3>5. config' # None => config'[f] = wanted'[f]
      BY <1>1, <2>3 DEF Settled
    <3>6. QED BY <3>1, <3>2, <3>3, <3>4, <3>5 DEF Settled, Arrives
  <2>4. CASE InAnswers(f) \/ ToLoad(f)
    <3>1. CommandsRight(f) /\ FileRight(f)
      BY <2>4 DEF InAnswers, ToLoad
    <3>2. Right(f, c)
      BY <1>a, <1>1, <2>1, <3>1, AnsweredKeepsRest
    <3>3. FileRight(f)' /\ Right(f, x)
      BY <2>2, <3>1, <3>2
    <3>4. QED BY <1>a, <1>1, <2>1, <2>4, <3>3, AnsweredKeepsFiled DEF Arrives
  <2>5. CASE InCommands(f)
    <3>1. CASE InCommands(f)'
      BY <3>1 DEF Arrives
    <3>2. CASE c.do \in {"save", "dir"} /\ Of(f, c) /\ CommandsRight(f) /\ NoReads
      <4>1. Right(f, c) /\ CommandsRight(f)' /\ NoReads'
        BY <1>a, <1>1, <2>1, <3>2, AnsweredKeepsRest
      <4>2. FileRight(f)' /\ Right(f, x)
        BY <2>2, <3>2, <4>1
      <4>3. Of(f, x) /\ x.do \in {"save", "dir", "load"}
        BY <2>1, <3>2 DEF Of
      <4>4. QED BY <1>a, <1>1, <2>1, <4>1, <4>2, <4>3, AnsweredKeepsFiled DEF Arrives
    <3>3. QED BY <1>a, <1>1, <2>1, <2>5, <3>1, <3>2, AnsweredKeepsRest
  <2>6. CASE ToRead(f) \/ Doomed(f)
    BY <1>a, <1>1, <2>1, <2>6, AnsweredKeepsRest DEF Arrives
  <2>7. QED BY <2>3, <2>4, <2>5, <2>6 DEF Arrives
<1>4. CASE RunBreaks(c)
  <2> DEFINE x == P!Answer(c, FALSE, None)
  <2>1. /\ x \in Replies /\ Answered(c, x) /\ x.config = None /\ ~x.ok /\ x.do = c.do /\ x.change = c.change
        /\ c.do # "tray" /\ tray' = tray
        /\ saved' \in {saved, Torn} \/ (c.do = "dir" /\ P!Works(c) /\ saved' = P!Written(c))
    BY <1>1, <1>4, AnswerMade, DefaultIsConfig DEF RunBreaks, P!Answer
  <2> HIDE DEF x
  <2>2. CASE Of(f, c)
    <3>1. answers'[Len(answers) + 1] = x /\ Len(answers) + 1 \in DOMAIN answers'
      BY <1>a, <1>1, <2>1, AnsweredIs
    <3>2. QED BY <2>1, <2>2, <3>1 DEF Doomed, Of, Arrives
  <2>3. CASE ~Of(f, c)
    <3>1. Right(f, x) /\ ~Of(f, x)
      BY <1>1, <2>1, <2>3, OrderTypes, ConstantsApart DEF Right, Of
    <3>2. FileRight(f) => FileRight(f)'
      <4>1. CASE saved' = saved
        BY <1>1, <4>1 DEF FileRight, DefaultOf, P!DefaultConfig
      <4>2. CASE saved' = Torn
        BY <4>2, ConstantsApart DEF FileRight
      <4>3. CASE c.do = "dir" /\ P!Works(c) /\ saved' = P!Written(c)
        <5> SUFFICES ASSUME FileRight(f) PROVE FileRight(f)'
          OBVIOUS
        <5>1. Right(f, c)
          BY <1>1, <2>3, <4>3, OrderTypes, ConstantsApart DEF Right, Of
        <5>2. saved' \in P!Config /\ saved'[f] = wanted[f]
          BY <1>1, <2>1, <4>3, <5>1, WrittenIsRight, WrittenIsConfig
        <5>3. QED BY <1>1, <5>2, ConstantsApart DEF FileRight
      <4>4. QED BY <2>1, <4>1, <4>2, <4>3
    <3>3. CASE Settled(f)
      <4>1. CommandsRight(f)' /\ \A i \in DOMAIN answers' : Right(f, answers[i])'
        BY <1>a, <1>1, <2>1, <3>1, <3>3, AnsweredKeepsRest DEF Settled
      <4>2. f = "tray" => TrayRight' \/ Hopeless'
        <5>1. TrayRight => TrayRight'
          BY <1>a, <1>1, <2>1, AnsweredKeepsRest
        <5>2. Hopeless => Hopeless'
          <6> SUFFICES ASSUME Hopeless PROVE Hopeless'
            OBVIOUS
          <6>1. saved' = Torn /\ config' = None
            BY <1>1, <2>1 DEF Hopeless, P!Works
          <6>2. \A i \in DOMAIN commands' : commands'[i].config = None
            <7>1. \A i \in DOMAIN commands' : commands'[i] = commands[i + 1] /\ i + 1 \in DOMAIN commands
              BY <1>a, <1>1, <2>1, AnsweredIs
            <7>2. QED BY <7>1 DEF Hopeless
          <6>3. \A i \in DOMAIN answers' : answers'[i].config = None
            <7>1. /\ \A i \in DOMAIN answers : answers'[i] = answers[i]
                  /\ \A i \in DOMAIN answers' : i \in DOMAIN answers \/ i = Len(answers) + 1
                  /\ answers'[Len(answers) + 1] = x
              BY <1>a, <1>1, <2>1, AnsweredIs
            <7>2. QED BY <2>1, <7>1 DEF Hopeless
          <6>4. QED BY <6>1, <6>2, <6>3 DEF Hopeless
        <5>3. QED BY <3>3, <5>1, <5>2 DEF Settled
      <4>3. FileRight(f)' /\ (config' # None => config'[f] = wanted'[f])
        BY <1>1, <3>2, <3>3 DEF Settled
      <4>4. QED BY <4>1, <4>2, <4>3 DEF Settled, Arrives
    <3>4. CASE InAnswers(f) \/ ToLoad(f)
      <4>1. FileRight(f)'
        BY <3>2, <3>4 DEF InAnswers, ToLoad
      <4>2. QED BY <1>a, <1>1, <2>1, <3>1, <3>4, <4>1, AnsweredKeepsFiled DEF Arrives
    <3>5. CASE InCommands(f) \/ ToRead(f) \/ Doomed(f)
      BY <1>a, <1>1, <2>1, <2>3, <3>5, AnsweredKeepsRest DEF Arrives
    <3>6. QED BY <3>3, <3>4, <3>5 DEF Arrives
  <2>4. QED BY <2>2, <2>3
<1>5. QED BY <1>1, <1>2, <1>3, <1>4

LEMMA CrashKeepsArrival ==
  ASSUME PreferencesTyped, ChoicesArrive, P!Crash, NEW f \in P!Field, f \notin risky'
  PROVE  Arrives(f)'
<1>1. /\ saved' \in {saved, Torn} /\ config' = None /\ answers' = <<>> /\ wanted' = wanted
      /\ tray' = IF saved' \in {Missing, Torn} THEN TRUE ELSE saved'.tray
      /\ commands' = <<P!Command("load", None, None), P!Command("load", None, None)>>
      /\ risky' = risky \cup P!Pending
  BY CrashShape
<1>2. Settled(f)
  BY <1>1, AtRestIsSettled
<1>3. \A i \in DOMAIN commands' : commands'[i].do = "load" /\ commands'[i].config = None
  BY <1>1 DEF P!Command
<1>4. FileRight(f)'
  <2>1. saved' = saved => FileRight(f)'
    BY <1>1, <1>2 DEF Settled, FileRight, DefaultOf, P!DefaultConfig
  <2>2. saved' = Torn => FileRight(f)'
    BY ConstantsApart DEF FileRight
  <2>3. QED BY <1>1, <2>1, <2>2
<1>5. CommandsRight(f)'
  BY <1>3 DEF CommandsRight, Right
<1>6. f = "tray" => TrayRight' \/ Hopeless'
  <2>1. saved' = Torn => Hopeless'
    BY <1>1, <1>3 DEF Hopeless
  <2>2. f = "tray" /\ saved' # Torn => tray' = wanted'.tray
    <3>1. DefaultOf.tray = TRUE
      BY DEF DefaultOf, P!DefaultConfig
    <3>2. saved' # Torn => saved' \in P!Config \cup {Missing}
      BY <1>1 DEF PreferencesTyped
    <3>3. QED BY <1>1, <1>4, <3>1, <3>2, ConstantsApart DEF FileRight, DefaultOf, P!DefaultConfig
  <2>3. tray' = wanted'.tray => TrayRight'
    <3>1. 0 \in 0 .. Len(commands')
      BY <1>1
    <3>2. QED BY <1>3, <3>1 DEF TrayRight
  <2>4. QED BY <2>1, <2>2, <2>3
<1>7. QED BY <1>1, <1>4, <1>5, <1>6 DEF Settled, Arrives

(* A choice of g leaves the others as they are, and is under way itself. *)
LEMMA ChoiceArrives ==
  ASSUME PreferencesTyped, ChoicesArrive, NEW x \in P!Choice, NEW c \in Orders, Sends(c), Carries(c, x),
         wanted' = [wanted EXCEPT ![x.field] = x.value] \/ x.field = "pins",
         wanted'[x.field] = x.value \/ x.field \in risky',
         \A f \in P!Field \ {x.field} : wanted'[f] = wanted[f],
         (risky \cup P!Pending) \ {x.field} \subseteq risky', P!Late(x.field) \subseteq risky',
         NEW f \in P!Field, f \notin risky'
  PROVE  Arrives(f)'
<1>1. CASE f = x.field
  BY <1>1, NotLate, ChosenIsSent DEF Arrives
<1>2. CASE f # x.field
  <2>1. Settled(f)
    BY <1>2, AtRestIsSettled
  <2>2. QED BY <1>2, <2>1, CarriedIsSettled DEF Arrives
<1>3. QED BY <1>1, <1>2

LEMMA ArrivalIsKept ==
  PreferencesTyped /\ ChoicesArrive /\ [P!Next]_(P!vars) => ChoicesArrive'
<1> SUFFICES ASSUME PreferencesTyped, ChoicesArrive, [P!Next]_(P!vars), NEW f \in P!Field, f \notin risky'
             PROVE  Arrives(f)'
  BY DEF ChoicesArrive, Arrives
<1>1. f \notin risky => Arrives(f)
  BY DEF ChoicesArrive, Arrives
<1>2. ASSUME NEW g \in {"theme", "tray"}, NEW v, P!Choose(g, v), P!Change(g, v) \in P!Choice PROVE Arrives(f)'
  <2> DEFINE x == P!Change(g, v)
  <2>1. x \in P!Choice /\ x.field = g /\ x.value = v /\ g \in P!Field
    BY <1>2 DEF P!Change, P!Field
  <2>2. /\ \E c \in Orders : Sends(c) /\ Carries(c, x)
        /\ wanted' = [wanted EXCEPT ![g] = v]
        /\ risky' = ((risky \cup P!Pending) \ {g}) \cup P!Late(g)
    BY <1>2, ChooseIsSent
  <2> HIDE DEF x
  <2>3. wanted'[g] = v /\ \A h \in P!Field \ {g} : wanted'[h] = wanted[h]
    BY <2>1, <2>2 DEF PreferencesTyped
  <2>4. QED BY <2>1, <2>2, <2>3, ChoiceArrives
<1>3. ASSUME NEW t \in Theme, P!Choose("theme", t) PROVE Arrives(f)'
  <2>1. P!Change("theme", t) \in P!Choice
    BY DEF P!Change, P!Choice
  <2>2. QED BY <1>2, <1>3, <2>1
<1>4. ASSUME NEW b \in BOOLEAN, P!Choose("tray", b) PROVE Arrives(f)'
  <2>1. P!Change("tray", b) \in P!Choice
    BY DEF P!Change, P!Choice
  <2>2. QED BY <1>2, <1>4, <2>1
<1>5. ASSUME NEW y \in Chat, P!TogglePinned(y) PROVE Arrives(f)'
  <2> DEFINE x == P!Change("pins", P!Flip(P!Pins, y))
  <2>1. /\ x \in P!Choice
        /\ \E c \in Orders : Sends(c) /\ Carries(c, x)
        /\ wanted' = [wanted EXCEPT !.pins = P!Flip(wanted.pins, y)]
        /\ risky' = risky \cup P!Pending \cup P!Late("pins") \cup (IF config = None THEN {"pins"} ELSE {})
    BY <1>5, ToggleIsSent
  <2>2. x.field = "pins" /\ x.value = P!Flip(P!Pins, y) /\ "pins" \in P!Field
    BY DEF P!Change, P!Field
  <2> HIDE DEF x
  <2>3. wanted'["pins"] = P!Flip(wanted.pins, y) /\ \A h \in P!Field \ {"pins"} : wanted'[h] = wanted[h]
    BY <2>1, <2>2 DEF PreferencesTyped
  <2>4. "pins" \notin risky' => P!Pins = wanted.pins
    <3> SUFFICES ASSUME "pins" \notin risky' PROVE P!Pins = wanted.pins
      OBVIOUS
    <3>1. config # None /\ "pins" \notin risky /\ "pins" \notin P!Pending
      BY <2>1
    <3>2. Settled("pins")
      BY <2>2, <3>1, AtRestIsSettled
    <3>3. QED BY <3>1, <3>2 DEF Settled, P!Pins
  <2>5. wanted'["pins"] = x.value \/ "pins" \in risky'
    BY <2>2, <2>3, <2>4
  <2>6. QED BY <2>1, <2>2, <2>3, <2>5, ChoiceArrives
<1>6. ASSUME NEW d \in Folder, P!ChooseDirectory(d) PROVE Arrives(f)'
  <2> DEFINE c == P!Command("dir", P!Change("dir", d), None)
  <2>1. /\ c \in Orders /\ Sends(c) /\ c.do = "dir" /\ c.config = None
        /\ c.change.field = "dir" /\ c.change.value = d
        /\ wanted' = [wanted EXCEPT !.dir = d]
        /\ risky' = (risky \ {"dir"}) \cup P!Late("dir")
    BY <1>6, DirectoryIsSent
  <2> HIDE DEF c
  <2>2. wanted'["dir"] = d /\ \A h \in P!Field \ {"dir"} : wanted'[h] = wanted[h]
    BY <2>1 DEF PreferencesTyped, P!Field
  <2>3. c.change # None
    BY <2>1, OrderTypes, ConstantsApart
  <2>4. CASE f = "dir"
    <3>1. NoReads
      BY <2>1, <2>4, NotLate
    <3>2. Right(f, c)' /\ Of(f, c)
      BY <2>1, <2>2, <2>3, <2>4 DEF Right, Of
    <3>3. QED BY <2>1, <3>1, <3>2, SentIsLast DEF Arrives
  <2>5. CASE f # "dir"
    <3>1. f \notin risky /\ ~Of(f, c)
      BY <2>1, <2>5 DEF Of
    <3>2. QED BY <1>1, <2>1, <2>2, <2>5, <3>1, SentKeepsArrival
  <2>6. QED BY <2>4, <2>5
<1>7. CASE P!Load
  <2> DEFINE c == P!Command("load", None, None)
  <2>1. c \in Orders /\ Sends(c) /\ c.do = "load" /\ c.change = None /\ UNCHANGED <<wanted, risky>>
    BY <1>7, LoadIsSent
  <2> HIDE DEF c
  <2>2. QED BY <1>1, <2>1, SentKeepsArrival DEF Of
<1>8. CASE P!Settle
  <2>1. risky \subseteq risky'
    BY <1>8, SettleShape
  <2>2. QED BY <1>1, <1>8, <2>1, SettleKeepsArrival
<1>9. CASE P!Run \/ P!RunFails
  <2>1. risky' = risky
    BY <1>9, RunShape
  <2>2. QED BY <1>1, <1>9, <2>1, RunKeepsArrival
<1>10. CASE P!Crash
  BY <1>10, CrashKeepsArrival
<1>11. CASE UNCHANGED P!vars
  <2>1. UNCHANGED <<saved, tray, config, commands, answers, wanted, risky>>
    BY <1>11 DEF P!vars, P!store, P!past
  <2>2. Onward(f, 0) /\ NoNewReads /\ NewTraysRight /\ (Hopeless => Hopeless')
    BY <2>1 DEF Onward, NoNewReads, NewTraysRight, Hopeless, PreferencesTyped
  <2>3. Settled(f) => Settled(f)'
    BY <2>1, <2>2, OnwardKeepsSettled DEF Settled
  <2>4. QED BY <1>1, <2>1, <2>2, <2>3, OnwardKeepsRest DEF Arrives
<1>12. QED BY <1>3, <1>4, <1>5, <1>6, <1>7, <1>8, <1>9, <1>10, <1>11 DEF P!Next

LEMMA PreferencesStart == P!Init => PreferencesInv
<1> SUFFICES ASSUME P!Init PROVE PreferencesInv
  OBVIOUS
<1> DEFINE c == P!Command("load", None, None)
<1>1. c \in Orders /\ c.do = "load" /\ c.config = None /\ c.change = None
  BY CommandMade DEF P!Command
<1>2. /\ saved \in {Missing, P!DefaultConfig(1)} /\ devices \in {0, 1} /\ tray = TRUE /\ config = None
      /\ commands = <<c, c>> /\ answers = <<>> /\ risky = {}
      /\ wanted = [f \in P!Field |-> DefaultOf[f]]
  BY DEF P!Init, DefaultOf
<1> HIDE DEF c
<1>3. PreferencesTyped
  <2>1. DefaultOf \in P!Config /\ P!DefaultConfig(1) \in P!Config
    BY DefaultIsConfig DEF DefaultOf
  <2>2. /\ wanted = [f \in P!Field |-> wanted[f]] /\ wanted.theme \in Theme /\ wanted.pins \in SUBSET Chat
        /\ wanted.tray \in BOOLEAN /\ wanted.dir \in Folder
    BY <1>2, <2>1 DEF P!Config, P!Field
  <2>3. commands \in Seq(Orders) /\ answers \in Seq(Replies)
    BY <1>1, <1>2
  <2>4. QED BY <1>2, <2>1, <2>2, <2>3 DEF PreferencesTyped
<1>4. CopyAgrees
  BY <1>2 DEF CopyAgrees
<1>5. ASSUME NEW f \in P!Field PROVE Settled(f)
  <2>1. FileRight(f)
    BY <1>2, ConstantsApart DEF FileRight, DefaultOf
  <2>2. CommandsRight(f)
    BY <1>1, <1>2 DEF CommandsRight, Right
  <2>3. f = "tray" => TrayRight
    <3>1. wanted.tray = TRUE
      BY <1>2 DEF P!Field, DefaultOf, P!DefaultConfig
    <3>2. 0 \in 0 .. Len(commands) /\ \A i \in DOMAIN commands : commands[i].do # "tray"
      BY <1>1, <1>2
    <3>3. QED BY <1>2, <3>1, <3>2 DEF TrayRight
  <2>4. QED BY <1>2, <2>1, <2>2, <2>3 DEF Settled
<1>6. QED BY <1>3, <1>4, <1>5 DEF PreferencesInv, ChoicesArrive

THEOREM PreferencesInvariant == P!Spec => []PreferencesInv
<1>1. PreferencesInv /\ [P!Next]_(P!vars) => PreferencesInv'
  BY PreferencesTypesAreKept, CopyIsKept, ArrivalIsKept DEF PreferencesInv
<1>2. QED BY <1>1, PreferencesStart, PTL DEF P!Spec

(* Whatever is chosen, fails or crashes: once every command is answered    *)
(* the pages show what is on file, but for a directory that was written    *)
(* and reported as failed.                                                 *)
THEOREM CopyIsTheFile == P!Spec => []QuietCopyIsTheFile
<1>1. PreferencesInv => QuietCopyIsTheFile
  <2> SUFFICES ASSUME PreferencesInv, P!Quiet, P!Readable, config # None
               PROVE  /\ [config EXCEPT !.dir = saved.dir] = saved
                      /\ config.dir = saved.dir \/ "dir" \in risky
    BY DEF QuietCopyIsTheFile, P!QuietCopyIsTheFile
  <2>1. saved \in P!Config /\ commands = <<>> /\ answers = <<>>
    BY DEF PreferencesInv, PreferencesTyped, P!Readable, P!Quiet
  <2>2. NoneCopied(0) /\ ~Mending
    BY <2>1 DEF NoneCopied, Mending
  <2>3. QED BY <2>1, <2>2 DEF PreferencesInv, CopyAgrees, Agrees
<1>2. QED BY <1>1, PreferencesInvariant, PTL

(* A choice that nothing hurried, failed or cut off is on file, and the    *)
(* shell closes as the file says.                                          *)
THEOREM ChoicesAreKept == P!Spec => []OnlyHurriedChoicesAreLost
<1>1. PreferencesInv => OnlyHurriedChoicesAreLost
  <2> SUFFICES ASSUME PreferencesInv, P!Quiet, P!Readable, NEW f \in P!Field \ risky
               PROVE  saved[f] = wanted[f] /\ (f = "tray" => tray = saved.tray)
    BY DEF OnlyHurriedChoicesAreLost, P!OnlyHurriedChoicesAreLost
  <2>1. saved \in P!Config /\ commands = <<>> /\ answers = <<>>
    BY DEF PreferencesInv, PreferencesTyped, P!Readable, P!Quiet
  <2>2. Settled(f)
    BY <2>1 DEF PreferencesInv, ChoicesArrive, InAnswers, ToLoad, InCommands, ToRead, Doomed
  <2>3. f = "tray" => tray = wanted.tray
    BY <2>1, <2>2, ConstantsApart DEF Settled, TrayRight, Hopeless
  <2>4. QED BY <2>1, <2>2, <2>3 DEF Settled, FileRight
<1>2. QED BY <1>1, PreferencesInvariant, PTL
=============================================================================
