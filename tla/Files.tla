--------------------------------- MODULE Files ---------------------------------
(***************************************************************************)
(* What the server stores: uploaded files, their rows in file_assets, the  *)
(* messages they are attached to, and the avatars of one user.             *)
(*                                                                         *)
(* A request first has its body written to a temporary directory.  The     *)
(* service moves it to its place (by rename or, across devices, by copying *)
(* and unlinking) and writes a row.  Every await may fail, a statement may *)
(* commit and fail all the same, and the server may stop at any moment:    *)
(* files stay as they are, requests are gone, and before it listens again  *)
(* TemporaryUsersCleanupService deletes what belongs to guests.            *)
(*                                                                         *)
(* Rows are not deleted otherwise, and a row has ATTACHED exactly when it  *)
(* has a message.  Names of files are the uploads that chose them.         *)
(***************************************************************************)
EXTENDS Naturals, FiniteSets

CONSTANTS
  Upload,       \* uploads of files, and the rows and files they make
  Clone,        \* forwards, and the rows they make
  Message,      \* messages sent with a file
  Portrait,     \* uploads of an avatar
  Conversation,
  Temporary,    \* the conversations that a guest is a member of
  None,
  MaxOpen,      \* bound: requests under way at once
  MaxRestarts   \* bound: restarts

ASSUME KindAssumption ==
  /\ Upload \cap (Clone \cup Message \cup Portrait) = {}
  /\ Clone \cap (Message \cup Portrait) = {} /\ Message \cap Portrait = {}
ASSUME NoneAssumption ==
  /\ None \notin Upload \cup Clone \cup Message \cup Conversation \cup Nat
  /\ None \notin [content : Upload, conversation : Conversation, message : Message \cup {None}]
ASSUME BoundAssumption == Temporary \subseteq Conversation /\ MaxOpen \in Nat /\ MaxRestarts \in Nat

VARIABLES
  at,        \* where a request stands
  temps,     \* requests whose temporary file is on disk
  files,     \* uploads whose file is in the storage
  rows,      \* file_assets
  there,     \* the conversations that exist
  place,     \* the conversation of an upload or a forward
  object,    \* the file a forward has read, the row a send has read
  pictures,  \* the avatars on disk, by the time in their names
  avatar,    \* avatarStoragePath of the user
  clock,     \* Date.now()
  stamp,     \* the name of an avatar
  previous,  \* the avatarStoragePath that an upload has read
  restarts,
  broken,    \* history: requests that failed where nothing cleans up, or were cut off
  lost,      \* history: rows whose creation was taken for a failure
  swept,     \* history: files whose row went with a guest
  crossed,   \* history: two avatar uploads have read what they replace before either wrote
  contested  \* history: pairs of sends that have read the same file as UPLOADED

disk    == <<temps, files, pictures>>
sending == <<there, place, object>>
face    == <<avatar, clock, stamp, previous>>
past    == <<broken, lost, swept, crossed, contested>>
vars    == <<at, disk, rows, sending, face, restarts, past>>

Request == Upload \cup Clone \cup Message \cup Portrait
File    == Upload \cup Clone
Row     == [content : Upload, conversation : Conversation, message : Message \cup {None}]
Idle    == {"none", "done", "ended"}

Open == {r \in Request : at[r] \notin Idle}
Goes(r, phase) == at' = [at EXCEPT ![r] = phase]
Starts(r, phase) == at[r] = "none" /\ Cardinality(Open) < MaxOpen /\ Goes(r, phase)

-----------------------------------------------------------------------------
(* Uploads: saveUploadedFile                                               *)

UploadBegin(u, c) ==
  /\ Starts(u, "received")
  /\ c \in there
  /\ temps' = temps \cup {u}
  /\ place' = [place EXCEPT ![u] = c]
  /\ UNCHANGED <<files, pictures, rows, there, object, face, restarts, past>>

(* Not a member: finalPath is not set yet. *)
UploadRefused(u) ==
  /\ at[u] = "received"
  /\ Goes(u, "refused")
  /\ UNCHANGED <<disk, rows, sending, face, restarts, past>>

Rename(u) ==
  /\ at[u] = "received"
  /\ Goes(u, "moved")
  /\ temps' = temps \ {u}
  /\ files' = files \cup {u}
  /\ UNCHANGED <<pictures, rows, sending, face, restarts, past>>

CopyBegin(u) ==
  /\ at[u] = "received"
  /\ Goes(u, "copying")
  /\ files' = files \cup {u}
  /\ UNCHANGED <<temps, pictures, rows, sending, face, restarts, past>>

CopyEnd(u) ==
  /\ at[u] = "copying"
  /\ Goes(u, "moved")
  /\ temps' = temps \ {u}
  /\ UNCHANGED <<files, pictures, rows, sending, face, restarts, past>>

(* The hash, the rename, the copy or the unlink fails. *)
MoveFails(u) ==
  /\ at[u] \in {"received", "copying"}
  /\ Goes(u, "failed")
  /\ UNCHANGED <<disk, rows, sending, face, restarts, past>>

NewRow(content, c) == [content |-> content, conversation |-> c, message |-> None]

(* createFileAssetRecord *)
Record(u) ==
  /\ at[u] = "moved"
  /\ Goes(u, "done")
  /\ rows' = [rows EXCEPT ![u] = NewRow(u, place[u])]
  /\ UNCHANGED <<disk, sending, face, restarts, past>>

RecordFails(u) ==
  /\ at[u] = "moved"
  /\ Goes(u, "unrecorded")
  /\ \/ UNCHANGED <<rows, lost>>
     \/ /\ rows' = [rows EXCEPT ![u] = NewRow(u, place[u])]
        /\ lost' = lost \cup {u}
  /\ UNCHANGED <<disk, sending, face, restarts, broken, swept, crossed, contested>>

(* The catch block: the temporary file first, then the file. *)
RemoveTemp(u) ==
  /\ at[u] \in {"refused", "failed"}
  /\ temps' = temps \ {u}
  /\ Goes(u, IF at[u] = "failed" THEN "unrecorded" ELSE "ended")
  /\ UNCHANGED <<files, pictures, rows, sending, face, restarts, past>>

RemoveFile(u) ==
  /\ at[u] = "unrecorded"
  /\ files' = files \ {u}
  /\ Goes(u, "ended")
  /\ UNCHANGED <<temps, pictures, rows, sending, face, restarts, past>>

(* What unlink throws leaves the catch block, unless it is ENOENT. *)
RemoveFails(u) ==
  /\ at[u] \in {"refused", "failed", "unrecorded"}
  /\ Goes(u, "ended")
  /\ broken' = broken \cup {u}
  /\ UNCHANGED <<disk, rows, sending, face, restarts, lost, swept, crossed, contested>>

-----------------------------------------------------------------------------
(* Forwards: a second row for the same file                                *)

(* A client knows a file by the answer to its upload or forward. *)
Known(f) == at[f] = "done" /\ rows[f] # None

ForwardRead(k, f, c) ==
  /\ Starts(k, "read")
  /\ Known(f) /\ c \in there
  /\ object' = [object EXCEPT ![k] = rows[f].content]
  /\ place' = [place EXCEPT ![k] = c]
  /\ UNCHANGED <<disk, rows, there, face, restarts, past>>

ForwardCreate(k) ==
  /\ at[k] = "read"
  /\ rows' = [rows EXCEPT ![k] = NewRow(object[k], place[k])]
  /\ \/ Goes(k, "done") /\ UNCHANGED lost
     \/ Goes(k, "ended") /\ lost' = lost \cup {k}
  /\ UNCHANGED <<disk, sending, face, restarts, broken, swept, crossed, contested>>

ForwardFails(k) ==
  /\ at[k] = "read"
  /\ Goes(k, "ended")
  /\ UNCHANGED <<disk, rows, sending, face, restarts, past>>

-----------------------------------------------------------------------------
(* Sends: the transaction of sendTextMessage for a message with a file.    *)

(* Mutant: a file is sent whatever its status. *)
AnyRow(f) == Known(f)

Unattached(f) == Known(f) /\ rows[f].message = None

SendRead(m, f) ==
  /\ Starts(m, "read")
  /\ Unattached(f)
  /\ object' = [object EXCEPT ![m] = f]
  /\ contested' = contested \cup
       {{m, n} : n \in {x \in Message : at[x] = "read" /\ object[x] = f}}
  /\ UNCHANGED <<disk, rows, there, place, face, restarts, broken, lost, swept, crossed>>

(* The update names the row by its id alone. *)
SendWrite(m) ==
  /\ at[m] = "read"
  /\ Goes(m, "done")
  /\ rows' = [rows EXCEPT ![object[m]].message = m]
  /\ UNCHANGED <<disk, sending, face, restarts, past>>

SendFails(m) ==
  /\ at[m] = "read"
  /\ Goes(m, "ended")
  /\ UNCHANGED <<disk, rows, sending, face, restarts, past>>

-----------------------------------------------------------------------------
(* Avatars: saveAvatar                                                     *)

(* The name has the time to the millisecond: two may be given the same. *)
AvatarBegin(p) ==
  /\ Starts(p, "received")
  /\ temps' = temps \cup {p}
  /\ \E now \in {clock, clock + 1} \ {0} :
       clock' = now /\ stamp' = [stamp EXCEPT ![p] = now]
  /\ UNCHANGED <<files, pictures, rows, sending, avatar, previous, restarts, past>>

(* validateAvatarFile and mkdir are outside the try. *)
AvatarRefused(p) ==
  /\ at[p] = "received"
  /\ Goes(p, "ended")
  /\ broken' = broken \cup {p}
  /\ UNCHANGED <<disk, rows, sending, face, restarts, lost, swept, crossed, contested>>

AvatarRename(p) ==
  /\ at[p] = "received"
  /\ Goes(p, "moved")
  /\ temps' = temps \ {p}
  /\ pictures' = pictures \cup {stamp[p]}
  /\ UNCHANGED <<files, rows, sending, face, restarts, past>>

AvatarCopyBegin(p) ==
  /\ at[p] = "received"
  /\ Goes(p, "copying")
  /\ pictures' = pictures \cup {stamp[p]}
  /\ UNCHANGED <<temps, files, rows, sending, face, restarts, past>>

(* A copy that was started may have lost its target to another's clean-up. *)
AvatarCopyEnd(p) ==
  /\ at[p] = "copying"
  /\ Goes(p, "moved")
  /\ temps' = temps \ {p}
  /\ UNCHANGED <<files, pictures, rows, sending, face, restarts, past>>

AvatarMoveFails(p) ==
  /\ at[p] \in {"received", "copying"}
  /\ Goes(p, "failed")
  /\ UNCHANGED <<disk, rows, sending, face, restarts, past>>

AvatarRemoveTemp(p) ==
  /\ at[p] = "failed"
  /\ Goes(p, "unnamed")
  /\ temps' = temps \ {p}
  /\ UNCHANGED <<files, pictures, rows, sending, face, restarts, past>>

AvatarRemove(p) ==
  /\ at[p] = "unnamed"
  /\ Goes(p, "ended")
  /\ pictures' = pictures \ {stamp[p]}
  /\ UNCHANGED <<temps, files, rows, sending, face, restarts, past>>

AvatarRead(p) ==
  /\ at[p] = "moved"
  /\ Goes(p, "read")
  /\ previous' = [previous EXCEPT ![p] = avatar]
  /\ crossed' = (crossed \/ \E q \in Portrait : at[q] = "read")
  /\ UNCHANGED <<disk, rows, sending, avatar, clock, stamp, restarts, broken, lost, swept,
                 contested>>

AvatarWrite(p) ==
  /\ at[p] = "read"
  /\ avatar' = stamp[p]
  /\ Goes(p, "written")
  /\ UNCHANGED <<disk, rows, sending, clock, stamp, previous, restarts, past>>

AvatarRemovePrevious(p) ==
  /\ at[p] = "written"
  /\ Goes(p, "done")
  /\ pictures' = IF previous[p] = stamp[p] THEN pictures ELSE pictures \ {previous[p]}
  /\ UNCHANGED <<temps, files, rows, sending, face, restarts, past>>

(* A statement or an unlink fails: nothing is removed any more. *)
AvatarFails(p) ==
  /\ at[p] \in {"failed", "unnamed", "moved", "read", "written"}
  /\ Goes(p, "ended")
  /\ broken' = broken \cup {p}
  /\ UNCHANGED <<disk, rows, sending, face, restarts, lost, swept, crossed, contested>>

-----------------------------------------------------------------------------
(* A restart, and the clean-up that is through before the server listens.  *)

(* Mutant: the files go with the rows. *)
SweepFiles(gone) == files' = files \ {rows[f].content : f \in gone}

(* Only rows are deleted. *)
Sweep(gone) == UNCHANGED files

Restart ==
  /\ restarts < MaxRestarts
  /\ restarts' = restarts + 1
  /\ LET gone == {f \in File : rows[f] # None /\ rows[f].conversation \in Temporary} IN
       /\ rows' = [f \in File |-> IF f \in gone THEN None ELSE rows[f]]
       /\ swept' = swept \cup {rows[f].content : f \in gone}
       /\ Sweep(gone)
  /\ there' = there \ Temporary
  /\ at' = [r \in Request |-> IF r \in Open THEN "ended" ELSE at[r]]
  /\ broken' = broken \cup Open
  /\ UNCHANGED <<temps, pictures, place, object, face, lost, crossed, contested>>

-----------------------------------------------------------------------------
Init ==
  /\ at = [r \in Request |-> "none"]
  /\ temps = {} /\ files = {} /\ pictures = {}
  /\ rows = [f \in File |-> None]
  /\ there = Conversation
  /\ place = [f \in File |-> None]
  /\ object = [r \in Clone \cup Message |-> None]
  /\ avatar = None /\ clock = 0
  /\ stamp = [p \in Portrait |-> None]
  /\ previous = [p \in Portrait |-> None]
  /\ restarts = 0
  /\ broken = {} /\ lost = {} /\ swept = {} /\ crossed = FALSE /\ contested = {}

UploadNext(u) ==
  \/ \E c \in Conversation : UploadBegin(u, c)
  \/ UploadRefused(u) \/ Rename(u) \/ CopyBegin(u) \/ CopyEnd(u) \/ MoveFails(u)
  \/ Record(u) \/ RecordFails(u) \/ RemoveTemp(u) \/ RemoveFile(u) \/ RemoveFails(u)

ForwardNext(k) ==
  \/ \E f \in File, c \in Conversation : ForwardRead(k, f, c)
  \/ ForwardCreate(k) \/ ForwardFails(k)

SendNext(m) == (\E f \in File : SendRead(m, f)) \/ SendWrite(m) \/ SendFails(m)

AvatarNext(p) ==
  \/ AvatarBegin(p) \/ AvatarRefused(p) \/ AvatarRename(p) \/ AvatarCopyBegin(p)
  \/ AvatarCopyEnd(p) \/ AvatarMoveFails(p) \/ AvatarRemoveTemp(p) \/ AvatarRemove(p)
  \/ AvatarRead(p) \/ AvatarWrite(p) \/ AvatarRemovePrevious(p) \/ AvatarFails(p)

Next ==
  \/ \E u \in Upload : UploadNext(u)
  \/ \E k \in Clone : ForwardNext(k)
  \/ \E m \in Message : SendNext(m)
  \/ \E p \in Portrait : AvatarNext(p)
  \/ Restart

Spec == Init /\ [][Next]_vars

-----------------------------------------------------------------------------
(* Properties                                                              *)

(* What a client was told of can be downloaded: its row has a file. *)
RowsHaveContent == \A f \in File : Known(f) => rows[f].content \in files

(* A file in the storage has a row, or a request that still works on it, or
   one of the three ways in which the code leaves a file behind has occurred:
   a request cut off, a failed unlink, and a guest whose rows are gone. *)
FilesHaveRows ==
  \A u \in files :
    \/ \E f \in File : rows[f] # None /\ rows[f].content = u
    \/ u \in Open \cup broken \cup swept

TempsHaveRequests == temps \subseteq Open \cup broken

(* The avatar of the user is on disk, unless two uploads have got one name. *)
AvatarIsThere ==
  \/ avatar \in pictures \cup {None}
  \/ \E p, q \in Portrait : p # q /\ stamp[p] = avatar /\ stamp[q] = avatar

(* An avatar on disk that is not the user's belongs to an upload that is under
   way or was broken off, as what it brings or as what it replaces, unless two
   have read what they replace at the same time. *)
PicturesAreNamed ==
  \A s \in pictures :
    \/ s = avatar \/ crossed
    \/ \E p \in Portrait : p \in Open \cup broken /\ s \in {stamp[p], previous[p]}

(* The storage and the database agree: each row that is known has its file,
   and each file its row, but for what is left behind in the ways above
   (saveUploadedFile, forwardFileAsset, saveAvatar, cleanupTemporaryUsers). *)
StorageMatchesRows ==
  RowsHaveContent /\ FilesHaveRows /\ TempsHaveRequests /\ AvatarIsThere /\ PicturesAreNamed

(* A message that was sent with a file keeps it: another message has it only if
   the two sends both read it as UPLOADED (sendTextMessage). *)
FileStaysWithItsMessage ==
  \A m \in Message :
    at[m] = "done" /\ rows[object[m]] # None =>
      \/ rows[object[m]].message = m
      \/ \E n \in Message : rows[object[m]].message = n /\ \E e \in contested : m \in e /\ e # {m}
=============================================================================
