------------------------------ MODULE Messages ------------------------------
(***************************************************************************)
(* The life of the messages of one conversation: MessagesService and the   *)
(* REST markRead of ConversationsService.                                  *)
(*                                                                         *)
(* markDelivered, recallMessage and editMessage read the message in one    *)
(* statement and write it in a later one, with awaits in between; so does  *)
(* sendTextMessage with the members of the conversation.  What such a      *)
(* handler has read waits in marking, recalling, editing or sending until  *)
(* it writes.  The reads of one handler are taken together.  markRead      *)
(* writes nothing it has read, and is one transaction.  A handler whose    *)
(* write fails is one that never writes.                                   *)
(*                                                                         *)
(* Time is left out: a recall or an edit that comes after its window of    *)
(* two or fifteen minutes is refused and changes nothing, so that it is a  *)
(* call the model need not make.                                           *)
(***************************************************************************)
EXTENDS Naturals, FiniteSets

CONSTANTS
  User,         \* the people around the conversation
  None,         \* no user
  MaxMessages,  \* bound: messages sent
  MaxCalls      \* bound: calls between their read and their write

(* A message is its position in the order of createdAt. *)
Message == 1 .. MaxMessages

VARIABLES
  kind,        \* DIRECT or GROUP
  member,      \* the users whose leftAt is null
  friends,     \* whether the two members of a direct conversation are friends
  created,     \* how many messages have a createdAt
  sending,     \* sendTextMessage after its reads: sender and receivers
  sender,      \* the sender of a committed message
  receivers,   \* the users with a delivery row
  status,      \* message.status, "none" until the transaction commits
  recalledAt,  \* the messages with a recalledAt
  edited,      \* the messages with an editedAt and a new ciphertext
  delivered,   \* the delivery rows with a deliveredAt
  read,        \* the delivery rows with a readAt
  lastRead,    \* lastReadMessageId of a member, 0 for null
  marking,     \* markDelivered calls that have read and not written
  recalling,   \* recallMessage calls that have read and not written
  editing      \* editMessage calls that have read and not written

members  == <<kind, member, friends>>
rows     == <<sender, receivers, created, sending>>
receipts == <<delivered, read, lastRead>>
changes  == <<recalledAt, edited>>
calls    == <<marking, recalling, editing>>
vars == <<members, rows, status, changes, receipts, calls>>

Status  == {"none", "SENT", "DELIVERED", "READ", "RECALLED"}
Call    == [msg : Message, user : User, seen : Status \ {"none"}]
Sending == {x \in [msg : Message, from : User, to : SUBSET User] : x.from \notin x.to}

Exists(m) == status[m] # "none"

FreeCall == Cardinality(marking) + Cardinality(recalling) + Cardinality(editing) < MaxCalls

-----------------------------------------------------------------------------
(* sendTextMessage                                                         *)

(* getConversationForSending, the friendship check, and the begin of the   *)
(* transaction, which fixes createdAt before the rows can be seen.         *)
SendBegin(u) ==
  LET to == member \ {u} IN
  /\ created < MaxMessages
  /\ u \in member
  /\ kind = "DIRECT" => friends /\ \E p \in to : to = {p}
  /\ created' = created + 1
  /\ sending' = sending \cup {[msg |-> created + 1, from |-> u, to |-> to]}
  /\ UNCHANGED <<members, sender, receivers, status, changes, receipts, calls>>

(* The transaction commits: the message, and a delivery for each receiver. *)
SendCommit(x) ==
  /\ x \in sending
  /\ sending' = sending \ {x}
  /\ sender' = [sender EXCEPT ![x.msg] = x.from]
  /\ receivers' = [receivers EXCEPT ![x.msg] = x.to]
  /\ status' = [status EXCEPT ![x.msg] = "SENT"]
  /\ UNCHANGED <<members, created, changes, receipts, calls>>

-----------------------------------------------------------------------------
(* markDelivered, called for every push of a message to a receiver         *)

(* The delivery row with its message; a row that has been read ends here. *)
MarkDeliveredRead(m, u) ==
  /\ Exists(m) /\ u \in receivers[m]
  /\ <<m, u>> \notin read
  /\ FreeCall
  /\ marking' = marking \cup {[msg |-> m, user |-> u, seen |-> status[m]]}
  /\ UNCHANGED <<members, rows, status, changes, receipts, recalling, editing>>

(* Mutant: the status of the message is left to the next read. *)
MarkRowOnly(c) ==
  /\ c \in marking
  /\ marking' = marking \ {c}
  /\ delivered' = delivered \cup {<<c.msg, c.user>>}
  /\ UNCHANGED <<members, rows, status, changes, read, lastRead, recalling, editing>>

(* Mutant: the status is written whatever the read has seen. *)
MarkAlways(c) ==
  /\ c \in marking
  /\ marking' = marking \ {c}
  /\ delivered' = delivered \cup {<<c.msg, c.user>>}
  /\ status' = [status EXCEPT ![c.msg] = "DELIVERED"]
  /\ UNCHANGED <<members, rows, changes, read, lastRead, recalling, editing>>

(* One transaction: deliveredAt, and DELIVERED if the read has seen SENT. *)
MarkDeliveredWrite(c) ==
  /\ c \in marking
  /\ marking' = marking \ {c}
  /\ delivered' = delivered \cup {<<c.msg, c.user>>}
  /\ status' = IF c.seen = "SENT" THEN [status EXCEPT ![c.msg] = "DELIVERED"] ELSE status
  /\ UNCHANGED <<members, rows, changes, read, lastRead, recalling, editing>>

-----------------------------------------------------------------------------
(* markRead of the socket event, and its REST namesake                     *)

(* Mutant: only the deliveries before the message are marked. *)
UnreadBefore(u, m) ==
  {<<n, u>> : n \in {i \in 1 .. (m - 1) : Exists(i) /\ u \in receivers[i]}} \ read

(* The unread deliveries of a reader up to a message. *)
UnreadUpTo(u, m) ==
  {<<n, u>> : n \in {i \in 1 .. m : Exists(i) /\ u \in receivers[i]}} \ read

(* The membership of a reader is checked before the transaction, so that   *)
(* one who has left since may still mark: the whole group was in it once.  *)
WasMember(u) == kind = "DIRECT" => u \in member

(* Only the message that is named becomes READ, the deliveries of all      *)
(* earlier ones are marked.                                                *)
MarkRead(u, m) ==
  /\ WasMember(u) /\ Exists(m)
  /\ lastRead' = [lastRead EXCEPT ![u] = m]
  /\ delivered' = delivered \cup UnreadUpTo(u, m)
  /\ read' = read \cup UnreadUpTo(u, m)
  /\ status' = IF sender[m] # u /\ status[m] # "RECALLED"
               THEN [status EXCEPT ![m] = "READ"] ELSE status
  /\ UNCHANGED <<members, rows, changes, calls>>

(* POST conversations/:id/read leaves deliveredAt and the status alone. *)
MarkReadByRest(u, m) ==
  /\ WasMember(u) /\ Exists(m)
  /\ lastRead' = [lastRead EXCEPT ![u] = m]
  /\ read' = read \cup UnreadUpTo(u, m)
  /\ UNCHANGED <<members, rows, status, changes, delivered, calls>>

-----------------------------------------------------------------------------
(* recallMessage and editMessage                                           *)

RecallRead(u, m) ==
  /\ u \in member /\ Exists(m) /\ sender[m] = u
  /\ status[m] # "RECALLED"
  /\ friends /\ \E p \in member \ {u} : member \ {u} = {p}
  /\ FreeCall
  /\ recalling' = recalling \cup {m}
  /\ UNCHANGED <<members, rows, status, changes, receipts, marking, editing>>

(* Mutant: the status is set and the time of the recall is not. *)
RecallStatusOnly(m) ==
  /\ m \in recalling
  /\ recalling' = recalling \ {m}
  /\ status' = [status EXCEPT ![m] = "RECALLED"]
  /\ UNCHANGED <<members, rows, changes, receipts, marking, editing>>

RecallWrite(m) ==
  /\ m \in recalling
  /\ recalling' = recalling \ {m}
  /\ status' = [status EXCEPT ![m] = "RECALLED"]
  /\ recalledAt' = recalledAt \cup {m}
  /\ UNCHANGED <<members, rows, edited, receipts, marking, editing>>

EditRead(u, m) ==
  /\ u \in member /\ Exists(m) /\ sender[m] = u
  /\ status[m] # "RECALLED"
  /\ FreeCall
  /\ editing' = editing \cup {m}
  /\ UNCHANGED <<members, rows, status, changes, receipts, marking, recalling>>

EditWrite(m) ==
  /\ m \in editing
  /\ editing' = editing \ {m}
  /\ edited' = edited \cup {m}
  /\ UNCHANGED <<members, rows, status, recalledAt, receipts, marking, recalling>>

-----------------------------------------------------------------------------
(* What happens around the messages                                        *)

(* A member of a group leaves or is removed, and may be added again. *)
LeaveGroup(u) ==
  /\ kind = "GROUP" /\ u \in member
  /\ member' = member \ {u}
  /\ UNCHANGED <<kind, friends, rows, status, changes, receipts, calls>>

JoinGroup(u) ==
  /\ kind = "GROUP" /\ u \notin member
  /\ member' = member \cup {u}
  /\ UNCHANGED <<kind, friends, rows, status, changes, receipts, calls>>

(* The friendship between the two ends. *)
Unfriend ==
  /\ friends
  /\ friends' = FALSE
  /\ UNCHANGED <<kind, member, rows, status, changes, receipts, calls>>

-----------------------------------------------------------------------------
Init ==
  /\ \E a, b \in User :
       /\ a # b
       /\ \/ kind = "DIRECT" /\ member = {a, b}
          \/ kind = "GROUP" /\ member = User
  /\ friends = TRUE
  /\ created = 0
  /\ sending = {}
  /\ sender = [m \in Message |-> None]
  /\ receivers = [m \in Message |-> {}]
  /\ status = [m \in Message |-> "none"]
  /\ recalledAt = {} /\ edited = {}
  /\ delivered = {} /\ read = {}
  /\ lastRead = [u \in User |-> 0]
  /\ marking = {} /\ recalling = {} /\ editing = {}

Next ==
  \/ \E u \in User : SendBegin(u) \/ LeaveGroup(u) \/ JoinGroup(u)
  \/ \E x \in sending : SendCommit(x)
  \/ \E m \in Message, u \in User :
       \/ MarkDeliveredRead(m, u) \/ MarkRead(u, m) \/ MarkReadByRest(u, m)
       \/ RecallRead(u, m) \/ EditRead(u, m)
  \/ \E c \in marking : MarkDeliveredWrite(c)
  \/ \E m \in Message : RecallWrite(m) \/ EditWrite(m)
  \/ Unfriend

Spec == Init /\ [][Next]_vars

-----------------------------------------------------------------------------
TypeOK ==
  /\ kind \in {"DIRECT", "GROUP"}
  /\ member \in SUBSET User
  /\ friends \in BOOLEAN
  /\ created \in 0 .. MaxMessages
  /\ sending \in SUBSET Sending
  /\ sender \in [Message -> User \cup {None}]
  /\ receivers \in [Message -> SUBSET User]
  /\ status \in [Message -> Status]
  /\ recalledAt \in SUBSET Message
  /\ edited \in SUBSET Message
  /\ delivered \in SUBSET (Message \X User)
  /\ read \in SUBSET (Message \X User)
  /\ lastRead \in [User -> 0 .. MaxMessages]
  /\ marking \in SUBSET Call
  /\ recalling \in SUBSET Message
  /\ editing \in SUBSET Message

(* Whose reading makes a message READ: a receiver, or one who joined the    *)
(* group after the message and has no delivery of it.                      *)
Readers(m) == IF kind = "DIRECT" THEN receivers[m] ELSE User \ {sender[m]}

(* What a sender is shown is never ahead of what the rows say: DELIVERED   *)
(* (set by markDelivered) has a delivery behind it, READ (by markRead) a   *)
(* reader who is not the sender, RECALLED (by recallMessage) the time of   *)
(* the recall.                                                             *)
StatusIsJustified ==
  \A m \in Message :
    /\ status[m] = "DELIVERED" => \E u \in receivers[m] : <<m, u>> \in delivered
    /\ status[m] = "READ" =>
         \E u \in Readers(m) : u \in receivers[m] => <<m, u>> \in read
    /\ status[m] = "RECALLED" => m \in recalledAt

(* What the rows say reaches the sender: a message that was pushed to some *)
(* receiver, and that this receiver has yet to read, is not shown as SENT. *)
DeliveredIsShown ==
  \A m \in Message, u \in User :
    <<m, u>> \in delivered \ read => status[m] # "SENT"

(* The last message a member has read, which markRead and its REST namesake *)
(* also set, never names one whose delivery to that member is unread.      *)
LastReadIsRead ==
  \A u \in User : \A m \in Message :
    lastRead[u] = m /\ u \in receivers[m] => <<m, u>> \in read

Rank == [s \in Status |->
          CASE s = "none" -> 0 [] s = "SENT" -> 1 [] s = "DELIVERED" -> 2
            [] s = "READ" -> 3 [] s = "RECALLED" -> 4]

(* The status of a message goes back only through a markDelivered that had *)
(* read the message while it was SENT and has not written yet.             *)
OnlyStaleDeliveryGoesBack ==
  [][\A m \in Message :
       Rank[status'[m]] < Rank[status[m]] =>
         /\ status'[m] = "DELIVERED"
         /\ \E c \in marking : c.msg = m /\ c.seen = "SENT"]_vars

=============================================================================
