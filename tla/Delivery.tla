------------------------------ MODULE Delivery ------------------------------
(***************************************************************************)
(* How a committed message gets to its receivers: the loop of              *)
(* handleMessageSend, which pushes it to the receivers that are connected, *)
(* and deliverOfflineMessages, which pushes on every connect what is still *)
(* undelivered.  Both mark what they push as delivered; neither waits for  *)
(* the client.  The registry of sockets is the one SingleDevice promises.  *)
(***************************************************************************)
EXTENDS Naturals, FiniteSetsExt

CONSTANTS
  MaxReceivers,  \* the other members of the conversation
  Socket,        \* connections, each used once
  None,
  MaxMessages,   \* bound: messages sent
  MaxRestarts    \* bound: restarts of the server

(* A receiver is a place in the order of the loop, a message one in the    *)
(* order of createdAt.                                                     *)
Receiver == 1 .. MaxReceivers
Message  == 1 .. MaxMessages

VARIABLES
  current,    \* socketsByUserId, of SingleDevice
  retired,    \* the sockets that were in it, of SingleDevice
  open,       \* sockets with a connection behind them
  owner,      \* the user a socket registered for
  step,       \* where handleConnection is, from registerSocket on
  target,     \* the socket deliverOfflineMessages has looked up
  pending,    \* the messages its loop has left, the first one being pushed
  sendStep,   \* where handleMessageSend is with a message
  left,       \* the receivers its loop has left, the first one being pushed to
  delivered,  \* the delivery rows with a deliveredAt
  read,       \* the delivery rows with a readAt
  received,   \* what was emitted to a socket with a connection behind it
  listed,     \* history: the messages that were there when a socket's loop began
  restarts

Device == INSTANCE SingleDevice WITH User <- Receiver

registry == <<current, retired, open>>
loops    == <<owner, step, target, pending, listed>>
sends    == <<sendStep, left>>
receipts == <<delivered, read, received>>
vars == <<registry, loops, sends, receipts, restarts>>

LoopStep == {"idle", "start", "list", "push", "mark", "done", "failed"}
SendStep == {"none", "push", "mark", "done", "failed"}

Committed == {m \in Message : sendStep[m] # "none"}

(* What the client of a receiver gets when a message is emitted to k. *)
Emitted(m, r, k) == IF k \in open THEN {<<m, r>>} ELSE {}

(* markDelivered, which leaves a row that has been read alone. *)
MarkDelivered(m, r) == delivered' = delivered \cup ({<<m, r>>} \ read)

-----------------------------------------------------------------------------
(* handleMessageSend                                                       *)

(* The transaction of sendTextMessage commits the next message. *)
SendCommit(m) ==
  /\ sendStep[m] = "none" /\ \A n \in 1 .. (m - 1) : n \in Committed
  /\ sendStep' = [sendStep EXCEPT ![m] = "push"]
  /\ left' = [left EXCEPT ![m] = Receiver]
  /\ UNCHANGED <<registry, loops, receipts, restarts>>

Connected(m) == {r \in left[m] : current[r] # None}

(* Mutant: the message is only pushed, the row is left for later. *)
SendPushOnly(m) ==
  LET r == Min(Connected(m)) IN
  /\ sendStep[m] = "push" /\ Connected(m) # {}
  /\ left' = [left EXCEPT ![m] = {q \in @ : q > r}]
  /\ received' = received \cup Emitted(m, r, current[r])
  /\ UNCHANGED <<registry, loops, sendStep, delivered, read, restarts>>

(* The loop skips the receivers that are not connected. *)
SendPush(m) ==
  LET r == Min(Connected(m)) IN
  /\ sendStep[m] = "push" /\ Connected(m) # {}
  /\ sendStep' = [sendStep EXCEPT ![m] = "mark"]
  /\ left' = [left EXCEPT ![m] = {q \in @ : q >= r}]
  /\ received' = received \cup Emitted(m, r, current[r])
  /\ UNCHANGED <<registry, loops, delivered, read, restarts>>

SendMark(m) ==
  LET r == Min(left[m]) IN
  /\ sendStep[m] = "mark"
  /\ sendStep' = [sendStep EXCEPT ![m] = "push"]
  /\ left' = [left EXCEPT ![m] = @ \ {r}]
  /\ MarkDelivered(m, r)
  /\ UNCHANGED <<registry, loops, read, received, restarts>>

SendFinish(m) ==
  /\ sendStep[m] = "push" /\ Connected(m) = {}
  /\ sendStep' = [sendStep EXCEPT ![m] = "done"]
  /\ left' = [left EXCEPT ![m] = {}]
  /\ UNCHANGED <<registry, loops, receipts, restarts>>

(* markDelivered throws, and the receivers after this one are not served. *)
SendFail(m) ==
  /\ sendStep[m] = "mark"
  /\ sendStep' = [sendStep EXCEPT ![m] = "failed"]
  /\ left' = [left EXCEPT ![m] = {}]
  /\ UNCHANGED <<registry, loops, receipts, restarts>>

-----------------------------------------------------------------------------
(* Connections: registerSocket, kickUser, handleDisconnect                 *)

(* registerSocket closes the predecessor; the connection of k may itself   *)
(* have gone while its token was being checked.                            *)
Connect(r, k) ==
  /\ step[k] = "idle"
  /\ Device!Attach(r, k)
  /\ \/ open' = (open \ {current[r]}) \cup {k}
     \/ open' = open \ {current[r]}
  /\ owner' = [owner EXCEPT ![k] = r]
  /\ step' = [step EXCEPT ![k] = "start"]
  /\ UNCHANGED <<target, pending, listed, sends, receipts, restarts>>

(* handleDisconnect of a connection that ends. *)
Close(k) ==
  /\ open' = open \ {k}
  /\ IF current[owner[k]] = k THEN Device!Detach(owner[k]) ELSE UNCHANGED <<current, retired>>

ClientDrop(k) ==
  /\ k \in open
  /\ Close(k)
  /\ UNCHANGED <<loops, sends, receipts, restarts>>

(* kickUser of a login. *)
Kick(r) ==
  /\ Device!Detach(r)
  /\ open' = open \ {current[r]}
  /\ UNCHANGED <<loops, sends, receipts, restarts>>

Restart ==
  /\ restarts < MaxRestarts
  /\ restarts' = restarts + 1
  /\ Device!Reset
  /\ open' = {}
  /\ step' = [k \in Socket |-> IF step[k] \in {"idle", "done"} THEN step[k] ELSE "failed"]
  /\ sendStep' = [m \in Message |->
                    IF sendStep[m] \in {"push", "mark"} THEN "failed" ELSE sendStep[m]]
  /\ left' = [m \in Message |-> {}]
  /\ pending' = [k \in Socket |-> {}]
  /\ UNCHANGED <<owner, target, listed, receipts>>

-----------------------------------------------------------------------------
(* deliverOfflineMessages                                                  *)

(* The friends have been told: look up the socket, which by now may be     *)
(* another one, or none.                                                   *)
LoopStart(k) ==
  LET socket == current[owner[k]] IN
  /\ step[k] = "start"
  /\ step' = [step EXCEPT ![k] = IF socket = None THEN "done" ELSE "list"]
  /\ target' = [target EXCEPT ![k] = socket]
  /\ UNCHANGED <<registry, owner, pending, listed, sends, receipts, restarts>>

(* Mutant: only what is neither delivered nor being pushed is listed. *)
LoopListIdle(k) ==
  /\ step[k] = "list"
  /\ step' = [step EXCEPT ![k] = "push"]
  /\ pending' = [pending EXCEPT ![k] = {m \in Committed : /\ <<m, owner[k]>> \notin delivered
                                                          /\ sendStep[m] = "done"}]
  /\ listed' = [listed EXCEPT ![k] = Committed]
  /\ UNCHANGED <<registry, owner, target, sends, receipts, restarts>>

(* listUndeliveredMessages *)
LoopList(k) ==
  /\ step[k] = "list"
  /\ step' = [step EXCEPT ![k] = "push"]
  /\ pending' = [pending EXCEPT ![k] = {m \in Committed : <<m, owner[k]>> \notin delivered}]
  /\ listed' = [listed EXCEPT ![k] = Committed]
  /\ UNCHANGED <<registry, owner, target, sends, receipts, restarts>>

LoopPush(k) ==
  /\ step[k] = "push" /\ pending[k] # {}
  /\ step' = [step EXCEPT ![k] = "mark"]
  /\ received' = received \cup Emitted(Min(pending[k]), owner[k], target[k])
  /\ UNCHANGED <<registry, owner, target, pending, listed, sends, delivered, read, restarts>>

LoopMark(k) ==
  LET m == Min(pending[k]) IN
  /\ step[k] = "mark"
  /\ step' = [step EXCEPT ![k] = "push"]
  /\ pending' = [pending EXCEPT ![k] = @ \ {m}]
  /\ MarkDelivered(m, owner[k])
  /\ UNCHANGED <<registry, owner, target, listed, sends, read, received, restarts>>

LoopFinish(k) ==
  /\ step[k] = "push" /\ pending[k] = {}
  /\ step' = [step EXCEPT ![k] = "done"]
  /\ UNCHANGED <<registry, owner, target, pending, listed, sends, receipts, restarts>>

(* A query fails: the catch block of handleConnection disconnects.  The    *)
(* connection that has gone already stays in the registry.                 *)
LoopFail(k) ==
  /\ step[k] \in {"start", "list", "mark"}
  /\ step' = [step EXCEPT ![k] = "failed"]
  /\ pending' = [pending EXCEPT ![k] = {}]
  /\ IF k \in open THEN Close(k) ELSE UNCHANGED registry
  /\ UNCHANGED <<owner, target, listed, sends, receipts, restarts>>

(* The REST markRead sets readAt and leaves deliveredAt null. *)
ReadByRest(m, r) ==
  /\ <<m, r>> \in received \ read
  /\ read' = read \cup {<<m, r>>}
  /\ UNCHANGED <<registry, loops, sends, delivered, received, restarts>>

-----------------------------------------------------------------------------
Init ==
  /\ Device!Init
  /\ open = {}
  /\ owner = [k \in Socket |-> None]
  /\ step = [k \in Socket |-> "idle"]
  /\ target = [k \in Socket |-> None]
  /\ pending = [k \in Socket |-> {}]
  /\ sendStep = [m \in Message |-> "none"]
  /\ left = [m \in Message |-> {}]
  /\ delivered = {} /\ read = {} /\ received = {}
  /\ listed = [k \in Socket |-> {}]
  /\ restarts = 0

(* A handler goes on until it is done or a query of it fails. *)
SendGoesOn(m) == SendPush(m) \/ SendMark(m) \/ SendFinish(m) \/ SendFail(m)
LoopGoesOn(k) ==
  LoopStart(k) \/ LoopList(k) \/ LoopPush(k) \/ LoopMark(k) \/ LoopFinish(k) \/ LoopFail(k)

Next ==
  \/ \E m \in Message : SendCommit(m) \/ SendGoesOn(m)
  \/ \E k \in Socket : LoopGoesOn(k) \/ ClientDrop(k)
  \/ \E r \in Receiver : Kick(r) \/ \E k \in Socket : Connect(r, k)
  \/ \E m \in Message, r \in Receiver : ReadByRest(m, r)
  \/ Restart

(* The event loop runs every handler whose query has come back, and every  *)
(* query comes back or throws.                                             *)
Fairness ==
  /\ \A m \in Message : WF_vars(SendGoesOn(m))
  /\ \A k \in Socket : WF_vars(LoopGoesOn(k))

Spec == Init /\ [][Next]_vars /\ Fairness

-----------------------------------------------------------------------------
TypeOK ==
  /\ current \in [Receiver -> Socket \cup {None}]
  /\ retired \in SUBSET Socket
  /\ open \in SUBSET Socket
  /\ owner \in [Socket -> Receiver \cup {None}]
  /\ step \in [Socket -> LoopStep]
  /\ target \in [Socket -> Socket \cup {None}]
  /\ \A k \in Socket : step[k] \in {"list", "push", "mark"} => target[k] # None
  /\ pending \in [Socket -> SUBSET Message]
  /\ sendStep \in [Message -> SendStep]
  /\ left \in [Message -> SUBSET Receiver]
  /\ {delivered, read, received} \subseteq SUBSET (Message \X Receiver)
  /\ listed \in [Socket -> SUBSET Message]
  /\ restarts \in 0 .. MaxRestarts

(* Nothing is stranded between the two loops: when handleConnection of a   *)
(* registered socket has come to its end, the receiver has no undelivered  *)
(* message but those whose own handler is still at it or has failed after  *)
(* the socket listed what was there.                                       *)
NothingStranded ==
  \A r \in Receiver : \A m \in Committed :
    \A k \in Socket :
      /\ current[r] = k /\ step[k] = "done"
      /\ m \in listed[k] \/ sendStep[m] = "done"
      => <<m, r>> \in delivered \cup read

(* While a receiver stays connected, a message that has been committed is  *)
(* delivered to it, unless the handler that sends it fails half way.       *)
EventuallyDelivered ==
  \A m \in Message, r \in Receiver, k \in Socket :
    m \in Committed /\ current[r] = k /\ k \in open
      ~> \/ <<m, r>> \in delivered \cup read
         \/ current[r] # k \/ k \notin open
         \/ sendStep[m] = "failed"
=============================================================================
