------------------------------ MODULE Arrivals ------------------------------
(* The messages of the others on their way to a user: the loops of the     *)
(* server that push them (Delivery), and the entry of the list that counts *)
(* them (Badges).  They share no state here.                               *)
EXTENDS Badges

CONSTANTS MaxReceivers, Socket, MaxRestarts   \* of Delivery

ASSUME SocketAssumption == None \notin Socket
ASSUME CountsAssumption == {MaxReceivers, MaxRestarts} \subseteq Nat

VARIABLES
  current, retired, open, owner, step, target, pending, sendStep, left, delivered, read, received,
  listed, restarts

D == INSTANCE Delivery

(* What the loops of the server deliver: see Delivery. *)
NothingStranded     == D!NothingStranded
EventuallyDelivered == D!EventuallyDelivered
=============================================================================
