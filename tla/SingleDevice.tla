---------------------------- MODULE SingleDevice ----------------------------
(***************************************************************************)
(* What the realtime layer promises about devices: a user has at most one  *)
(* current socket, a socket becomes current at most once, and a socket     *)
(* that has been replaced or has left never comes back, whatever order the *)
(* connect, disconnect and login handlers run in.  Sessions.tla implements *)
(* this specification.                                                     *)
(***************************************************************************)
CONSTANTS User, Socket, None

VARIABLES
  current,  \* the socket that receives the realtime events of a user
  retired   \* the sockets that were current and no longer are

vars == <<current, retired>>

Init ==
  /\ current = [u \in User |-> None]
  /\ retired = {}

(* A socket becomes the current one and retires its predecessor. *)
Attach(u, k) ==
  /\ k \notin retired
  /\ \A v \in User : current[v] # k
  /\ current' = [current EXCEPT ![u] = k]
  /\ retired' = retired \cup ({current[u]} \ {None})

(* The current socket leaves, by itself or because a login kicks it. *)
Detach(u) ==
  /\ current[u] # None
  /\ current' = [current EXCEPT ![u] = None]
  /\ retired' = retired \cup {current[u]}

(* The server process ends, and every connection with it. *)
Reset ==
  /\ current' = [u \in User |-> None]
  /\ retired' = retired \cup ({current[u] : u \in User} \ {None})

Next ==
  \/ \E u \in User, k \in Socket : Attach(u, k)
  \/ \E u \in User : Detach(u)
  \/ Reset

Spec == Init /\ [][Next]_vars
=============================================================================
