----------------------------- MODULE MCDelivery -----------------------------
(* The messages on their way through the loops of the server, whatever     *)
(* their entry in the list is.                                             *)
EXTENDS Arrivals, TLC

MCInit == Init /\ sent = 0 /\ known /\ D!Init
MCNext == (D!Next) /\ UNCHANGED vars
MCSpec == MCInit /\ [][MCNext]_<<vars, D!vars>> /\ D!Fairness
=============================================================================
