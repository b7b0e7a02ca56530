---------------------------- MODULE MCCredentials ----------------------------
(* The two parts of SignIns: the initial state chooses which of them is    *)
(* explored.                                                               *)
EXTENDS SignIns, TLC

VARIABLE part

MCInit == part \in {"server", "pages"} /\ Init /\ L!Init

MCNext ==
  /\ part' = part
  /\ \/ part = "server" /\ Next     /\ UNCHANGED pages
     \/ part = "pages"  /\ (L!Next) /\ UNCHANGED vars

MCSpec == MCInit /\ [][MCNext]_<<part, vars, pages>>

Symmetry == Permutations(Request)
=============================================================================
