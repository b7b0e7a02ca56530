------------------------------- MODULE MCFiles -------------------------------
(* The three parts of Disks: the initial state chooses which of them is    *)
(* explored.                                                               *)
EXTENDS Disks, TLC

CONSTANTS m1, m2, p1, p2, home

VARIABLE part

(* Every asset wants the same name. *)
OneName == [f \in Asset |-> "n"]

NoDownloads   == D!Init /\ dir = home
NoPreferences == P!Init /\ saved = Missing

MCInit ==
  \/ part = "server"      /\ Init /\ NoDownloads /\ NoPreferences
  \/ part = "downloads"   /\ Init /\ D!Init      /\ NoPreferences
  \/ part = "preferences" /\ Init /\ NoDownloads /\ P!Init

MCNext ==
  /\ part' = part
  /\ \/ part = "server"      /\ Next     /\ UNCHANGED <<downloads, preferences>>
     \/ part = "downloads"   /\ (D!Next) /\ UNCHANGED <<vars, preferences>>
     \/ part = "preferences" /\ (P!Next) /\ UNCHANGED <<vars, downloads>>

MCSpec == MCInit /\ [][MCNext]_<<part, vars, downloads, preferences>>

Symmetry == Permutations({m1, m2}) \cup Permutations({p1, p2})
=============================================================================
