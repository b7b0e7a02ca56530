------------------------------- MODULE MCGroups -------------------------------
(* The three parts of GroupForms: the initial state chooses which of them  *)
(* is explored.                                                            *)
EXTENDS GroupForms, TLC

CONSTANTS me, b, c, g, h, x

VARIABLE part

Untouched  == Init /\ role = [u \in User |-> IF u = Me THEN "OWNER" ELSE "MEMBER"]
NoDialog   == D!Init /\ texts = [r \in Room |-> [f \in D!Field |-> x]]

MCInit ==
  \/ part = "members"  /\ Init      /\ S!Init /\ NoDialog
  \/ part = "settings" /\ Untouched /\ S!Init /\ NoDialog
  \/ part = "dialog"   /\ Untouched /\ S!Init /\ D!Init

MCNext ==
  /\ part' = part
  /\ \/ part = "members"  /\ Next   /\ UNCHANGED <<settings, dialog, shared>>
     \/ part = "settings" /\ S!Next /\ UNCHANGED <<vars, dialog>>
     \/ part = "dialog"   /\ D!Next /\ UNCHANGED <<vars, settings>>

MCSpec == MCInit /\ [][MCNext]_<<part, vars, settings, dialog, shared>>

Symmetry == Permutations({b, c}) \cup Permutations({g, h})
=============================================================================
