----------------------------- MODULE MCFriends -----------------------------
(* Small instances of Friends for the model checker. *)
EXTENDS Friends, TLC

Symmetry == Permutations(User) \cup Permutations(Code) \cup Permutations(Row)
=============================================================================
