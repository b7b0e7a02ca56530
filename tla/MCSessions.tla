----------------------------- MODULE MCSessions -----------------------------
(* Small instances of Sessions for the model checker. *)
EXTENDS Sessions, TLC

Symmetry == Permutations(User) \cup Permutations(Session) \cup Permutations(Socket)
=============================================================================
