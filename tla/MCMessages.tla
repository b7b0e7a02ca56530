----------------------------- MODULE MCMessages -----------------------------
(* The messages of a conversation as the server has them.                  *)
EXTENDS Conversation, TLC

MCInit == Init /\ E!Init /\ M!Init
MCNext == (M!Next) /\ UNCHANGED <<vars, edits>>
MCSpec == MCInit /\ [][MCNext]_<<vars, edits, stored>>

Symmetry == Permutations(User)
=============================================================================
