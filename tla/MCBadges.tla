------------------------------ MODULE MCBadges ------------------------------
(* A small instance of Badges for the model checker. *)
EXTENDS Badges, TLC
=============================================================================
