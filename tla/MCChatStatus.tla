----------------------------- MODULE MCChatStatus -----------------------------
(* The bubbles of a conversation: what they say of their messages, and     *)
(* what becomes of a text that is edited.  The initial state chooses what  *)
(* is explored: events in any order, without a page; pages of the server   *)
(* between events that come one by one; pages of the server and the local  *)
(* cache among events in any order, with one change; the texts that are    *)
(* edited.                                                                 *)
EXTENDS Conversation, TLC

VARIABLE part

MCInit == /\ part \in {"events", "page", "cache", "edits"}
          /\ Init /\ E!Init /\ M!Init /\ kind = "DIRECT"

Bound ==
  \/ part = "events" /\ page' = None
  \/ part = "page"   /\ (FallBack => LoadPage) /\ UnderWay' <= 1
  \/ part = "cache"  /\ Changes' <= 1

MCNext ==
  /\ part' = part /\ UNCHANGED stored
  /\ \/ Next /\ Bound /\ UNCHANGED edits
     \/ part = "edits" /\ (E!Next) /\ UNCHANGED vars

MCSpec == MCInit /\ [][MCNext]_<<part, vars, edits, stored>>
===============================================================================
