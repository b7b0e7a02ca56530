----------------------------- MODULE MCChatPages -----------------------------
(* The three parts of ClientStores: the initial state chooses which of     *)
(* them is explored, and which copies of its contacts a client looks at.   *)
EXTENDS ClientStores, TLC

CONSTANTS ann, bob

VARIABLE part

Look(copies, spared, still, safe) == [at |-> copies, acts |-> spared, visits |-> still, faults |-> safe]
Watched == {Look({"count"}, 0, 1, 0), Look({"list"}, 0, 1, 0),
            Look({"page"}, 0, 1, 1), Look({"page"}, 1, 0, 1), Look({"page"}, 1, 1, 0),
            Look({"page", "list"}, 1, 1, 1)}

(* Bounds of the session's part.  Accounts are alike: the first session is *)
(* ann's.  What is opened or changed is so by that session, and then       *)
(* nothing fails or expires.  Two calls are under way at once.  Of the     *)
(* failures only that of a login shows on the login page.                  *)
AnnFirst == owner'[1] # bob
FirstChanges ==
  LET puts == {c \in requests' : c.kind \in {"change", "opened"}} IN
  /\ \A c \in puts : c.by = 1
  /\ puts # {} \/ belated' # {} => faults' = 0 /\ expired' = {}
TwoCalls == Cardinality(requests') <= 2
HealthyServer ==
  page = "auth" /\ page' = "auth" /\ status' = "reconnecting" => status = status' \/ faults' > faults
Few == AnnFirst /\ FirstChanges /\ TwoCalls /\ HealthyServer

MCInit ==
  /\ part \in {"pages", "session", "contacts"} /\ Init /\ C!Init /\ K!Init
  /\ part # "contacts" => request = K!NoRow /\ followed = {"count"}

MCNext ==
  /\ part' = part
  /\ \/ part = "pages"    /\ Next     /\ UNCHANGED <<client, contacts>>
     \/ part = "session"  /\ (C!Next) /\ Few /\ UNCHANGED <<vars, contacts>>
     \/ part = "contacts" /\ (K!Next) /\ UNCHANGED <<vars, client>>

MCSpec == MCInit /\ [][MCNext]_<<part, vars, client, contacts>>
=============================================================================
