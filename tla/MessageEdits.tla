---------------------------- MODULE MessageEdits ----------------------------
(***************************************************************************)
(* What becomes of the texts that a user writes into one conversation and  *)
(* edits there: the input, the menu and the edit form of MainLayout, and   *)
(* editMessage and retryTextMessage of the chat store.                     *)
(*                                                                         *)
(* A bubble that is failed or being sent is edited in the store only; the  *)
(* server learns of it with the next attempt to send it.  Any other edit   *)
(* is encrypted, an await, and sent; the form closes after the await,      *)
(* whatever it is open for by then.  A bubble gets another id when its     *)
(* message comes back, and the form knows its bubble by the id.            *)
(*                                                                         *)
(* The windows of time for edits and recalls are left out, and so are the  *)
(* pages that are loaded: which bubbles they replace is the matter of      *)
(* ChatStatus, where texts are not told apart.                             *)
(***************************************************************************)
EXTENDS Naturals

CONSTANTS
  Own,       \* clientMessageId of the texts
  MaxTexts   \* bound: what the user writes

Version == 1 .. MaxTexts

VARIABLES
  bubble,   \* status and text of a bubble
  wire,     \* the text of the attempt to send it that is under way, 0 for none
  saves,    \* the edits that are being encrypted, or on their way
  row,      \* the text that the server has, 0 for none
  news,     \* events on their way to the client
  form,     \* editingMessageId: a bubble, and whether the id is the server's
  written,  \* how many texts the user has written
  saved,    \* history: the text of a bubble that the user has saved last
  hurried,  \* history: whether something of it was under way then, or failed since
  missed    \* history: the bubbles that an event was lost of

server  == <<row, news>>
history == <<written, saved, hurried, missed>>
vars == <<bubble, wire, saves, server, form, history>>

Status == {"none", "sending", "failed", "sent", "recalled"}
Save   == [of : Own, text : Version, at : {"encrypting", "sent"}]
Event  == [type : {"new", "edited", "recalled"}, of : Own, text : Version]
Closed == [of |-> "nothing"]

Pending(c) == bubble[c].status \in {"sending", "failed"}

(* Nothing of the bubble is under way. *)
Settled(c) == wire[c] = 0 /\ (\A s \in saves : s.of # c) /\ (\A e \in news : e.of # c)

(* The user sends or saves a text for the bubble. *)
Writes(c) ==
  /\ written < MaxTexts
  /\ written' = written + 1
  /\ saved' = [saved EXCEPT ![c] = written + 1]
  /\ hurried' = IF Settled(c) THEN hurried \ {c} ELSE hurried \cup {c}
  /\ UNCHANGED missed

-----------------------------------------------------------------------------
(* Sending                                                                 *)

(* submitMessageDraft: without the network, or to one who is no friend,    *)
(* the bubble is there at once as failed.                                  *)
SubmitMessageDraft(c, works) ==
  /\ bubble[c].status = "none"
  /\ Writes(c)
  /\ bubble' = [bubble EXCEPT ![c] = [status |-> IF works THEN "sending" ELSE "failed", text |-> written + 1]]
  /\ wire' = [wire EXCEPT ![c] = IF works THEN written + 1 ELSE 0]
  /\ UNCHANGED <<saves, server, form>>

(* Mutant: the text is the one that was sent first. *)
RetryFirstText(c) ==
  /\ bubble[c].status = "failed" /\ Settled(c)
  /\ bubble' = [bubble EXCEPT ![c].status = "sending"]
  /\ wire' = [wire EXCEPT ![c] = 1]
  /\ UNCHANGED <<saves, server, form, history>>

(* Bound: not before everything of an earlier attempt is there; what comes *)
(* of two attempts is shown in ChatStatus.                                 *)
RetryTextMessage(c) ==
  /\ bubble[c].status = "failed" /\ Settled(c)
  /\ bubble' = [bubble EXCEPT ![c].status = "sending"]
  /\ wire' = [wire EXCEPT ![c] = bubble[c].text]
  /\ UNCHANGED <<saves, server, form, history>>

EncryptionFails(c) ==
  /\ wire[c] > 0
  /\ wire' = [wire EXCEPT ![c] = 0]
  /\ bubble' = [bubble EXCEPT ![c].status = "failed"]
  /\ UNCHANGED <<saves, server, form, history>>

Accept(c) ==
  /\ wire[c] > 0
  /\ wire' = [wire EXCEPT ![c] = 0]
  /\ row' = [row EXCEPT ![c] = wire[c]]
  /\ news' = news \cup {[type |-> "new", of |-> c, text |-> wire[c]]}
  /\ UNCHANGED <<bubble, saves, form, history>>

(* The server says that a text was refused, but not which: one of the      *)
(* bubbles that are being sent is marked.                                  *)
Blame == \/ UNCHANGED bubble
         \/ \E c \in Own : bubble[c].status = "sending" /\ bubble' = [bubble EXCEPT ![c].status = "failed"]

Refuse(c) ==
  /\ wire[c] > 0
  /\ wire' = [wire EXCEPT ![c] = 0]
  /\ Blame
  /\ UNCHANGED <<saves, server, form, history>>

-----------------------------------------------------------------------------
(* Editing                                                                 *)

(* The menu of a bubble has an item for it unless it is recalled. *)
OpenForm(c) ==
  /\ bubble[c].status \notin {"none", "recalled"}
  /\ form' = [of |-> c, pending |-> Pending(c)]
  /\ UNCHANGED <<bubble, wire, saves, server, history>>

CancelEdit ==
  /\ form # Closed
  /\ form' = Closed
  /\ UNCHANGED <<bubble, wire, saves, server, history>>

(* The form is shown in the bubble that has its id. *)
ShowsForm(c) == form = [of |-> c, pending |-> Pending(c)]

EditPending(c) ==
  /\ ShowsForm(c) /\ Pending(c)
  /\ Writes(c)
  /\ bubble' = [bubble EXCEPT ![c].text = written + 1]
  /\ form' = Closed
  /\ UNCHANGED <<wire, saves, server>>

EditMessage(c) ==
  /\ ShowsForm(c) /\ bubble[c].status = "sent"
  /\ Writes(c)
  /\ saves' = saves \cup {[of |-> c, text |-> written + 1, at |-> "encrypting"]}
  /\ UNCHANGED <<bubble, wire, server, form>>

(* It was recalled while the form was open. *)
EditRefusedHere(c) ==
  /\ ShowsForm(c) /\ bubble[c].status = "recalled"
  /\ form' = Closed
  /\ UNCHANGED <<bubble, wire, saves, server, history>>

SaveEnds(s) ==
  /\ s \in saves /\ s.at = "encrypting"
  /\ saves' = (saves \ {s}) \cup {[s EXCEPT !.at = "sent"]}
  /\ form' = Closed
  /\ UNCHANGED <<bubble, wire, server, history>>

EditEncryptionFails(s) ==
  /\ s \in saves /\ s.at = "encrypting"
  /\ saves' = saves \ {s}
  /\ form' = Closed
  /\ hurried' = hurried \cup {s.of}
  /\ UNCHANGED <<bubble, wire, server, written, saved, missed>>

(* A message that was recalled is not on the server for an edit. *)
ServerEdits(s) ==
  /\ s \in saves /\ s.at = "sent" /\ row[s.of] > 0
  /\ saves' = saves \ {s}
  /\ row' = [row EXCEPT ![s.of] = s.text]
  /\ news' = news \cup {[type |-> "edited", of |-> s.of, text |-> s.text]}
  /\ UNCHANGED <<bubble, wire, form, history>>

ServerRefusesEdit(s) ==
  /\ s \in saves /\ s.at = "sent"
  /\ saves' = saves \ {s}
  /\ hurried' = hurried \cup {s.of}
  /\ UNCHANGED <<bubble, wire, server, form, written, saved, missed>>

(* The menu, and the server. *)
RecallMessage(c) ==
  /\ bubble[c].status = "sent" /\ row[c] > 0
  /\ row' = [row EXCEPT ![c] = 0]
  /\ news' = news \cup {[type |-> "recalled", of |-> c, text |-> 1]}
  /\ UNCHANGED <<bubble, wire, saves, form, history>>

-----------------------------------------------------------------------------
(* Events, after their decryption, in any order                            *)

Got(e, type) == e \in news /\ e.type = type /\ news' = news \ {e}

HandleNew(e) ==
  /\ Got(e, "new")
  /\ bubble' = [bubble EXCEPT ![e.of] = [status |-> "sent", text |-> e.text]]
  /\ UNCHANGED <<wire, saves, row, form, history>>

(* A bubble is found by the id of its message. *)
HandleEdited(e) ==
  /\ Got(e, "edited")
  /\ bubble' = IF Pending(e.of) THEN bubble ELSE [bubble EXCEPT ![e.of].text = e.text]
  /\ UNCHANGED <<wire, saves, row, form, history>>

HandleRecalled(e) ==
  /\ Got(e, "recalled")
  /\ bubble' = [bubble EXCEPT ![e.of].status = "recalled"]
  /\ UNCHANGED <<wire, saves, row, form, history>>

(* The connection drops while an event is on its way. *)
Lose(e) ==
  /\ e \in news
  /\ news' = news \ {e}
  /\ missed' = missed \cup {e.of}
  /\ UNCHANGED <<bubble, wire, saves, row, form, written, saved, hurried>>

-----------------------------------------------------------------------------
Init ==
  /\ bubble = [c \in Own |-> [status |-> "none", text |-> 1]]
  /\ wire = [c \in Own |-> 0] /\ row = [c \in Own |-> 0]
  /\ saves = {} /\ news = {} /\ form = Closed
  /\ written = 0 /\ saved = [c \in Own |-> 0] /\ hurried = {} /\ missed = {}

UserNext(c) ==
  \/ \E works \in BOOLEAN : SubmitMessageDraft(c, works)
  \/ RetryTextMessage(c) \/ OpenForm(c) \/ EditPending(c) \/ EditMessage(c) \/ EditRefusedHere(c)
  \/ RecallMessage(c)

Next ==
  \/ \E c \in Own : UserNext(c) \/ EncryptionFails(c) \/ Accept(c) \/ Refuse(c)
  \/ \E s \in saves : SaveEnds(s) \/ EditEncryptionFails(s) \/ ServerEdits(s) \/ ServerRefusesEdit(s)
  \/ \E e \in news : HandleNew(e) \/ HandleEdited(e) \/ HandleRecalled(e) \/ Lose(e)
  \/ CancelEdit

Spec == Init /\ [][Next]_vars

-----------------------------------------------------------------------------
(* Properties                                                              *)

(* Every variable has its type. *)
TypeOK ==
  /\ bubble \in [Own -> [status : Status, text : Version]]
  /\ wire \in [Own -> 0 .. MaxTexts] /\ row \in [Own -> 0 .. MaxTexts]
  /\ saves \subseteq Save /\ news \subseteq Event
  /\ form = Closed \/ form \in [of : Own, pending : BOOLEAN]
  /\ written \in 0 .. MaxTexts /\ saved \in [Own -> 0 .. MaxTexts]
  /\ hurried \subseteq Own /\ missed \subseteq Own

(* The text that the user has saved last is the text that the server has   *)
(* and that the bubble shows, once nothing of it is under way: whatever    *)
(* was edited as failed and sent again.  The exceptions are texts that     *)
(* were saved while something of the bubble was still under way (editing a *)
(* bubble that is being sent is lost when its message comes back), edits   *)
(* that failed, and bubbles of which an event was lost.                    *)
UnhurriedEditIsKept ==
  \A c \in Own : row[c] > 0 /\ Settled(c) /\ c \notin hurried \cup missed =>
    row[c] = saved[c] /\ bubble[c].text = saved[c]
=============================================================================
