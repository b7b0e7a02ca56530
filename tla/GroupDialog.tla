------------------------------ MODULE GroupDialog ------------------------------
(***************************************************************************)
(* The dialog in which the owner of a group changes its name and its intro *)
(* (which stands for the announcement as well), all saved together.        *)
(*                                                                         *)
(* While the dialog is open each input follows the store unless it has been*)
(* edited (a merge of form, lastSynced... and store).  A save sends what   *)
(* all inputs hold; inputs stay enabled while it runs.  Nobody but the     *)
(* owner changes these texts, but what the client learns of its own saves  *)
(* comes in answers, announcements and lists that overtake each other.     *)
(*                                                                         *)
(* A text is taken as it is stored, without blanks around it.              *)
(***************************************************************************)
EXTENDS Naturals, Sequences

CONSTANTS
  Group,
  Text,
  Empty,       \* no text: a group may have no intro, but has a name
  None,
  MaxTypings,  \* bound: changes of an input
  MaxSaves,    \* bound: saves
  MaxLists,    \* bound: loads of the list of conversations
  MaxFaults    \* bound: saves that fail

Field == {"name", "intro"}
Texts == [Field -> Text]

VARIABLES
  row,       \* server: title, intro
  copy,      \* the same in the chat store
  selected,
  isOpen,    \* isGroupManagementOpen
  form,      \* groupManagementName, groupManagementIntro
  synced,    \* lastSyncedGroupManagementNameRef, ...IntroRef
  saving,    \* isSavingGroupManagement
  calls,     \* saves under way
  news,      \* announcements on their way over the socket
  list,      \* what a load of the list has read, or None
  edited,    \* history: the inputs typed in since they last followed the store
  outdated,  \* history: groups of which the store took what the server had no longer
  typings, saves, lists, faults

dialog  == <<isOpen, form, synced>>
past    == <<edited, outdated>>
counts  == <<typings, saves, lists, faults>>
vars    == <<row, copy, selected, dialog, saving, calls, news, list, past, counts>>

Blank == [f \in Field |-> Empty]

-----------------------------------------------------------------------------
(* The effects of the page                                                 *)

(* The inputs that are not edited follow the store, now that it says so. *)
Follow(values) ==
  /\ form' = [f \in Field |-> IF form[f] = synced[f] THEN values[f] ELSE form[f]]
  /\ synced' = values
  /\ edited' = {f \in edited : form[f] # synced[f]}

Stale(g, values) == IF values # row[g] THEN {g} ELSE {}

-----------------------------------------------------------------------------
(* The owner                                                               *)

Open ==
  /\ ~isOpen
  /\ isOpen' = TRUE
  /\ form' = copy[selected] /\ synced' = copy[selected]
  /\ edited' = {}
  /\ UNCHANGED <<row, copy, selected, saving, calls, news, list, outdated, counts>>

Type(f, t) ==
  /\ typings < MaxTypings /\ typings' = typings + 1
  /\ isOpen
  /\ t # form[f]
  /\ form' = [form EXCEPT ![f] = t]
  /\ edited' = edited \cup {f}
  /\ UNCHANGED <<row, copy, selected, isOpen, synced, saving, calls, news, list, outdated, saves, lists, faults>>

(* requestCloseGroupManagement, and discarding when asked *)
Close ==
  /\ isOpen /\ ~saving
  /\ isOpen' = FALSE
  /\ form' = Blank /\ synced' = Blank
  /\ edited' = {}
  /\ UNCHANGED <<row, copy, selected, saving, calls, news, list, outdated, counts>>

Save ==
  /\ saves < MaxSaves /\ saves' = saves + 1
  /\ isOpen /\ ~saving
  /\ form["name"] # Empty
  /\ form # copy[selected]
  /\ saving' = TRUE
  /\ calls' = calls \cup {[n |-> saves, group |-> selected, values |-> form, edited |-> edited, answer |-> None, at |-> "sent"]}
  /\ UNCHANGED <<row, copy, selected, dialog, news, list, past, typings, lists, faults>>

(* Mutant: the dialog stays open. *)
SelectOpen(g) ==
  /\ g # selected
  /\ selected' = g
  /\ edited' = {}
  /\ UNCHANGED <<row, copy, dialog, saving, calls, news, list, outdated, counts>>

(* The dialog of the group is closed; the intro is wiped, the name is not. *)
Select(g) ==
  /\ g # selected
  /\ selected' = g
  /\ isOpen' = FALSE
  /\ form' = [form EXCEPT !["intro"] = Empty]
  /\ edited' = {}
  /\ UNCHANGED <<row, copy, synced, saving, calls, news, list, outdated, counts>>

-----------------------------------------------------------------------------
(* The server: updateGroupConversation                                     *)

Move(c, d) == calls' = (calls \ {c}) \cup {d}

Store(c) ==
  /\ c.at = "sent"
  /\ row' = [row EXCEPT ![c.group] = c.values]
  /\ Move(c, [c EXCEPT !.at = "stored"])
  /\ UNCHANGED <<copy, selected, dialog, saving, news, list, past, counts>>

(* The group is read again, announced to its members and answered. *)
Reread(c) ==
  /\ c.at = "stored"
  /\ Move(c, [c EXCEPT !.at = "answered", !.answer = row[c.group]])
  /\ news' = Append(news, [group |-> c.group, values |-> row[c.group]])
  /\ UNCHANGED <<row, copy, selected, dialog, saving, list, past, counts>>

ListRead ==
  /\ lists < MaxLists /\ lists' = lists + 1
  /\ list = None
  /\ list' = row
  /\ UNCHANGED <<row, copy, selected, dialog, saving, calls, news, past, typings, saves, faults>>

-----------------------------------------------------------------------------
(* Answers and news                                                        *)

(* The store takes the answer, and the save sets inputs and refs to what it*)
(* has sent: an open dialog follows the store at once, edited or not.      *)
Answered(c) ==
  /\ c.at = "answered"
  /\ calls' = calls \ {c}
  /\ saving' = FALSE
  /\ copy' = [copy EXCEPT ![c.group] = c.answer]
  /\ LET shown == IF isOpen THEN copy'[selected] ELSE c.values IN form' = shown /\ synced' = shown
  /\ edited' = {}
  /\ outdated' = outdated \cup Stale(c.group, c.answer)
  /\ UNCHANGED <<row, selected, isOpen, news, list, counts>>

(* The server may have stored what it was sent. *)
Fails(c) ==
  /\ faults < MaxFaults /\ faults' = faults + 1
  /\ calls' = calls \ {c}
  /\ saving' = FALSE
  /\ outdated' = outdated \cup Stale(c.group, copy[c.group])
  /\ UNCHANGED <<row, copy, selected, dialog, news, list, edited, typings, saves, lists>>

Taken(values) ==
  /\ copy' = values
  /\ IF isOpen /\ values[selected] # copy[selected] THEN Follow(values[selected])
     ELSE UNCHANGED <<form, synced, edited>>
  /\ outdated' = outdated \cup UNION {Stale(g, values[g]) : g \in Group}
  /\ UNCHANGED <<row, selected, isOpen, saving, calls, counts>>

(* handleConversationUpdated *)
NewsTaken ==
  /\ news # <<>>
  /\ news' = Tail(news)
  /\ LET n == Head(news) IN Taken([copy EXCEPT ![n.group] = n.values])
  /\ UNCHANGED list

ListTaken ==
  /\ list # None
  /\ list' = None
  /\ Taken(list)
  /\ UNCHANGED news

-----------------------------------------------------------------------------
Init ==
  /\ row \in [Group -> {t \in Texts : t["name"] # Empty}]
  /\ copy = row
  /\ selected \in Group
  /\ isOpen = FALSE /\ form = Blank /\ synced = Blank
  /\ saving = FALSE
  /\ calls = {} /\ news = <<>> /\ list = None
  /\ edited = {} /\ outdated = {}
  /\ typings = 0 /\ saves = 0 /\ lists = 0 /\ faults = 0

Next ==
  \/ Open \/ Close \/ Save
  \/ \E f \in Field, t \in Text : Type(f, t)
  \/ \E g \in Group : Select(g)
  \/ \E c \in calls : Store(c) \/ Reread(c) \/ Answered(c) \/ Fails(c)
  \/ ListRead \/ NewsTaken \/ ListTaken

Spec == Init /\ [][Next]_vars

-----------------------------------------------------------------------------
(* A save changes only what was edited for its group, although it sends    *)
(* everything: what it sends of the rest is what the group has, unless the *)
(* store has taken an answer, an announcement or a list that was out of    *)
(* date, or missed a save that failed.                                     *)
OnlyEdited ==
  \A g \in Group, f \in Field :
    row'[g][f] # row[g][f] =>
      \/ g \in outdated
      \/ \E c \in calls : c.group = g /\ f \in c.edited
=============================================================================
