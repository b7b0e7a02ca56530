----------------------------- MODULE GroupSettings -----------------------------
(***************************************************************************)
(* The form with the user's own nickname and remark in the selected group: *)
(* the drafts of its two inputs, their autosave, and what the server has.  *)
(*                                                                         *)
(* An input is saved when it loses the focus, on Enter, or 600 ms after    *)
(* the last change of its draft or of the conversation.  Both inputs are   *)
(* set back to what the store has whenever a nickname, a remark or the     *)
(* selected group changes there; and when a save is answered its input is  *)
(* set to what was saved, whichever group is selected by then.             *)
(*                                                                         *)
(* A text is taken as it is stored, without blanks around it.  React runs  *)
(* the effects of a change before the next event and before the code that  *)
(* awaited the answer goes on.                                             *)
(***************************************************************************)
EXTENDS Naturals, Sequences

CONSTANTS
  Group,
  Text,
  Empty,       \* the text of a new member's nickname and remark
  None,
  MaxTypings,  \* bound: changes of an input
  MaxSaves,    \* bound: saves
  MaxLists,    \* bound: loads of the list of conversations
  MaxFaults    \* bound: saves that fail

Field == {"nickname", "remark"}
Texts == [Field -> Text]
Call  == [n : Nat, group : Group, field : Field, value : Text,
          answer : Texts \cup {None}, at : {"sent", "stored", "answered"}]

VARIABLES
  row,       \* server: groupNickname and groupRemark of the member
  copy,      \* the same in the chat store
  selected,
  draft,
  saved,     \* lastSavedGroupNicknameRef, lastSavedGroupRemarkRef
  timer,     \* the inputs whose autosave is due
  calls,     \* saves under way
  news,      \* nicknames on their way over the socket
  list,      \* what a load of the list has read, or None
  typed,     \* history: what was typed, by group and input
  wanted,    \* history: what was typed last
  hurried,   \* history: texts that were at risk
  typings, saves, lists, faults

form    == <<selected, draft, saved, timer>>
past    == <<typed, wanted, hurried>>
counts  == <<typings, saves, lists, faults>>
vars    == <<row, copy, form, calls, news, list, past, counts>>

Initially == [f \in Field |-> Empty]
Unsaved == {f \in Field : draft[f] # saved[f]}
Busy    == calls # {} \/ news # <<>> \/ list # None
Quiet   == ~Busy /\ timer = {}

(* What is typed and not yet on its way to the server *)
UnderWay(f) == \E c \in calls : c.group = selected /\ c.field = f /\ c.value = draft[f]
Loose == {f \in Unsaved : ~UnderWay(f)}
AtRisk(fields) == hurried' = hurried \cup ({selected} \X fields)

(* What the store takes that the server has no longer *)
Outdated(g, values) == {g} \X {f \in Field : values[f] # row[g][f]}

-----------------------------------------------------------------------------
(* The effects of the page                                                 *)

Reset(values) == draft' = values /\ saved' = values /\ timer' = {}

(* The store's conversation g changes to what values say. *)
Taken(g, values) ==
  /\ copy' = [copy EXCEPT ![g] = values]
  /\ IF g # selected THEN UNCHANGED <<draft, saved, timer>>
     ELSE IF values # copy[g] THEN Reset(values)
     ELSE timer' = Unsaved /\ UNCHANGED <<draft, saved>>

-----------------------------------------------------------------------------
(* The user                                                                *)

(* What is typed while anything is under way may be overwritten. *)
Type(f, t) ==
  /\ typings < MaxTypings /\ typings' = typings + 1
  /\ t # draft[f]
  /\ draft' = [draft EXCEPT ![f] = t]
  /\ timer' = IF t = saved[f] THEN timer \ {f} ELSE timer \cup {f}
  /\ typed' = [typed EXCEPT ![selected][f] = @ \cup {t}]
  /\ wanted' = [wanted EXCEPT ![selected][f] = t]
  /\ AtRisk(IF Busy THEN {f} ELSE {})
  /\ UNCHANGED <<row, copy, selected, saved, calls, news, list, saves, lists, faults>>

(* flushGroupNicknameSave, flushGroupRemarkSave: by the timer, on leaving  *)
(* the input, on Enter.  Nothing keeps a second save from being sent.      *)
Flush(f) ==
  /\ saves < MaxSaves /\ saves' = saves + 1
  /\ f \in Unsaved
  /\ timer' = timer \ {f}
  /\ calls' = calls \cup {[n |-> saves, group |-> selected, field |-> f, value |-> draft[f], answer |-> None, at |-> "sent"]}
  /\ AtRisk(Loose \ {f})
  /\ UNCHANGED <<row, copy, selected, draft, saved, news, list, typed, wanted, typings, lists, faults>>

(* Another group is selected; an input that has lost the focus is flushed. *)
Select(g) ==
  /\ g # selected
  /\ selected' = g
  /\ Reset(copy[g])
  /\ AtRisk(Loose)
  /\ UNCHANGED <<row, copy, calls, news, list, typed, wanted, counts>>

(* Mutant: the timers are cleared and not set again. *)
TouchStops ==
  /\ timer' = {}
  /\ UNCHANGED <<row, copy, selected, draft, saved, calls, news, list, past, counts>>

(* Any other change of the conversation starts the timers anew. *)
Touch ==
  /\ timer' = Unsaved
  /\ UNCHANGED <<row, copy, selected, draft, saved, calls, news, list, past, counts>>

-----------------------------------------------------------------------------
(* The server                                                              *)

Move(c, d) == calls' = (calls \ {c}) \cup {d}

Store(c) ==
  /\ c.at = "sent"
  /\ row' = [row EXCEPT ![c.group][c.field] = c.value]
  /\ Move(c, [c EXCEPT !.at = "stored"])
  /\ UNCHANGED <<copy, form, news, list, past, counts>>

(* The conversation is read again for the answer; a nickname is announced. *)
Reread(c) ==
  /\ c.at = "stored"
  /\ Move(c, [c EXCEPT !.at = "answered", !.answer = row[c.group]])
  /\ news' = IF c.field = "nickname"
             THEN Append(news, [group |-> c.group, nickname |-> row[c.group]["nickname"]]) ELSE news
  /\ UNCHANGED <<row, copy, form, list, past, counts>>

ListRead ==
  /\ lists < MaxLists /\ lists' = lists + 1
  /\ list = None
  /\ list' = row
  /\ AtRisk(Loose)
  /\ UNCHANGED <<row, copy, form, calls, news, typed, wanted, typings, saves, faults>>

-----------------------------------------------------------------------------
(* Answers and news                                                        *)

(* Mutant: what was saved is not noted. *)
ContinueUnnoted(c, drafts, refs, timers) ==
  /\ draft' = [drafts EXCEPT ![c.field] = c.value]
  /\ saved' = refs
  /\ timer' = timers \ {c.field}

(* The store takes the conversation of the answer; then the save goes on.  *)
Continue(c, drafts, refs, timers) ==
  /\ draft' = [drafts EXCEPT ![c.field] = c.value]
  /\ saved' = [refs EXCEPT ![c.field] = c.value]
  /\ timer' = timers \ {c.field}

Answered(c) ==
  /\ c.at = "answered"
  /\ calls' = calls \ {c}
  /\ copy' = [copy EXCEPT ![c.group] = c.answer]
  /\ IF c.group # selected THEN Continue(c, draft, saved, timer)
     ELSE IF c.answer # copy[c.group] THEN Continue(c, c.answer, c.answer, {})
     ELSE Continue(c, draft, saved, Unsaved)
  /\ hurried' = hurried \cup Outdated(c.group, c.answer)
                       \cup (IF c.group # selected THEN {<<selected, c.field>>} ELSE {})
  /\ UNCHANGED <<row, selected, news, list, typed, wanted, counts>>

Fails(c) ==
  /\ faults < MaxFaults /\ faults' = faults + 1
  /\ calls' = calls \ {c}
  /\ hurried' = hurried \cup {<<c.group, c.field>>}
  /\ UNCHANGED <<row, copy, form, news, list, typed, wanted, typings, saves, lists>>

(* handleConversationMemberUpdated *)
NewsTaken ==
  /\ news # <<>>
  /\ news' = Tail(news)
  /\ LET n == Head(news)
         values == [copy[n.group] EXCEPT !["nickname"] = n.nickname] IN
       /\ Taken(n.group, values)
       /\ hurried' = hurried \cup Outdated(n.group, values)
  /\ UNCHANGED <<row, selected, calls, list, typed, wanted, counts>>

ListTaken ==
  /\ list # None
  /\ list' = None
  /\ copy' = list
  /\ IF list[selected] # copy[selected] THEN Reset(list[selected])
     ELSE timer' = Unsaved /\ UNCHANGED <<draft, saved>>
  /\ hurried' = hurried \cup UNION {Outdated(g, list[g]) : g \in Group}
  /\ UNCHANGED <<row, selected, calls, news, typed, wanted, counts>>

-----------------------------------------------------------------------------
Init ==
  /\ row = [g \in Group |-> Initially] /\ copy = row
  /\ selected \in Group
  /\ draft = Initially /\ saved = Initially /\ timer = {}
  /\ calls = {} /\ news = <<>> /\ list = None
  /\ typed = [g \in Group |-> [f \in Field |-> {}]]
  /\ wanted = row
  /\ hurried = {}
  /\ typings = 0 /\ saves = 0 /\ lists = 0 /\ faults = 0

Next ==
  \/ \E f \in Field : Flush(f) \/ \E t \in Text : Type(f, t)
  \/ \E g \in Group : Select(g)
  \/ \E c \in calls : Store(c) \/ Reread(c) \/ Answered(c) \/ Fails(c)
  \/ Touch \/ NewsTaken \/ ListRead \/ ListTaken

Spec == Init /\ [][Next]_vars

-----------------------------------------------------------------------------
(* Every variable has its type. *)
TypeOK ==
  /\ row \in [Group -> Texts] /\ copy \in [Group -> Texts]
  /\ selected \in Group
  /\ draft \in Texts /\ saved \in Texts /\ timer \subseteq Field
  /\ calls \subseteq Call
  /\ news \in Seq([group : Group, nickname : Text])
  /\ list \in [Group -> Texts] \cup {None}
  /\ typed \in [Group -> [Field -> SUBSET Text]] /\ wanted \in [Group -> Texts]
  /\ hurried \subseteq Group \X Field
  /\ {typings, saves, lists, faults} \subseteq Nat

(* A group is given no text that was not typed for it, although a save that*)
(* is answered after the group was left sets the input of the next group.  *)
OnlyTypedIsSaved ==
  \A g \in Group, f \in Field : row[g][f] \in typed[g][f] \cup {Empty}

(* What was typed last is stored in the end, unless it was typed while     *)
(* something was under way, or a save of the other input, a load or another*)
(* group came before its own save was sent, or the save failed, or the form*)
(* had been set to what the server had no longer or had for another group. *)
UnhurriedIsSaved ==
  Quiet => \A g \in Group, f \in Field : <<g, f>> \in hurried \/ row[g][f] = wanted[g][f]
=============================================================================
