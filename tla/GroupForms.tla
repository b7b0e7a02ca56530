------------------------------ MODULE GroupForms ------------------------------
(* A group conversation (Groups) and the two forms of its settings: the    *)
(* user's own nickname and remark (GroupSettings), and the owner's dialog  *)
(* (GroupDialog).  The three are apart, but for the group that is selected.*)
EXTENDS Groups

CONSTANTS
  Room,    \* the groups of the forms
  Word,    \* texts of nicknames and remarks
  Title,   \* texts of names and intros
  NoText,   \* no text
  MaxTypings, MaxSaves, MaxLists, MaxFaults

ASSUME NoTextAssumption == NoText \in Word /\ NoText \in Title

VARIABLES
  room, row, copy, draft, saved, timer, calls, news, list, typed, wanted, hurried,
  texts, known, isOpen, form, synced, saving, orders, notices, titles, edited, outdated,
  typings, saves, lists, faults

settings == <<row, copy, draft, saved, timer, calls, news, list, typed, wanted, hurried>>
dialog   == <<texts, known, isOpen, form, synced, saving, orders, notices, titles, edited, outdated>>
shared   == <<room, typings, saves, lists, faults>>

S == INSTANCE GroupSettings WITH Group <- Room, Text <- Word, Empty <- NoText, selected <- room
D == INSTANCE GroupDialog WITH
       Group <- Room, Text <- Title, Empty <- NoText, row <- texts, copy <- known,
       selected <- room, calls <- orders, news <- notices, list <- titles

(* What the server and the client have of nicknames and remarks: see       *)
(* GroupSettings.                                                          *)
OnlyTypedIsSaved == S!OnlyTypedIsSaved
UnhurriedIsSaved == S!UnhurriedIsSaved

(* A save of the dialog changes only what was edited: see GroupDialog. *)
OnlyEditedFieldsChange == [][D!OnlyEdited]_(D!vars)
=============================================================================
