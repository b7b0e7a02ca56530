---------------------------- MODULE Conversation ----------------------------
(* The messages of one conversation: what a client shows of them           *)
(* (ChatStatus), what the server has of them (Messages), and what becomes  *)
(* of the texts that a user edits (MessageEdits).  They share no state     *)
(* here.                                                                   *)
EXTENDS ChatStatus

CONSTANTS
  User, MaxCalls,   \* of Messages
  Edited, MaxTexts  \* of MessageEdits: its texts, and what the user writes

ASSUME UserAssumption  == None \notin User
ASSUME CallsAssumption == MaxCalls \in Nat
ASSUME TextsAssumption == MaxTexts \in Nat

VARIABLES
  kind, member, friends, created, sending, sender, receivers, rowStatus, recalledAt, rowEdited,
  delivered, read, lastRead, marking, recalling, editing

stored == <<kind, member, friends, created, sending, sender, receivers, rowStatus, recalledAt, rowEdited,
            delivered, read, lastRead, marking, recalling, editing>>

M == INSTANCE Messages WITH status <- rowStatus, edited <- rowEdited

VARIABLES bubble, sends, saves, row, news, form, written, saved, hurried, missed

edits == <<bubble, sends, saves, row, news, form, written, saved, hurried, missed>>

E == INSTANCE MessageEdits WITH Own <- Edited, wire <- sends

(* What the rows of a message say of one another, and how its status moves *)
(* on: see Messages.                                                       *)
StatusIsJustified         == M!StatusIsJustified
DeliveredIsShown          == M!DeliveredIsShown
LastReadIsRead            == M!LastReadIsRead
OnlyStaleDeliveryGoesBack == M!OnlyStaleDeliveryGoesBack

(* What the server has of the texts that were edited: see MessageEdits. *)
UnhurriedEditIsKept == E!UnhurriedEditIsKept
=============================================================================
