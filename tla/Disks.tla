--------------------------------- MODULE Disks ---------------------------------
(* What is kept on disks: the files of the server (Files), and of a        *)
(* desktop client the downloads (Downloads) and the preferences            *)
(* (Preferences).  The three share no state.                               *)
EXTENDS Files

CONSTANTS
  Download, Asset, AssetName, Folder, Attempts, MaxCrashes,       \* of Downloads
  Chat, Theme, DefaultFolder, Missing, Torn, MaxChoices, MaxFaults  \* of Preferences

ASSUME AttemptsAssumption == Attempts \in Nat

VARIABLES
  phase, file, path, folder, records, states, dir, crashes,
  saved, config, commands, answers, tray, devices, wanted, risky, choices, faults

downloads   == <<phase, file, path, folder, records, states, dir, crashes>>
preferences == <<saved, config, commands, answers, tray, devices, wanted, risky, choices, faults>>

D == INSTANCE Downloads WITH
       File <- Asset, Name <- AssetName, Dir <- Folder, at <- phase, disk <- folder
P == INSTANCE Preferences WITH
       Conversation <- Chat, Dir <- Folder, DefaultDir <- DefaultFolder, file <- saved

ASSUME ChoiceAssumption ==
  /\ Theme # {} /\ DefaultFolder \in Folder
  /\ None \notin P!Config \cup P!Choice /\ {Missing, Torn} \cap P!Config = {} /\ Missing # Torn

(* Where local_files says that a file is, there is that file: see Downloads. *)
RecordedIsThere == D!RecordedIsThere

(* What the pages show, and what is on file: see Preferences. *)
QuietCopyIsTheFile        == P!QuietCopyIsTheFile
OnlyHurriedChoicesAreLost == P!OnlyHurriedChoicesAreLost
=============================================================================
