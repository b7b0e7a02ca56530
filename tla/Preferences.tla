------------------------------ MODULE Preferences ------------------------------
(***************************************************************************)
(* The preferences of the desktop client: the file client-config.json that *)
(* the shell (Rust) keeps, and the copy in the settings store of the pages.*)
(*                                                                         *)
(* Pages send commands to the shell, which runs them one after the other   *)
(* on its main thread and answers in that order.  updateConfig sends the   *)
(* WHOLE configuration, made of the copy at the time of the click; the     *)
(* download directory is changed by the shell in the file itself, and      *)
(* closing to the tray is a flag of the shell besides.  Writing the file   *)
(* truncates it first: a write that fails, or is cut off by a crash, may   *)
(* leave a file that cannot be parsed, which only updateConfig replaces.   *)
(*                                                                         *)
(* "theme" stands for the preferences that are plain values (also server,  *)
(* language, notifications, shortcut), "pins" for those that are lists     *)
(* computed from the copy (also the muted conversations).                  *)
(***************************************************************************)
EXTENDS Naturals, Sequences, SequencesExt

CONSTANTS
  Conversation,
  Theme,
  Dir,         \* directories for downloads
  DefaultDir,  \* stands for downloadDir null
  Missing,     \* the file does not exist
  Torn,        \* the file cannot be parsed
  None,
  MaxChoices,  \* bound: choices of the user
  MaxFaults    \* bound: commands that fail, and crashes

VARIABLES
  file,      \* client-config.json
  config,    \* the copy in the settings store
  commands,  \* on the way to the shell
  answers,   \* on the way back
  tray,      \* close_to_tray of the shell
  devices,   \* history: how many device ids have been made
  wanted,    \* history: what the user has chosen last
  risky,     \* history: choices that another choice, a failure or a crash has met under way
  choices, faults

store == <<file, tray, devices>>
past  == <<wanted, risky>>
vars  == <<store, config, commands, answers, past, choices, faults>>

Field  == {"theme", "pins", "tray", "dir"}
Config == [theme : Theme, pins : SUBSET Conversation, tray : BOOLEAN, dir : Dir, device : Nat]
Choice ==
  [field : {"theme"}, value : Theme] \cup [field : {"pins"}, value : SUBSET Conversation]
    \cup [field : {"tray"}, value : BOOLEAN] \cup [field : {"dir"}, value : Dir]
Readable == file \notin {Missing, Torn}

DefaultConfig(device) ==
  [theme |-> CHOOSE t \in Theme : TRUE, pins |-> {}, tray |-> TRUE, dir |-> DefaultDir, device |-> device]

Change(field, value) == [field |-> field, value |-> value]
Made(base, change) == [base EXCEPT ![change.field] = change.value]

(* do: what the shell does and, for a read, what the page does with it:    *)
(* "load" copies it, "read" goes on to save a change.                      *)
Command(do, change, whole) == [do |-> do, change |-> change, config |-> whole]
Answer(command, ok, whole) ==
  [do |-> command.do, change |-> command.change, config |-> whole, ok |-> ok]

UnderWay == ToSet(commands) \cup ToSet(answers)
Pending  == {x.change.field : x \in {y \in UnderWay : y.change # None /\ y.do # "tray"}}
Quiet    == commands = <<>> /\ answers = <<>>

-----------------------------------------------------------------------------
(* The pages                                                               *)

(* updateConfig: without a copy the file is read first. *)
Update(change) ==
  commands' = Append(commands, IF config = None THEN Command("read", change, None)
                               ELSE Command("save", change, Made(config, change)))

(* A choice whose file is still being read would overwrite a later one. *)
Late(field) == IF \E x \in UnderWay : x.do = "read" THEN {field} ELSE {}

Chooses(field, intended) ==
  /\ choices < MaxChoices
  /\ choices' = choices + 1
  /\ wanted' = [wanted EXCEPT ![field] = intended]
  /\ UNCHANGED <<store, config, answers, faults>>

Choose(field, value) ==
  /\ Chooses(field, value)
  /\ Update(Change(field, value))
  /\ risky' = ((risky \cup Pending) \ {field}) \cup Late(field)

Pins == IF config = None THEN {} ELSE config.pins
Flip(pins, c) == IF c \in Pins THEN pins \ {c} ELSE pins \cup {c}

(* A list chosen anew contains what the copy had of it: it repairs nothing. *)
TogglePinned(c) ==
  /\ Chooses("pins", Flip(wanted.pins, c))
  /\ Update(Change("pins", Flip(Pins, c)))
  /\ risky' = risky \cup Pending \cup Late("pins") \cup (IF config = None THEN {"pins"} ELSE {})

(* handleSelectDownloadDirectory, handleResetDownloadDirectory *)
ChooseDirectory(d) ==
  /\ Chooses("dir", d)
  /\ commands' = Append(commands, Command("dir", Change("dir", d), None))
  /\ risky' = (risky \ {"dir"}) \cup Late("dir")

(* A page that loads the settings when it is opened *)
Load ==
  /\ choices < MaxChoices
  /\ choices' = choices + 1
  /\ commands' = Append(commands, Command("load", None, None))
  /\ UNCHANGED <<store, config, answers, past, faults>>

(* Mutant: after a change of the directory the pages keep what they have. *)
Next1Stale(a) ==
  CASE a.ok /\ a.do = "read" -> <<Command("save", a.change, Made(a.config, a.change))>>
    [] a.ok /\ a.do = "save" /\ a.change.field = "tray" -> <<Command("tray", a.change, None)>>
    [] OTHER -> <<>>

(* Mutant: the shell is not told what closing means. *)
Next1Untold(a) ==
  CASE a.ok /\ a.do = "read" -> <<Command("save", a.change, Made(a.config, a.change))>>
    [] a.ok /\ a.do = "dir" -> <<Command("load", a.change, None)>>
    [] OTHER -> <<>>

Next1(a) ==
  CASE a.ok /\ a.do = "read" -> <<Command("save", a.change, Made(a.config, a.change))>>
    [] a.ok /\ a.do = "save" /\ a.change.field = "tray" -> <<Command("tray", a.change, None)>>
    [] a.ok /\ a.do = "dir" -> <<Command("load", a.change, None)>>
    [] OTHER -> <<>>

(* The promise of a command is settled and its handler goes on; after an   *)
(* error it stops.                                                         *)
Settle ==
  /\ answers # <<>>
  /\ LET a == Head(answers) IN
       /\ config' = IF a.ok /\ a.do \in {"load", "save"} THEN a.config ELSE config
       /\ commands' = commands \o Next1(a)
       /\ risky' = IF a.ok \/ a.change = None THEN risky ELSE risky \cup {a.change.field}
  /\ answers' = Tail(answers)
  /\ UNCHANGED <<store, wanted, choices, faults>>

-----------------------------------------------------------------------------
(* The shell                                                               *)

(* read_or_create_config, of a file that is not torn *)
Read == IF file = Missing THEN DefaultConfig(devices + 1) ELSE file
Creates == IF file = Missing THEN devices + 1 ELSE devices

(* What a command leaves in the file, and what it answers *)
Written(command) ==
  CASE command.do = "save" -> command.config
    [] command.do = "dir"  -> [Read EXCEPT !.dir = command.change.value]
    [] OTHER               -> Read
Works(command) == command.do = "save" \/ file # Torn
Writes(command) == command.do \in {"save", "dir"} \/ file = Missing

Run ==
  /\ commands # <<>>
  /\ LET c == Head(commands) IN
       IF c.do = "tray"
       THEN /\ tray' = c.change.value
            /\ answers' = answers
            /\ UNCHANGED <<file, devices>>
       ELSE /\ IF Works(c) THEN file' = Written(c) /\ devices' = (IF c.do = "save" THEN devices ELSE Creates)
               ELSE UNCHANGED <<file, devices>>
            /\ answers' = Append(answers, Answer(c, Works(c), IF Works(c) THEN Written(c) ELSE None))
            /\ tray' = tray
  /\ commands' = Tail(commands)
  /\ UNCHANGED <<config, past, choices, faults>>

Fault == faults < MaxFaults /\ faults' = faults + 1

(* Reading fails, or writing does before or after the file was truncated;  *)
(* or the directory is written and its status cannot be had.               *)
RunFails ==
  /\ Fault
  /\ commands # <<>> /\ Head(commands).do # "tray"
  /\ LET c == Head(commands) IN
       /\ file' \in {file} \cup (IF Writes(c) THEN {Torn} ELSE {})
                           \cup (IF c.do = "dir" /\ Works(c) THEN {Written(c)} ELSE {})
       /\ devices' = IF file' \notin {file, Torn} THEN Creates ELSE devices
       /\ answers' = Append(answers, Answer(c, FALSE, None))
  /\ commands' = Tail(commands)
  /\ UNCHANGED <<tray, config, past, choices>>

(* run: the shell reads the file for its flag before there are pages, and  *)
(* the providers of theme and language load the settings.                  *)
Starts(f) ==
  /\ tray' = IF f \in {Missing, Torn} THEN TRUE ELSE f.tray
  /\ config' = None
  /\ commands' = <<Command("load", None, None), Command("load", None, None)>>
  /\ answers' = <<>>

Crash ==
  /\ Fault
  /\ file' \in {file} \cup (IF commands # <<>> /\ Writes(Head(commands)) /\ Head(commands).do # "tray"
                            THEN {Torn} ELSE {})
  /\ Starts(file')
  /\ risky' = risky \cup Pending
  /\ UNCHANGED <<devices, wanted, choices>>

-----------------------------------------------------------------------------
(* The first start: the shell has made the file, or could not write it. *)
Init ==
  /\ file \in {Missing, DefaultConfig(1)}
  /\ devices = IF file = Missing THEN 0 ELSE 1
  /\ tray = TRUE
  /\ config = None
  /\ commands = <<Command("load", None, None), Command("load", None, None)>>
  /\ answers = <<>>
  /\ wanted = [f \in Field |-> DefaultConfig(1)[f]]
  /\ risky = {}
  /\ choices = 0 /\ faults = 0

Next ==
  \/ \E t \in Theme : Choose("theme", t)
  \/ \E b \in BOOLEAN : Choose("tray", b)
  \/ \E c \in Conversation : TogglePinned(c)
  \/ \E d \in Dir : ChooseDirectory(d)
  \/ Load \/ Settle \/ Run \/ RunFails \/ Crash

Spec == Init /\ [][Next]_vars

-----------------------------------------------------------------------------
(* Once every command is answered the pages show what is on file, however  *)
(* the commands overlapped; only a change of the directory that is written *)
(* and then reported as failed goes unseen.  (settings.store.ts: load,     *)
(* updateConfig; SettingsPage: load after set_download_directory.)         *)
QuietCopyIsTheFile ==
  Quiet /\ Readable /\ config # None =>
    /\ [config EXCEPT !.dir = file.dir] = file
    /\ config.dir = file.dir \/ "dir" \in risky

(* The last choice of each preference is on file, and the shell closes as  *)
(* the file says, unless another choice was made before this one was       *)
(* answered (updateConfig sends the other fields as they were), or it      *)
(* failed, or the program crashed.                                         *)
OnlyHurriedChoicesAreLost ==
  Quiet /\ Readable =>
    \A f \in Field \ risky : file[f] = wanted[f] /\ (f = "tray" => tray = file.tray)

=============================================================================
