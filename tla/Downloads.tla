------------------------------- MODULE Downloads -------------------------------
(***************************************************************************)
(* Downloaded files: their place on the disk of the client and the rows of *)
(* local_files that say where they are.                                    *)
(*                                                                         *)
(* A download fetches the file from the server, has the shell write it to  *)
(* the download directory under a free name, and then has it recorded.     *)
(* The shell runs its commands one after the other.  A menu offers no      *)
(* second download of a file while one is shown as running; but a page     *)
(* that is left forgets what runs, and what runs goes on.                  *)
(***************************************************************************)
EXTENDS Naturals, FiniteSets, FiniteSetsExt

CONSTANTS
  Download,    \* the downloads the user starts
  File,        \* files of the server
  Name,        \* Name[f]: the name that f gets on disk (sanitize_download_file_name)
  Dir,         \* download directories
  Attempts,    \* names that are tried: 10 000 in the code
  None,
  MaxCrashes   \* bound: crashes of the client

VARIABLES
  at,        \* where a download stands
  file,      \* the file of a download
  path,      \* where it was saved
  disk,      \* what the download directories hold, by path
  records,   \* the rows of local_files
  states,    \* downloadStates of the page
  dir,       \* the download directory in force
  crashes

vars == <<at, file, path, disk, records, states, dir, crashes>>

Path(d, f, n) == <<d, Name[f], n>>

(* Mutant: the first name is taken as it is. *)
FreeOrNot(f) == 0 .. Attempts - 1

(* The names that are not taken *)
Free(f) == {n \in 0 .. Attempts - 1 : Path(dir, f, n) \notin DOMAIN disk}

Stored(f, whole) == [file |-> f, whole |-> whole]
Put(p, content) == [q \in DOMAIN disk \cup {p} |-> IF q = p THEN content ELSE disk[q]]
Goes(d, phase) == at' = [at EXCEPT ![d] = phase]

-----------------------------------------------------------------------------
Start(d, f) ==
  /\ at[d] = "none"
  /\ states[f] # "downloading"
  /\ Goes(d, "fetching")
  /\ file' = [file EXCEPT ![d] = f]
  /\ states' = [states EXCEPT ![f] = "downloading"]
  /\ UNCHANGED <<path, disk, records, dir, crashes>>

Fetched(d) ==
  /\ at[d] = "fetching"
  /\ Goes(d, "saving")
  /\ UNCHANGED <<file, path, disk, records, states, dir, crashes>>

(* save_downloaded_file: the first name that is not taken *)
Save(d) ==
  LET f == file[d]
      p == Path(dir, f, Min(Free(f))) IN
    /\ at[d] = "saving"
    /\ Free(f) # {}
    /\ Goes(d, "saved")
    /\ path' = [path EXCEPT ![d] = p]
    /\ disk' = Put(p, Stored(f, TRUE))
    /\ UNCHANGED <<file, records, states, dir, crashes>>

(* upsert_local_file_record: one row for a file, the last download's *)
Record(d) ==
  /\ at[d] = "saved"
  /\ Goes(d, "done")
  /\ records' = {r \in records : r.file # file[d]} \cup {[file |-> file[d], path |-> path[d]]}
  /\ states' = [states EXCEPT ![file[d]] = "none"]
  /\ UNCHANGED <<file, path, disk, dir, crashes>>

(* Any step may fail: the fetch, the directory, the names, the write after *)
(* the file was made (it stays as far as it was written), the row.         *)
Fail(d) ==
  /\ at[d] \in {"fetching", "saving", "saved"}
  /\ Goes(d, "done")
  /\ disk' \in {disk} \cup (IF at[d] = "saving" /\ Free(file[d]) # {}
                            THEN {Put(Path(dir, file[d], Min(Free(file[d]))), Stored(file[d], FALSE))}
                            ELSE {})
  /\ states' = [states EXCEPT ![file[d]] = "failed"]
  /\ UNCHANGED <<file, path, records, dir, crashes>>

ChangeDirectory(d) ==
  /\ d # dir
  /\ dir' = d
  /\ UNCHANGED <<at, file, path, disk, records, states, crashes>>

(* The page is opened anew; its state is fresh. *)
Reopen ==
  /\ states' = [f \in File |-> "none"]
  /\ UNCHANGED <<at, file, path, disk, records, dir, crashes>>

(* The client stops and starts again, perhaps while a file is written. *)
Crash ==
  /\ crashes < MaxCrashes
  /\ crashes' = crashes + 1
  /\ at' = [d \in Download |-> IF at[d] = "none" THEN "none" ELSE "done"]
  /\ disk' \in {disk} \cup {Put(Path(dir, file[d], Min(Free(file[d]))), Stored(file[d], FALSE)) :
                              d \in {e \in Download : at[e] = "saving" /\ Free(file[e]) # {}}}
  /\ states' = [f \in File |-> "none"]
  /\ UNCHANGED <<file, path, records, dir>>

-----------------------------------------------------------------------------
Init ==
  /\ at = [d \in Download |-> "none"]
  /\ file = [d \in Download |-> None]
  /\ path = [d \in Download |-> None]
  /\ disk = [p \in {} |-> None]
  /\ records = {}
  /\ states = [f \in File |-> "none"]
  /\ dir \in Dir
  /\ crashes = 0

Next ==
  \/ \E d \in Download : \/ \E f \in File : Start(d, f)
                         \/ Fetched(d) \/ Save(d) \/ Record(d) \/ Fail(d)
  \/ \E d \in Dir : ChangeDirectory(d)
  \/ Reopen \/ Crash

Spec == Init /\ [][Next]_vars

-----------------------------------------------------------------------------
(* Where local_files says that a file is, there is that file, complete:    *)
(* whatever other downloads of the same name, or of the same file, ran     *)
(* beside its own, and whatever failed.  (save_downloaded_file_to_directory*)
(* creates new files only; the row is written after the file.)             *)
RecordedIsThere ==
  \A r \in records : r.path \in DOMAIN disk /\ disk[r.path] = Stored(r.file, TRUE)
=============================================================================
