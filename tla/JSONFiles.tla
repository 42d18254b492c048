------------------------------ MODULE JSONFiles ------------------------------
(***************************************************************************)
(* Objects kept in files, one JSON document each: what                     *)
(* pkg/filepath/jsonfile_rest.go and pkg/store/file/util.go make of the    *)
(* file system.  os.WriteFile is two system calls, one that truncates the  *)
(* file and one that fills it, and nothing locks a file.                   *)
(***************************************************************************)
CONSTANTS
  Notifier,   \* the goroutines that write
  Key, Value, \* an object has one value
  Absent,     \* there is no file
  Empty,      \* a file that is truncated, or not written to its end
  Mixed       \* a document with the tail of a longer one behind it

ASSUME JSONFilesAssumption ==
  /\ Absent # Empty /\ Absent # Mixed /\ Empty # Mixed
  /\ {Absent, Empty, Mixed} \cap Value = {}

VARIABLES
  file,       \* the content under each name
  linked      \* <<n, k>>: n has the file opened that k names now

files == <<file, linked>>

FilesTypeOK ==
  /\ file \in [Key -> Value \cup {Absent, Empty, Mixed}]
  /\ linked \subseteq Notifier \X Key

FilesInit ==
  /\ file = [k \in Key |-> Absent]
  /\ linked = {}

Exists(k)  == file[k] # Absent
Decodes(k) == file[k] \in Value

\* Mutant: without O_TRUNC.
KeepContent(n, k) ==
  /\ file' = [file EXCEPT ![k] = IF @ = Absent THEN Empty ELSE @]
  /\ linked' = linked \cup {<<n, k>>}

\* O_CREATE and O_TRUNC
OpenFile(n, k) ==
  /\ file' = [file EXCEPT ![k] = Empty]
  /\ linked' = linked \cup {<<n, k>>}

\* Mutant: the file is not closed.
KeepOpen(n, k, v) ==
  /\ UNCHANGED linked
  /\ file' = IF <<n, k>> \in linked THEN [file EXCEPT ![k] = v] ELSE file

\* A document over that of another writer leaves the end of the longer one.
\* One that goes to a file that was removed meanwhile is lost.
FillFile(n, k, v) ==
  /\ linked' = linked \ {<<n, k>>}
  /\ \/ <<n, k>> \notin linked /\ UNCHANGED file
     \/ /\ <<n, k>> \in linked
        /\ \E content \in IF file[k] \in {Empty, v} THEN {v} ELSE {v, Mixed} :
             file' = [file EXCEPT ![k] = content]

\* Writers that have the file opened go on writing to a file without name.
RemoveFile(k) ==
  /\ file' = [file EXCEPT ![k] = Absent]
  /\ linked' = {w \in linked : w[2] # k}

\* The process ends: the files stay as they are.
CloseFiles == linked' = {} /\ UNCHANGED file
=============================================================================
