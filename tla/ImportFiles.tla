---------------------------- MODULE ImportFiles ----------------------------
(***************************************************************************)
(* The files of the daily import, which the module Pipeline takes for      *)
(* given: the generator that writes them in discover, the directory of a   *)
(* host and a day they are written to, their hashes, and the report of a   *)
(* day (src/src/reporting).  Imports are jobs of one tenant with the same  *)
(* seed; each runs in a process of its own, and a run that is cut off is   *)
(* continued by another process, perhaps on another host.                  *)
(***************************************************************************)
EXTENDS Integers, FiniteSets

CONSTANTS
  Imports,    \* jobs of type daily_import
  Hosts,      \* file systems: containers do not share theirs
  Variants,   \* hash seeds of processes (PYTHONHASHSEED is not set)
  FileCount,  \* n_files
  Flawed,     \* files with a row that repeats an id (inject_errors)
  Days,       \* bound on the calendar: 1..Days
  MaxMoves,   \* bound on the runs that are cut off
  Worlds      \* the sets of {"move", "elsewhere", "overlap", "midnight", "db_error"}
              \* to choose from

ASSUME ImportAssumption ==
  /\ FileCount \in Nat \ {0} /\ Flawed \subseteq 1..FileCount
  /\ Days \in Nat \ {0} /\ MaxMoves \in Nat
  /\ Variants \cap {"plain", "cut", "missing"} = {}

VARIABLES
  today,
  disk,     \* per host and day: the text of each file of the directory
  marks,    \* SourceFile rows: a row is a hash, that is, a file and its text
  report,   \* per day: the records of the artifact
  run,      \* per import: the state of its execution
  moves,    \* history: runs cut off so far
  faults    \* what may happen in this behaviour: chosen at its start, and kept

vars == <<today, disk, marks, report, run, moves, faults>>

Files == 1..FileCount
Texts == Variants \cup {"plain", "cut", "missing"}
Pc    == {"idle", "open", "write", "discover", "ingest", "save", "archive", "returned",
          "failed"}

\* What is in a file, or what it is known by.
Content == [file : Files, text : Texts]

\* at counts the files the stage is through with, hash is what has been computed of
\* the next one ("missing": nothing), files the paths discover found to be new; day
\* is the one in their paths.
RunState == [pc : Pc, host : Hosts, variant : Variants, day : 1..Days, at : 0..(FileCount - 1),
             hash : Texts, files : SUBSET Files, records : SUBSET Content]

Init ==
  /\ today = 1 /\ faults \in Worlds
  /\ disk = [h \in Hosts |-> [d \in 1..Days |-> [f \in Files |-> "missing"]]]
  /\ marks = {} /\ moves = 0
  /\ report = [d \in 1..Days |-> {}]
  /\ run \in [Imports -> [pc : {"idle"}, host : Hosts, variant : Variants, day : {1},
                          at : {0}, hash : {"missing"}, files : {{}}, records : {{}}]]
  /\ "elsewhere" \in faults \/ \A j, k \in Imports : run[j].host = run[k].host

-----------------------------------------------------------------------------
At(j, pc)     == run[j].pc = pc
Become(j, st) == run' = [run EXCEPT ![j] = st]
Running(j)    == run[j].pc \notin {"idle", "returned", "failed"}

File(j)   == run[j].at + 1
OnDisk(j) == disk[run[j].host][run[j].day][File(j)]
Overwrite(j, text) ==
  disk' = [disk EXCEPT ![run[j].host][run[j].day][File(j)] = text]

\* Mutant: one file too many.
ThroughOneMore(st, next) ==
  IF st.at < FileCount THEN [st EXCEPT !.at = @ + 1, !.hash = "missing"]
                       ELSE [st EXCEPT !.pc = next, !.at = 0, !.hash = "missing"]

\* The stage is through with its next file, and with that perhaps complete.
Through(st, next) ==
  IF st.at + 1 < FileCount THEN [st EXCEPT !.at = @ + 1, !.hash = "missing"]
                           ELSE [st EXCEPT !.pc = next, !.at = 0, !.hash = "missing"]

Start(j) ==
  /\ At(j, "idle")
  /\ "overlap" \in faults \/ \A k \in Imports : ~Running(k)
  /\ Become(j, [run[j] EXCEPT !.pc = "open", !.day = today])
  /\ UNCHANGED <<today, disk, marks, report, moves>>

-----------------------------------------------------------------------------
(* discover *)

\* generate_csv_files opens each file with "w", whatever is in it ...
OpenFile(j) ==
  /\ At(j, "open")
  /\ Overwrite(j, "cut")
  /\ Become(j, [run[j] EXCEPT !.pc = "write"])
  /\ UNCHANGED <<today, marks, report, moves>>

\* ... and writes the rows.  The repeated id is the first element of a set of strings.
Text(j, f) == IF f \in Flawed THEN run[j].variant ELSE "plain"

WriteFile(j) ==
  /\ At(j, "write")
  /\ Overwrite(j, Text(j, File(j)))
  /\ Become(j, Through([run[j] EXCEPT !.pc = "open"], "discover"))
  /\ UNCHANGED <<today, marks, report, moves>>

\* Mutant: the hash is that of the file as this process would generate it.
HashAnew(j) ==
  /\ run[j].pc \in {"discover", "archive"} /\ run[j].hash = "missing"
  /\ OnDisk(j) # "missing"
  /\ At(j, "archive") => File(j) \in run[j].files
  /\ Become(j, [run[j] EXCEPT !.hash = Text(j, File(j))])
  /\ UNCHANGED <<today, disk, marks, report, moves>>

\* compute_file_hash, of what is on disk by then.
HashFile(j) ==
  /\ run[j].pc \in {"discover", "archive"} /\ run[j].hash = "missing"
  /\ OnDisk(j) # "missing"
  /\ At(j, "archive") => File(j) \in run[j].files
  /\ Become(j, [run[j] EXCEPT !.hash = OnDisk(j)])
  /\ UNCHANGED <<today, disk, marks, report, moves>>

Hashed(j) == [file |-> File(j), text |-> run[j].hash]

\* Mutant: the name is looked up, not the hash.
QueryName(j) ==
  /\ At(j, "discover") /\ run[j].hash # "missing"
  /\ LET st == run[j]
     IN Become(j, Through([st EXCEPT !.files =
                             IF \E m \in marks : m.file = File(j) THEN @
                             ELSE @ \cup {File(j)}], "ingest"))
  /\ UNCHANGED <<today, disk, marks, report, moves>>

QueryHash(j) ==
  /\ At(j, "discover") /\ run[j].hash # "missing"
  /\ LET st == run[j]
     IN Become(j, Through([st EXCEPT !.files = IF Hashed(j) \in marks THEN @
                                               ELSE @ \cup {File(j)}], "ingest"))
  /\ UNCHANGED <<today, disk, marks, report, moves>>

-----------------------------------------------------------------------------
(* ingest *)

\* Mutant: a file that is not there is passed over, as archive does.
ReadIfThere(j) ==
  /\ At(j, "ingest")
  /\ LET st == run[j]
     IN Become(j,
          IF File(j) \notin st.files \/ OnDisk(j) = "missing" THEN Through(st, "save")
          ELSE Through([st EXCEPT !.records = @ \cup
                         {[file |-> File(j), text |-> OnDisk(j)]}], "save"))
  /\ UNCHANGED <<today, disk, marks, report, moves>>

\* A file that is not there raises; one that discover left out is not looked at.
ReadFile(j) ==
  /\ At(j, "ingest")
  /\ LET st == run[j]
     IN Become(j,
          IF File(j) \notin st.files THEN Through(st, "save")
          ELSE IF OnDisk(j) = "missing" THEN [st EXCEPT !.pc = "failed"]
          ELSE Through([st EXCEPT !.records = @ \cup
                         {[file |-> File(j), text |-> OnDisk(j)]}], "save"))
  /\ UNCHANGED <<today, disk, marks, report, moves>>

-----------------------------------------------------------------------------
(* archive *)

\* Mutant: a report that is there is left alone.
SaveReportOnce(j) ==
  /\ At(j, "save")
  /\ report' = [report EXCEPT ![today] = IF @ = {} THEN run[j].records ELSE @]
  /\ Become(j, [run[j] EXCEPT !.pc = "archive"])
  /\ UNCHANGED <<today, disk, marks, moves>>

\* The artifact is named for the day it is saved, and replaces the one there is.
SaveReport(j) ==
  /\ At(j, "save")
  /\ report' = [report EXCEPT ![today] = run[j].records]
  /\ Become(j, [run[j] EXCEPT !.pc = "archive"])
  /\ UNCHANGED <<today, disk, marks, moves>>

\* Mutant: archive returns from within the loop.
MarkFirstFile(j) ==
  /\ At(j, "archive") /\ run[j].hash # "missing"
  /\ marks' = marks \cup {Hashed(j)}
  /\ Become(j, [run[j] EXCEPT !.pc = "returned", !.at = 0, !.hash = "missing"])
  /\ UNCHANGED <<today, disk, report, moves>>

\* get_or_create of the hash.
MarkFile(j) ==
  /\ At(j, "archive") /\ run[j].hash # "missing"
  /\ marks' = marks \cup {Hashed(j)}
  /\ Become(j, Through(run[j], "returned"))
  /\ UNCHANGED <<today, disk, report, moves>>

\* An error in get_or_create is logged, and the file is not marked.
MarkFails(j) ==
  /\ "db_error" \in faults
  /\ At(j, "archive") /\ run[j].hash # "missing"
  /\ Become(j, Through(run[j], "returned"))
  /\ UNCHANGED <<today, disk, marks, report, moves>>

\* A file that is not there is passed over, silently.
PassOver(j) ==
  /\ At(j, "archive") /\ run[j].hash = "missing"
  /\ File(j) \notin run[j].files \/ OnDisk(j) = "missing"
  /\ Become(j, Through(run[j], "returned"))
  /\ UNCHANGED <<today, disk, marks, report, moves>>

-----------------------------------------------------------------------------
\* A run is cut off, and another process continues it from what was recorded: the
\* files found if discover was complete, the records read, the stage it was in.
Move(j) ==
  /\ "move" \in faults /\ Running(j) /\ moves < MaxMoves
  /\ moves' = moves + 1
  /\ \E h \in Hosts, v \in Variants :
       /\ "elsewhere" \in faults \/ h = run[j].host
       /\ LET st == [run[j] EXCEPT !.host = h, !.variant = v, !.hash = "missing"]
          IN Become(j, CASE st.pc = "ingest" -> st
                         [] st.pc \in {"save", "archive"} ->
                              [st EXCEPT !.pc = "save", !.at = 0]
                         [] OTHER -> [st EXCEPT !.pc = "open", !.at = 0, !.files = {},
                                                !.day = today])
  /\ UNCHANGED <<today, disk, marks, report>>

Midnight ==
  /\ "midnight" \in faults /\ today < Days
  /\ today' = today + 1
  /\ UNCHANGED <<disk, marks, report, run, moves>>

Work(j) ==
  \/ OpenFile(j) \/ WriteFile(j) \/ HashFile(j) \/ QueryHash(j)
  \/ ReadFile(j) \/ SaveReport(j) \/ MarkFile(j) \/ MarkFails(j) \/ PassOver(j)

Next ==
  /\ Midnight \/ \E j \in Imports : Start(j) \/ Work(j) \/ Move(j)
  /\ UNCHANGED faults

Spec == Init /\ [][Next]_vars

-----------------------------------------------------------------------------
TypeOK ==
  /\ today \in 1..Days
  /\ disk \in [Hosts -> [1..Days -> [Files -> Texts]]]
  /\ marks \subseteq Content /\ report \in [1..Days -> SUBSET Content]
  /\ run \in [Imports -> RunState] /\ moves \in 0..MaxMoves
  /\ faults \in Worlds

\* One host and one import at a time; and a database, besides, that answers.
InTurn  == faults \subseteq {"move", "midnight", "db_error"}
Orderly == InTurn /\ "db_error" \notin faults

\* What counts as processed has been read, as it is, by some import: nobody changes a
\* file between its reading and its hashing in archive (daily_import.py 48-65, 73-77,
\* 196-205; csv_data.py 58-63).
MarkedWasRead ==
  InTurn => \A m \in marks : \E j \in Imports : m \in run[j].records

\* No two imports that completed have read the same content: what the first has marked
\* the second does not find new (daily_import.py 57-65, 199-203).
ContentImportedOnce ==
  Orderly => \A j, k \in Imports : At(j, "returned") /\ At(k, "returned") /\ j # k =>
    run[j].records \cap run[k].records = {}

\* A file counts as processed only when the report that shows its records is on disk,
\* whatever is cut off in between (daily_import.py 188-203).
MarkedIsReported ==
  [][InTurn => \A m \in marks' \ marks : \E d \in 1..Days : m \in report[d]]_vars

\* What a file of the directory holds.
Copy(j, f) == [file |-> f, text |-> disk[run[j].host][run[j].day][f]]

\* An import that is complete leaves no file of its directory out: what is in it counts
\* as processed by then, or, where the database failed to mark it, is on the report of
\* the import and will be new to the next one (daily_import.py 57-65, 196-206).
NothingLeftOut ==
  [][InTurn => \A j \in Imports : At(j, "returned")' /\ ~At(j, "returned") =>
       \A f \in Files : \/ Copy(j, f) \in marks'
                        \/ "db_error" \in faults /\ Copy(j, f) \in run[j].records]_vars

\* Whatever happens, an import goes on to its report only when it has read each of the
\* files it found new, once, whatever is in it by then: one that is resumed in the middle,
\* and on a host without the files, fails and does not report without them
\* (daily_import.py 72-77).
EveryFileRead ==
  \A j \in Imports : run[j].pc \in {"save", "archive", "returned"} =>
    /\ {m.file : m \in run[j].records} = run[j].files
    /\ \A m, n \in run[j].records : m.file = n.file => m = n

\* A second import of files that were sent again unchanged ingests nothing.
FileImportedOnce ==
  \A j, k \in Imports : At(j, "returned") /\ At(k, "returned") /\ j # k =>
    \A f \in Files : ~(f \in run[j].files /\ f \in run[k].files)

\* A resumed ingest goes on with the files that are left.
FilesAreFound == \A j \in Imports : ~At(j, "failed")

\* A report holds what was read from the directory of its day.
ReportOfItsDay ==
  \A d \in 1..Days : report[d] # {} => \E j \in Imports :
    run[j].day = d /\ report[d] = run[j].records
=============================================================================
