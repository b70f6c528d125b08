---------------------------- MODULE ImportSafety ----------------------------
(***************************************************************************)
(* If imports run one at a time on one host, the daily import marks no     *)
(* file it has not read or not reported, and leaves none out; if its marks *)
(* do not fail either, no two imports read the same content: whatever is   *)
(* cut off and goes on in another process, whatever texts the generators   *)
(* of different processes write, and whenever midnight comes.  And with no *)
(* such condition none reports before it has read every file it found new. *)
(***************************************************************************)
EXTENDS ImportFiles, TLAPS

-----------------------------------------------------------------------------
(* Types.                                                                  *)

\* A stage goes on to its next file, or to the first one of the next stage.
LEMMA ThroughFields ==
  ASSUME NEW st \in RunState, NEW next \in Pc
  PROVE  LET nx == Through(st, next)
         IN /\ nx \in RunState
            /\ nx.host = st.host /\ nx.day = st.day /\ nx.variant = st.variant
            /\ nx.files = st.files /\ nx.records = st.records /\ nx.hash = "missing"
            /\ \/ st.at + 1 < FileCount /\ nx.at = st.at + 1 /\ nx.pc = st.pc
               \/ st.at + 1 = FileCount /\ nx.at = 0 /\ nx.pc = next
<1>0. st.at \in 0..(FileCount - 1) /\ FileCount \in Nat \ {0}
  BY ImportAssumption DEF RunState
<1>1. CASE st.at + 1 < FileCount
  <2>1. st.at + 1 \in 0..(FileCount - 1)
    BY <1>0, <1>1
  <2>2. Through(st, next) = [st EXCEPT !.at = st.at + 1, !.hash = "missing"]
    BY <1>1 DEF Through
  <2> QED
    BY <1>1, <2>1, <2>2 DEF RunState, Texts
<1>2. CASE ~(st.at + 1 < FileCount)
  <2>1. 0 \in 0..(FileCount - 1) /\ st.at + 1 = FileCount
    BY <1>0, <1>2
  <2>2. Through(st, next) = [st EXCEPT !.pc = next, !.at = 0, !.hash = "missing"]
    BY <1>2 DEF Through
  <2> QED
    BY <2>1, <2>2 DEF RunState, Texts
<1> QED
  BY <1>1, <1>2

LEMMA Here ==
  ASSUME TypeOK, NEW j \in Imports
  PROVE  /\ run[j] \in RunState /\ File(j) \in Files /\ File(j) = run[j].at + 1
         /\ run[j].at \in Nat /\ OnDisk(j) \in Texts
         /\ \A f : Text(j, f) \in Texts /\ Text(j, f) # "missing"
<1>1. run[j] \in RunState /\ run[j].at \in 0..(FileCount - 1) /\ run[j].variant \in Variants
  BY DEF TypeOK, RunState
<1>2. run[j].at \in Nat /\ File(j) \in Files /\ File(j) = run[j].at + 1
  BY <1>1, ImportAssumption DEF File, Files
<1>3. OnDisk(j) \in Texts
  <2>1. disk[run[j].host] \in [1..Days -> [Files -> Texts]] /\ run[j].day \in 1..Days
    BY <1>1 DEF TypeOK, RunState
  <2>2. disk[run[j].host][run[j].day] \in [Files -> Texts]
    BY <2>1
  <2> QED
    BY <1>2, <2>2 DEF OnDisk
<1>4. \A f : Text(j, f) \in Texts /\ Text(j, f) # "missing"
  BY <1>1, ImportAssumption DEF Text, Texts
<1> QED
  BY <1>1, <1>2, <1>3, <1>4

LEMMA BecomeType ==
  ASSUME TypeOK, NEW j, NEW st \in RunState, Become(j, st)
  PROVE  run' \in [Imports -> RunState]
BY DEF TypeOK, Become

LEMMA OverwriteType ==
  ASSUME TypeOK, NEW j \in Imports, NEW text \in Texts, Overwrite(j, text)
  PROVE  disk' \in [Hosts -> [1..Days -> [Files -> Texts]]]
<1>1. run[j].host \in Hosts /\ run[j].day \in 1..Days /\ File(j) \in Files
  BY Here DEF RunState
<1> DEFINE dir == disk[run[j].host][run[j].day]
           dirs == disk[run[j].host]
<1>2. dirs \in [1..Days -> [Files -> Texts]] /\ dir \in [Files -> Texts]
  BY <1>1 DEF TypeOK
<1>3. [dir EXCEPT ![File(j)] = text] \in [Files -> Texts]
  BY <1>2
<1>4. [dirs EXCEPT ![run[j].day] = [dir EXCEPT ![File(j)] = text]] \in [1..Days -> [Files -> Texts]]
  BY <1>2, <1>3
<1>5. disk' = [disk EXCEPT ![run[j].host] =
                 [dirs EXCEPT ![run[j].day] = [dir EXCEPT ![File(j)] = text]]]
  BY DEF Overwrite
<1> HIDE DEF dir, dirs
<1> QED
  BY <1>4, <1>5 DEF TypeOK

LEMMA InitType == Init => TypeOK
<1> SUFFICES ASSUME Init PROVE TypeOK
  OBVIOUS
<1>1. 1 \in 1..Days /\ 0 \in 0..(FileCount - 1) /\ 0 \in 0..MaxMoves
  BY ImportAssumption
<1>2. [f \in Files |-> "missing"] \in [Files -> Texts]
  BY DEF Texts
<1>3. [d \in 1..Days |-> [f \in Files |-> "missing"]] \in [1..Days -> [Files -> Texts]]
  BY <1>2
<1>4. disk \in [Hosts -> [1..Days -> [Files -> Texts]]]
  BY <1>3 DEF Init
<1>5. run \in [Imports -> RunState]
  BY <1>1 DEF Init, RunState, Pc, Texts
<1>6. report \in [1..Days -> SUBSET Content]
  BY DEF Init
<1> QED
  BY <1>1, <1>4, <1>5, <1>6 DEF Init, TypeOK

LEMMA NextType == TypeOK /\ [Next]_vars => TypeOK'
<1> SUFFICES ASSUME TypeOK, [Next]_vars PROVE TypeOK'
  OBVIOUS
<1>f. faults' = faults
  BY DEF Next, vars
<1>t. /\ today \in 1..Days /\ marks \subseteq Content /\ report \in [1..Days -> SUBSET Content]
      /\ disk \in [Hosts -> [1..Days -> [Files -> Texts]]]
      /\ run \in [Imports -> RunState] /\ moves \in 0..MaxMoves /\ faults \in Worlds
  BY DEF TypeOK
<1>1. ASSUME NEW j \in Imports, Start(j) PROVE TypeOK'
  <2>1. [run[j] EXCEPT !.pc = "open", !.day = today] \in RunState
    BY <1>t, Here DEF RunState, Pc
  <2>2. run' \in [Imports -> RunState]
    BY <1>1, <2>1, BecomeType DEF Start
  <2> QED
    BY <1>1, <1>f, <1>t, <2>2 DEF Start, TypeOK
<1>2. ASSUME NEW j \in Imports, OpenFile(j) PROVE TypeOK'
  <2>1. [run[j] EXCEPT !.pc = "write"] \in RunState /\ "cut" \in Texts
    BY Here DEF RunState, Pc, Texts
  <2>2. run' \in [Imports -> RunState]
    BY <1>2, <2>1, BecomeType DEF OpenFile
  <2>3. disk' \in [Hosts -> [1..Days -> [Files -> Texts]]]
    BY <1>2, <2>1, OverwriteType DEF OpenFile
  <2> QED
    BY <1>2, <1>f, <1>t, <2>2, <2>3 DEF OpenFile, TypeOK
<1>3. ASSUME NEW j \in Imports, WriteFile(j) PROVE TypeOK'
  <2>1. [run[j] EXCEPT !.pc = "open"] \in RunState /\ "discover" \in Pc
    BY Here DEF RunState, Pc
  <2>2. run' \in [Imports -> RunState]
    BY <1>3, <2>1, ThroughFields, BecomeType DEF WriteFile
  <2>3. disk' \in [Hosts -> [1..Days -> [Files -> Texts]]]
    BY <1>3, Here, OverwriteType DEF WriteFile
  <2> QED
    BY <1>3, <1>f, <1>t, <2>2, <2>3 DEF WriteFile, TypeOK
<1>4. ASSUME NEW j \in Imports, HashFile(j) PROVE TypeOK'
  <2>1. [run[j] EXCEPT !.hash = OnDisk(j)] \in RunState
    BY Here DEF RunState
  <2>2. run' \in [Imports -> RunState]
    BY <1>4, <2>1, BecomeType DEF HashFile
  <2> QED
    BY <1>4, <1>f, <1>t, <2>2 DEF HashFile, TypeOK
<1>5. ASSUME NEW j \in Imports, QueryHash(j) PROVE TypeOK'
  <2> DEFINE fs == IF Hashed(j) \in marks THEN run[j].files ELSE run[j].files \cup {File(j)}
  <2>1. fs \in SUBSET Files
    BY Here DEF RunState
  <2>2. [run[j] EXCEPT !.files = fs] \in RunState /\ "ingest" \in Pc
    BY <2>1, Here DEF RunState, Pc
  <2>3. Become(j, Through([run[j] EXCEPT !.files = fs], "ingest"))
    BY <1>5 DEF QueryHash
  <2> HIDE DEF fs
  <2>4. run' \in [Imports -> RunState]
    BY <2>2, <2>3, ThroughFields, BecomeType
  <2> QED
    BY <1>5, <1>f, <1>t, <2>4 DEF QueryHash, TypeOK
<1>6. ASSUME NEW j \in Imports, ReadFile(j) PROVE TypeOK'
  <2> DEFINE rs == run[j].records \cup {[file |-> File(j), text |-> OnDisk(j)]}
  <2>1. rs \in SUBSET Content
    BY Here DEF RunState, Content
  <2>2. /\ [run[j] EXCEPT !.records = rs] \in RunState /\ run[j] \in RunState
        /\ [run[j] EXCEPT !.pc = "failed"] \in RunState /\ "save" \in Pc
    BY <2>1, Here DEF RunState, Pc
  <2>3. \/ Become(j, Through(run[j], "save")) \/ Become(j, [run[j] EXCEPT !.pc = "failed"])
        \/ Become(j, Through([run[j] EXCEPT !.records = rs], "save"))
    BY <1>6 DEF ReadFile
  <2> HIDE DEF rs
  <2>4. run' \in [Imports -> RunState]
    BY <2>2, <2>3, ThroughFields, BecomeType
  <2> QED
    BY <1>6, <1>f, <1>t, <2>4 DEF ReadFile, TypeOK
<1>7. ASSUME NEW j \in Imports, SaveReport(j) PROVE TypeOK'
  <2>1. [run[j] EXCEPT !.pc = "archive"] \in RunState /\ run[j].records \in SUBSET Content
    BY Here DEF RunState, Pc
  <2>2. run' \in [Imports -> RunState]
    BY <1>7, <2>1, BecomeType DEF SaveReport
  <2>3. report' \in [1..Days -> SUBSET Content]
    BY <1>7, <1>t, <2>1 DEF SaveReport
  <2> QED
    BY <1>7, <1>f, <1>t, <2>2, <2>3 DEF SaveReport, TypeOK
<1>8. ASSUME NEW j \in Imports, MarkFile(j) \/ MarkFails(j) \/ PassOver(j) PROVE TypeOK'
  <2>1. run[j] \in RunState /\ "returned" \in Pc /\ Hashed(j) \in Content
    BY Here DEF RunState, Pc, Hashed, Content
  <2>2. run' \in [Imports -> RunState]
    BY <1>8, <2>1, ThroughFields, BecomeType DEF MarkFile, MarkFails, PassOver
  <2>3. marks' \subseteq Content
    BY <1>8, <1>t, <2>1 DEF MarkFile, MarkFails, PassOver
  <2> QED
    BY <1>8, <1>f, <1>t, <2>2, <2>3 DEF MarkFile, MarkFails, PassOver, TypeOK
<1>9. ASSUME NEW j \in Imports, Move(j) PROVE TypeOK'
  <2>1. PICK h \in Hosts, v \in Variants :
          LET st == [run[j] EXCEPT !.host = h, !.variant = v, !.hash = "missing"]
          IN \/ Become(j, st)
             \/ Become(j, [st EXCEPT !.pc = "save", !.at = 0])
             \/ Become(j, [st EXCEPT !.pc = "open", !.at = 0, !.files = {}, !.day = today])
    BY <1>9 DEF Move
  <2> DEFINE st == [run[j] EXCEPT !.host = h, !.variant = v, !.hash = "missing"]
  <2>2. st \in RunState
    BY Here DEF RunState, Texts
  <2>3. /\ [st EXCEPT !.pc = "save", !.at = 0] \in RunState
        /\ [st EXCEPT !.pc = "open", !.at = 0, !.files = {}, !.day = today] \in RunState
    <3>1. 0 \in 0..(FileCount - 1)
      BY ImportAssumption
    <3> QED
      BY <1>t, <2>2, <3>1 DEF RunState, Pc
  <2>4. run' \in [Imports -> RunState]
    BY <2>1, <2>2, <2>3, BecomeType
  <2>5. moves' \in 0..MaxMoves
    BY <1>9, <1>t, ImportAssumption DEF Move
  <2> QED
    BY <1>9, <1>f, <1>t, <2>4, <2>5 DEF Move, TypeOK
<1>10. CASE Midnight
  <2>1. today' \in 1..Days
    BY <1>10, <1>t, ImportAssumption DEF Midnight
  <2> QED
    BY <1>10, <1>f, <1>t, <2>1 DEF Midnight, TypeOK
<1>11. CASE UNCHANGED vars
  BY <1>11 DEF vars, TypeOK
<1> QED
  BY <1>1, <1>2, <1>3, <1>4, <1>5, <1>6, <1>7, <1>8, <1>9, <1>10, <1>11 DEF Next, Work

\* Every variable of the import keeps its type (daily_import.py, storage.py).
THEOREM ImportTypeCorrect == Spec => []TypeOK
BY InitType, NextType, PTL DEF Spec

-----------------------------------------------------------------------------
(* What an import knows.                                                   *)

\* The directory an import works on.
Dir(j) == disk[run[j].host][run[j].day]

\* The database does not fail to mark a file.
Marking == "db_error" \notin faults

\* The files discover wrote are there from then on.
Written(j) ==
  /\ At(j, "idle") => run[j].records = {} /\ run[j].files = {} /\ run[j].at = 0
  /\ run[j].pc \in {"open", "write", "discover"} => run[j].records = {}
  /\ run[j].pc \in {"open", "write"} => run[j].files = {}
  /\ run[j].pc \in {"open", "write"} =>
       \A f \in Files : f <= run[j].at => Dir(j)[f] # "missing"
  /\ At(j, "discover") => \A f \in Files : Dir(j)[f] # "missing"
  /\ At(j, "save") => run[j].at = 0
  /\ ~At(j, "failed")

\* A hash is that of the file as it is.
HashIsOfFile(j) ==
  /\ run[j].hash # "missing" =>
       run[j].pc \in {"discover", "archive"} /\ run[j].hash = OnDisk(j)
  /\ At(j, "archive") /\ run[j].hash # "missing" => File(j) \in run[j].files

\* A file that was found new is there, and, if marks do not fail, nobody else has read
\* what is in it; one that was not found new is marked.
FoundIsNew(j) ==
  /\ run[j].pc \in {"discover", "ingest", "save", "archive"} =>
       \A f \in run[j].files :
         /\ Dir(j)[f] # "missing"
         /\ Marking => \A k \in Imports \ {j} : Copy(j, f) \notin run[k].records
  /\ At(j, "discover") =>
       \A f \in Files : f <= run[j].at => f \in run[j].files \/ Copy(j, f) \in marks
  /\ run[j].pc \in {"ingest", "save", "archive"} =>
       \A f \in Files : f \in run[j].files \/ Copy(j, f) \in marks

\* The records are those of the files found new, as far as ingest has come.
RecordsAreRead(j) ==
  /\ run[j].pc \in {"ingest", "save", "archive"} =>
       \A m \in run[j].records : m.file \in run[j].files /\ m = Copy(j, m.file)
  /\ At(j, "ingest") =>
       \A f \in run[j].files : f <= run[j].at => Copy(j, f) \in run[j].records
  /\ run[j].pc \in {"save", "archive"} =>
       \A f \in run[j].files : Copy(j, f) \in run[j].records

\* The marks follow the report, and an import that is complete has marked what it read,
\* if marks do not fail.
MarksFollow(j) ==
  /\ At(j, "archive") => \E d \in 1..Days : report[d] = run[j].records
  /\ Marking /\ At(j, "archive") =>
       \A f \in run[j].files : f <= run[j].at => Copy(j, f) \in marks
  /\ Marking /\ At(j, "returned") => run[j].records \subseteq marks

Knows(j) ==
  Written(j) /\ HashIsOfFile(j) /\ FoundIsNew(j) /\ RecordsAreRead(j) /\ MarksFollow(j)

OrderInv ==
  /\ \A j, k \in Imports : run[j].host = run[k].host
  /\ \A j, k \in Imports : Running(j) /\ Running(k) => j = k
  /\ \A j \in Imports : Knows(j)
  /\ Marking => \A j, k \in Imports : j # k => run[j].records \cap run[k].records = {}
  /\ \A m \in marks : \E j \in Imports : m \in run[j].records

-----------------------------------------------------------------------------
(* Steps.                                                                  *)

\* The import that takes a step is the only one that runs before and after it; what it
\* adds to its records nobody else has, and what it marks is in its records.
Proper(j) ==
  /\ run'[j].host = run[j].host
  /\ run[j].records \subseteq run'[j].records
  /\ UNCHANGED faults
  /\ Marking => \A m \in run'[j].records \ run[j].records :
       \A k \in Imports \ {j} : m \notin run[k].records
  /\ marks \subseteq marks' /\ marks' \ marks \subseteq run'[j].records

LEMMA OthersKnow ==
  ASSUME NEW k \in Imports, Knows(k), ~Running(k), run'[k] = run[k], marks \subseteq marks',
         UNCHANGED faults
  PROVE  Knows(k)'
<1>1. Written(k)' /\ FoundIsNew(k)' /\ RecordsAreRead(k)'
  BY DEF Knows, Running, Written, FoundIsNew, RecordsAreRead, At
<1>2. HashIsOfFile(k)' /\ MarksFollow(k)'
  BY DEF Knows, Running, HashIsOfFile, MarksFollow, At, Marking
<1> QED
  BY <1>1, <1>2 DEF Knows

LEMMA StepOrdered ==
  ASSUME TypeOK, OrderInv, NEW j \in Imports, NEW nx, Become(j, nx),
         \A k \in Imports \ {j} : ~Running(k), Proper(j), Knows(j)'
  PROVE  OrderInv'
<1>1. run'[j] = nx /\ \A k \in Imports \ {j} : run'[k] = run[k]
  BY DEF Become, TypeOK
<1>2. \A i, k \in Imports : run'[i].host = run'[k].host
  BY <1>1 DEF OrderInv, Proper
<1>3. (\A i, k \in Imports : Running(i) /\ Running(k) => i = k)'
  BY <1>1 DEF Running
<1>4. \A k \in Imports : Knows(k)'
  BY <1>1, OthersKnow DEF OrderInv, Proper
<1>5. Marking' => \A i, k \in Imports : i # k => run'[i].records \cap run'[k].records = {}
  <2>1. Marking' <=> Marking
    BY DEF Proper, Marking
  <2>2. Marking => \A k \in Imports \ {j} : run'[j].records \cap run'[k].records = {}
    BY <1>1 DEF OrderInv, Proper
  <2> QED
    BY <1>1, <2>1, <2>2 DEF OrderInv
<1>6. \A m \in marks' : \E k \in Imports : m \in run'[k].records
  BY <1>1 DEF OrderInv, Proper
<1> QED
  BY <1>2, <1>3, <1>4, <1>5, <1>6 DEF OrderInv

\* What others have read is marked, unless they still run.
LEMMA ReadIsMarked ==
  ASSUME OrderInv, Marking, NEW k \in Imports, ~Running(k)
  PROVE  run[k].records \subseteq marks
BY DEF OrderInv, Knows, Running, Written, MarksFollow, At

LEMMA StartOrdered ==
  ASSUME TypeOK, InTurn, OrderInv, NEW j \in Imports, Start(j), UNCHANGED faults
  PROVE  OrderInv'
<1>1. Become(j, [run[j] EXCEPT !.pc = "open", !.day = today]) /\ UNCHANGED <<disk, marks, report>>
  BY DEF Start
<1>2. \A k \in Imports \ {j} : ~Running(k)
  BY DEF Start, InTurn
<1>3. /\ run'[j].pc = "open" /\ run'[j].host = run[j].host /\ run'[j].files = run[j].files
      /\ run'[j].records = run[j].records /\ run'[j].at = run[j].at
      /\ run'[j].hash = run[j].hash
  BY <1>1, Here DEF Become, TypeOK, RunState
<1>4. /\ run[j].records = {} /\ run[j].files = {} /\ run[j].at = 0 /\ run[j].hash = "missing"
  BY DEF Start, At, OrderInv, Knows, Written, HashIsOfFile
<1>5. \A f \in Files : ~(f <= 0)
  BY DEF Files
<1>6. Knows(j)'
  BY <1>3, <1>4, <1>5
  DEF Knows, Written, HashIsOfFile, FoundIsNew, RecordsAreRead, MarksFollow, At
<1>7. Proper(j)
  BY <1>1, <1>3 DEF Proper
<1> QED
  BY <1>1, <1>2, <1>6, <1>7, StepOrdered

LEMMA AloneRunning ==
  ASSUME OrderInv, NEW j \in Imports, Running(j)
  PROVE  \A k \in Imports \ {j} : ~Running(k)
BY DEF OrderInv

\* A write changes one file of the directory.
LEMMA OverwriteEffect ==
  ASSUME TypeOK, NEW j \in Imports, NEW text, Overwrite(j, text),
         run'[j].host = run[j].host, run'[j].day = run[j].day
  PROVE  /\ Dir(j)'[File(j)] = text
         /\ \A f \in Files \ {File(j)} : Dir(j)'[f] = Dir(j)[f]
<1>1. run[j].host \in Hosts /\ run[j].day \in 1..Days /\ File(j) \in Files
  BY Here DEF RunState
<1> DEFINE dirs == disk[run[j].host]
           dir  == dirs[run[j].day]
           new  == [dir EXCEPT ![File(j)] = text]
<1>2. dirs \in [1..Days -> [Files -> Texts]] /\ dir \in [Files -> Texts]
  BY <1>1 DEF TypeOK
<1>3. disk' = [disk EXCEPT ![run[j].host] = [dirs EXCEPT ![run[j].day] = new]]
  BY DEF Overwrite
<1>4. new[File(j)] = text /\ \A f \in Files \ {File(j)} : new[f] = dir[f]
  BY <1>1, <1>2
<1> HIDE DEF dir, dirs, new
<1>5. disk'[run[j].host] = [dirs EXCEPT ![run[j].day] = new]
  BY <1>1, <1>3 DEF TypeOK
<1>6. disk'[run[j].host][run[j].day] = new
  BY <1>1, <1>2, <1>5
<1>7. Dir(j)' = new /\ Dir(j) = dir
  BY <1>6 DEF Dir, dir, dirs
<1> QED
  BY <1>4, <1>7

LEMMA OpenOrdered ==
  ASSUME TypeOK, OrderInv, NEW j \in Imports, OpenFile(j), UNCHANGED faults
  PROVE  OrderInv'
<1>1. Become(j, [run[j] EXCEPT !.pc = "write"]) /\ Overwrite(j, "cut") /\ UNCHANGED marks
  BY DEF OpenFile
<1>2. /\ run'[j].pc = "write" /\ run'[j].host = run[j].host /\ run'[j].day = run[j].day
      /\ run'[j].files = run[j].files /\ run'[j].records = run[j].records
      /\ run'[j].at = run[j].at /\ run'[j].hash = run[j].hash
  BY <1>1, Here DEF Become, TypeOK, RunState
<1>3. /\ run[j].records = {} /\ run[j].files = {} /\ run[j].hash = "missing"
      /\ \A f \in Files : f <= run[j].at => Dir(j)[f] # "missing"
  BY DEF OpenFile, At, OrderInv, Knows, Written, HashIsOfFile
<1>4. \A f \in Files : f <= run[j].at => Dir(j)'[f] # "missing"
  BY <1>1, <1>2, <1>3, OverwriteEffect
<1>5. Knows(j)'
  BY <1>2, <1>3, <1>4
  DEF Knows, Written, HashIsOfFile, FoundIsNew, RecordsAreRead, MarksFollow, At
<1>6. Proper(j) /\ Running(j)
  BY <1>1, <1>2 DEF Proper, OpenFile, At, Running
<1> QED
  BY <1>1, <1>5, <1>6, AloneRunning, StepOrdered

LEMMA WriteOrdered ==
  ASSUME TypeOK, OrderInv, NEW j \in Imports, WriteFile(j), UNCHANGED faults
  PROVE  OrderInv'
<1> DEFINE st == [run[j] EXCEPT !.pc = "open"]
           nx == Through(st, "discover")
<1>1. Become(j, nx) /\ Overwrite(j, Text(j, File(j))) /\ UNCHANGED marks
  BY DEF WriteFile
<1>2. /\ st \in RunState /\ "discover" \in Pc
      /\ st.pc = "open" /\ st.host = run[j].host /\ st.day = run[j].day /\ st.at = run[j].at
      /\ st.files = run[j].files /\ st.records = run[j].records
  BY Here DEF RunState, Pc
<1> HIDE DEF st
<1>3. run'[j] = nx
  BY <1>1 DEF Become, TypeOK
<1>4. /\ run'[j].host = run[j].host /\ run'[j].day = run[j].day
      /\ run'[j].files = run[j].files /\ run'[j].records = run[j].records
      /\ run'[j].hash = "missing"
      /\ \/ run'[j].at = run[j].at + 1 /\ run'[j].pc = "open"
         \/ run[j].at + 1 = FileCount /\ run'[j].at = 0 /\ run'[j].pc = "discover"
  BY <1>2, <1>3, ThroughFields
<1>5. /\ run[j].records = {} /\ run[j].files = {}
      /\ \A f \in Files : f <= run[j].at => Dir(j)[f] # "missing"
  BY DEF WriteFile, At, OrderInv, Knows, Written
<1>6. \A f \in Files : f <= run[j].at + 1 => Dir(j)'[f] # "missing"
  <2> SUFFICES ASSUME NEW f \in Files, f <= run[j].at + 1 PROVE Dir(j)'[f] # "missing"
    OBVIOUS
  <2>1. CASE f = File(j)
    BY <1>1, <1>4, <2>1, OverwriteEffect, Here
  <2>2. CASE f # File(j)
    <3>1. f <= run[j].at
      BY <2>2, Here DEF Files
    <3> QED
      BY <1>1, <1>4, <1>5, <2>2, <3>1, OverwriteEffect
  <2> QED
    BY <2>1, <2>2
<1>7. \A f \in Files : f <= FileCount
  BY ImportAssumption DEF Files
<1>8. Written(j)'
  BY <1>4, <1>5, <1>6, <1>7 DEF Written, At
<1>9. Knows(j)'
  <2>1. \A f \in Files : ~(f <= 0)
    BY DEF Files
  <2>2. FoundIsNew(j)'
    BY <1>4, <1>5, <2>1 DEF FoundIsNew, At
  <2> QED
    BY <1>4, <1>5, <1>8, <2>2 DEF Knows, HashIsOfFile, RecordsAreRead, MarksFollow, At
<1>10. Proper(j) /\ Running(j)
  BY <1>1, <1>4 DEF Proper, WriteFile, At, Running
<1> QED
  BY <1>1, <1>9, <1>10, AloneRunning, StepOrdered

LEMMA HashOrdered ==
  ASSUME TypeOK, OrderInv, NEW j \in Imports, HashFile(j), UNCHANGED faults
  PROVE  OrderInv'
<1>1. Become(j, [run[j] EXCEPT !.hash = OnDisk(j)]) /\ UNCHANGED <<disk, marks, report>>
  BY DEF HashFile
<1>2. /\ run'[j].pc = run[j].pc /\ run'[j].host = run[j].host /\ run'[j].day = run[j].day
      /\ run'[j].files = run[j].files /\ run'[j].records = run[j].records
      /\ run'[j].at = run[j].at /\ run'[j].hash = OnDisk(j)
      /\ \A k \in Imports \ {j} : run'[k] = run[k]
  BY <1>1, Here DEF Become, TypeOK, RunState
<1>3. Dir(j)' = Dir(j) /\ OnDisk(j)' = OnDisk(j) /\ File(j)' = File(j)
  BY <1>1, <1>2 DEF Dir, OnDisk, File
<1>4. \A f : Copy(j, f)' = Copy(j, f)
  BY <1>1, <1>2 DEF Copy
<1>5. Knows(j)
  BY DEF OrderInv
<1>6. Written(j)' /\ MarksFollow(j)'
  <2>1. Written(j)'
    BY <1>1, <1>2, <1>3, <1>4, <1>5 DEF Knows, Written, At
  <2>2. MarksFollow(j)'
    BY <1>1, <1>2, <1>4, <1>5 DEF Knows, MarksFollow, At, Marking
  <2> QED
    BY <2>1, <2>2
<1>7. HashIsOfFile(j)'
  BY <1>2, <1>3 DEF HashFile, HashIsOfFile, At
<1>8. FoundIsNew(j)' /\ RecordsAreRead(j)'
  <2>1. FoundIsNew(j)'
    BY <1>1, <1>2, <1>3, <1>4, <1>5 DEF Knows, FoundIsNew, At, Marking
  <2>2. RecordsAreRead(j)'
    BY <1>2, <1>4, <1>5 DEF Knows, RecordsAreRead, At
  <2> QED
    BY <2>1, <2>2
<1>9. Proper(j) /\ Running(j)
  BY <1>1, <1>2 DEF Proper, HashFile, At, Running
<1> QED
  BY <1>1, <1>6, <1>7, <1>8, <1>9, AloneRunning, StepOrdered DEF Knows

LEMMA QueryOrdered ==
  ASSUME TypeOK, OrderInv, NEW j \in Imports, QueryHash(j), UNCHANGED faults
  PROVE  OrderInv'
<1> DEFINE fs == IF Hashed(j) \in marks THEN run[j].files ELSE run[j].files \cup {File(j)}
           st == [run[j] EXCEPT !.files = fs]
           nx == Through(st, "ingest")
<1>1. Become(j, nx) /\ UNCHANGED <<disk, marks, report>>
  BY DEF QueryHash
<1>2. /\ fs \in SUBSET Files
      /\ \A f \in fs : \/ f \in run[j].files
                       \/ f = File(j) /\ Hashed(j) \notin marks
      /\ run[j].files \subseteq fs
      /\ File(j) \in fs \/ Hashed(j) \in marks
  BY Here DEF RunState
<1> HIDE DEF fs
<1>3. /\ st \in RunState /\ "ingest" \in Pc
      /\ st.pc = "discover" /\ st.host = run[j].host /\ st.day = run[j].day
      /\ st.at = run[j].at /\ st.files = fs /\ st.records = run[j].records
  BY <1>2, Here DEF RunState, Pc, QueryHash, At
<1> HIDE DEF st
<1>4. run'[j] = nx /\ \A k \in Imports \ {j} : run'[k] = run[k]
  BY <1>1 DEF Become, TypeOK
<1>5. /\ run'[j].host = run[j].host /\ run'[j].day = run[j].day
      /\ run'[j].files = fs /\ run'[j].records = run[j].records /\ run'[j].hash = "missing"
      /\ \/ run'[j].pc = "discover" /\ run'[j].at = run[j].at + 1
         \/ run[j].at + 1 = FileCount /\ run'[j].pc = "ingest" /\ run'[j].at = 0
  BY <1>3, <1>4, ThroughFields
<1>6. \A f : Copy(j, f)' = Copy(j, f)
  BY <1>1, <1>5 DEF Copy, Dir
<1>7. /\ run[j].records = {} /\ run[j].hash = OnDisk(j)
      /\ \A f \in Files : Dir(j)[f] # "missing"
      /\ Marking => \A f \in run[j].files :
           \A k \in Imports \ {j} : Copy(j, f) \notin run[k].records
      /\ \A f \in Files : f <= run[j].at => f \in run[j].files \/ Copy(j, f) \in marks
  BY DEF QueryHash, At, OrderInv, Knows, Written, HashIsOfFile, FoundIsNew
<1>8. Hashed(j) = Copy(j, File(j))
  BY <1>7 DEF Hashed, Copy, OnDisk, Dir
<1>9. Running(j) /\ \A k \in Imports \ {j} : ~Running(k)
  BY AloneRunning DEF QueryHash, At, Running
<1>10. FoundIsNew(j)'
  <2>1. Marking => \A k \in Imports \ {j} : run[k].records \subseteq marks
    BY <1>9, ReadIsMarked
  <2>2. Marking => \A f \in fs : \A k \in Imports \ {j} : Copy(j, f) \notin run[k].records
    BY <1>2, <1>7, <1>8, <2>1
  <2>3. \A f \in fs : Dir(j)'[f] # "missing"
    BY <1>1, <1>2, <1>5, <1>7 DEF Dir
  <2>4. \A f \in Files : f <= run[j].at + 1 => f \in fs \/ Copy(j, f) \in marks
    <3>1. \A f \in Files : f <= run[j].at + 1 => f <= run[j].at \/ f = File(j)
      BY Here DEF Files
    <3> QED
      BY <1>2, <1>7, <1>8, <3>1
  <2>5. \A f \in Files : f <= FileCount
    BY ImportAssumption DEF Files
  <2>6. Marking' <=> Marking
    BY DEF Marking
  <2> QED
    BY <1>1, <1>4, <1>5, <1>6, <2>2, <2>3, <2>4, <2>5, <2>6 DEF FoundIsNew, At
<1>11. Written(j)' /\ RecordsAreRead(j)'
  <2>1. \A f \in Files : ~(f <= 0)
    BY DEF Files
  <2>2. \A f \in Files : Dir(j)'[f] # "missing"
    BY <1>1, <1>5, <1>7 DEF Dir
  <2> QED
    BY <1>2, <1>5, <1>7, <2>1, <2>2 DEF Written, RecordsAreRead, At
<1>12. Knows(j)'
  BY <1>5, <1>10, <1>11 DEF Knows, HashIsOfFile, MarksFollow, At
<1>13. Proper(j)
  BY <1>1, <1>5 DEF Proper
<1> QED
  BY <1>1, <1>9, <1>12, <1>13, StepOrdered

LEMMA ReadOrdered ==
  ASSUME TypeOK, OrderInv, NEW j \in Imports, ReadFile(j), UNCHANGED faults
  PROVE  OrderInv'
<1> DEFINE rs == IF File(j) \in run[j].files THEN run[j].records \cup {Copy(j, File(j))}
                                              ELSE run[j].records
           st == [run[j] EXCEPT !.records = rs]
           nx == Through(st, "save")
<1>1. File(j) \in run[j].files => OnDisk(j) # "missing"
  BY DEF ReadFile, At, OrderInv, Knows, FoundIsNew, OnDisk, Dir
<1>2. Become(j, nx) /\ UNCHANGED <<disk, marks, report>>
  <2>1. run[j] = [run[j] EXCEPT !.records = run[j].records]
    BY Here DEF RunState
  <2>2. [file |-> File(j), text |-> OnDisk(j)] = Copy(j, File(j))
    BY DEF Copy, OnDisk, Dir
  <2> QED
    BY <1>1, <2>1, <2>2 DEF ReadFile
<1>3. rs \in SUBSET Content
  BY Here DEF RunState, Content, Copy, Dir, OnDisk
<1>4. \A m : m \in rs <=> \/ m \in run[j].records
                          \/ m = Copy(j, File(j)) /\ File(j) \in run[j].files
  OBVIOUS
<1> HIDE DEF rs
<1>5. /\ st \in RunState /\ "save" \in Pc
      /\ st.pc = "ingest" /\ st.host = run[j].host /\ st.day = run[j].day /\ st.at = run[j].at
      /\ st.files = run[j].files /\ st.records = rs
  BY <1>3, Here DEF RunState, Pc, ReadFile, At
<1> HIDE DEF st
<1>6. run'[j] = nx /\ \A k \in Imports \ {j} : run'[k] = run[k]
  BY <1>2 DEF Become, TypeOK
<1>7. /\ run'[j].host = run[j].host /\ run'[j].day = run[j].day
      /\ run'[j].files = run[j].files /\ run'[j].records = rs /\ run'[j].hash = "missing"
      /\ \/ run'[j].at = run[j].at + 1 /\ run'[j].pc = "ingest"
         \/ run[j].at + 1 = FileCount /\ run'[j].at = 0 /\ run'[j].pc = "save"
  BY <1>5, <1>6, ThroughFields
<1>8. \A f : Copy(j, f)' = Copy(j, f) /\ Copy(j, f).file = f
  BY <1>2, <1>7 DEF Copy, Dir
<1>9. /\ \A f \in run[j].files : Dir(j)[f] # "missing"
      /\ Marking => \A f \in run[j].files :
           \A k \in Imports \ {j} : Copy(j, f) \notin run[k].records
      /\ \A f \in Files : f \in run[j].files \/ Copy(j, f) \in marks
      /\ \A m \in run[j].records : m.file \in run[j].files /\ m = Copy(j, m.file)
      /\ \A f \in run[j].files : f <= run[j].at => Copy(j, f) \in run[j].records
  BY DEF ReadFile, At, OrderInv, Knows, FoundIsNew, RecordsAreRead
<1>10. FoundIsNew(j)'
  <2>1. \A f \in run[j].files : Dir(j)'[f] # "missing"
    BY <1>2, <1>7, <1>9 DEF Dir
  <2>2. (Marking' <=> Marking) /\ marks' = marks
    BY <1>2 DEF Marking
  <2> QED
    BY <1>6, <1>7, <1>8, <1>9, <2>1, <2>2 DEF FoundIsNew, At
<1>11. RecordsAreRead(j)'
  <2>1. \A m \in rs : m.file \in run[j].files /\ m = Copy(j, m.file)
    BY <1>4, <1>8, <1>9
  <2>2. \A f \in run[j].files : f <= run[j].at + 1 => Copy(j, f) \in rs
    <3>1. \A f \in run[j].files : f <= run[j].at + 1 => f <= run[j].at \/ f = File(j)
      BY Here DEF RunState, Files
    <3> QED
      BY <1>4, <1>9, <3>1
  <2>3. \A f \in run[j].files : f <= FileCount
    BY Here, ImportAssumption DEF RunState, Files
  <2> QED
    BY <1>7, <1>8, <2>1, <2>2, <2>3 DEF RecordsAreRead, At
<1>12. Knows(j)'
  BY <1>7, <1>10, <1>11 DEF Knows, Written, HashIsOfFile, MarksFollow, At
<1>13. Running(j) /\ Proper(j)
  BY <1>2, <1>4, <1>7, <1>9 DEF Proper, ReadFile, At, Running
<1> QED
  BY <1>2, <1>12, <1>13, AloneRunning, StepOrdered

LEMMA SaveOrdered ==
  ASSUME TypeOK, OrderInv, NEW j \in Imports, SaveReport(j), UNCHANGED faults
  PROVE  OrderInv'
<1>1. /\ Become(j, [run[j] EXCEPT !.pc = "archive"]) /\ UNCHANGED <<disk, marks>>
      /\ report' = [report EXCEPT ![today] = run[j].records]
  BY DEF SaveReport
<1>2. /\ run'[j].pc = "archive" /\ run'[j].host = run[j].host /\ run'[j].day = run[j].day
      /\ run'[j].files = run[j].files /\ run'[j].records = run[j].records
      /\ run'[j].at = run[j].at /\ run'[j].hash = run[j].hash
      /\ \A k \in Imports \ {j} : run'[k] = run[k]
  BY <1>1, Here DEF Become, TypeOK, RunState
<1>3. Dir(j)' = Dir(j) /\ \A f : Copy(j, f)' = Copy(j, f)
  BY <1>1, <1>2 DEF Dir, Copy
<1>4. run[j].hash = "missing" /\ run[j].at = 0 /\ Knows(j)
  BY DEF SaveReport, At, OrderInv, Knows, Written, HashIsOfFile
<1>5. MarksFollow(j)'
  <2>1. today \in 1..Days /\ report'[today] = run[j].records
    BY <1>1 DEF TypeOK
  <2>2. \A f \in run[j].files : ~(f <= 0)
    BY Here DEF RunState, Files
  <2> QED
    BY <1>2, <1>4, <2>1, <2>2 DEF MarksFollow, At
<1>6. FoundIsNew(j)' /\ RecordsAreRead(j)'
  <2>1. FoundIsNew(j)'
    BY <1>1, <1>2, <1>3, <1>4 DEF SaveReport, Knows, FoundIsNew, At, Marking
  <2>2. RecordsAreRead(j)'
    BY <1>2, <1>3, <1>4 DEF SaveReport, Knows, RecordsAreRead, At
  <2> QED
    BY <2>1, <2>2
<1>7. Written(j)' /\ HashIsOfFile(j)'
  BY <1>2, <1>4 DEF Written, HashIsOfFile, At
<1>8. Proper(j) /\ Running(j)
  BY <1>1, <1>2 DEF Proper, SaveReport, At, Running
<1> QED
  BY <1>1, <1>5, <1>6, <1>7, <1>8, AloneRunning, StepOrdered DEF Knows

\* Archive leaves nothing out, if the step is its last one.
LeavesNothing(j) ==
  run'[j].pc = "returned" =>
    \A f \in Files : Copy(j, f) \in marks' \/ (~Marking /\ Copy(j, f) \in run[j].records)

\* A file archive is through with is marked, if it was found new and marks do not fail.
LEMMA ArchiveOrdered ==
  ASSUME TypeOK, OrderInv, NEW j \in Imports, At(j, "archive"),
         Become(j, Through(run[j], "returned")), UNCHANGED <<disk, report, faults>>,
         marks \subseteq marks', marks' \ marks \subseteq run[j].records,
         Marking /\ File(j) \in run[j].files => Copy(j, File(j)) \in marks'
  PROVE  OrderInv' /\ LeavesNothing(j)
<1>1. run[j] \in RunState /\ "returned" \in Pc /\ run[j].pc = "archive"
  BY Here DEF Pc, At
<1>2. run'[j] = Through(run[j], "returned") /\ \A k \in Imports \ {j} : run'[k] = run[k]
  BY DEF Become, TypeOK
<1>3. /\ run'[j].host = run[j].host /\ run'[j].day = run[j].day
      /\ run'[j].files = run[j].files /\ run'[j].records = run[j].records
      /\ run'[j].hash = "missing"
      /\ \/ run'[j].at = run[j].at + 1 /\ run'[j].pc = "archive"
         \/ run[j].at + 1 = FileCount /\ run'[j].at = 0 /\ run'[j].pc = "returned"
  BY <1>1, <1>2, ThroughFields
<1>4. Dir(j)' = Dir(j) /\ \A f : Copy(j, f)' = Copy(j, f)
  BY <1>3 DEF Dir, Copy
<1>5. Knows(j)
  BY DEF OrderInv
<1>m. Marking' <=> Marking
  BY DEF Marking
<1>6. FoundIsNew(j)' /\ RecordsAreRead(j)'
  <2>1. FoundIsNew(j)'
    BY <1>1, <1>2, <1>3, <1>4, <1>5, <1>m DEF Knows, FoundIsNew, At
  <2>2. RecordsAreRead(j)'
    BY <1>1, <1>2, <1>3, <1>4, <1>5 DEF Knows, RecordsAreRead, At
  <2> QED
    BY <2>1, <2>2
<1>7. MarksFollow(j)'
  <2>1. Marking => \A f \in run[j].files : f <= run[j].at + 1 => Copy(j, f) \in marks'
    <3>1. \A f \in run[j].files : f <= run[j].at + 1 => f <= run[j].at \/ f = File(j)
      BY Here DEF RunState, Files
    <3>2. Marking => \A f \in run[j].files : f <= run[j].at => Copy(j, f) \in marks
      BY <1>5 DEF Knows, MarksFollow
    <3> QED
      BY <3>1, <3>2
  <2>2. \E d \in 1..Days : report'[d] = run[j].records
    BY <1>5 DEF Knows, MarksFollow
  <2>3. ASSUME Marking, run[j].at + 1 = FileCount PROVE run[j].records \subseteq marks'
    <3>1. \A f \in run[j].files : f <= FileCount
      BY Here, ImportAssumption DEF RunState, Files
    <3>2. \A m \in run[j].records : m.file \in run[j].files /\ m = Copy(j, m.file)
      BY <1>1, <1>5 DEF Knows, RecordsAreRead
    <3> QED
      BY <2>1, <2>3, <3>1, <3>2
  <2> QED
    BY <1>3, <1>4, <1>m, <2>1, <2>2, <2>3 DEF MarksFollow, At
<1>8. Written(j)' /\ HashIsOfFile(j)'
  BY <1>3 DEF Written, HashIsOfFile, At
<1>9. Proper(j) /\ Running(j)
  BY <1>1, <1>3 DEF Proper, Running
<1>10. OrderInv'
  BY <1>6, <1>7, <1>8, <1>9, AloneRunning, StepOrdered DEF Knows
<1>11. LeavesNothing(j)
  <2> SUFFICES ASSUME run'[j].pc = "returned", NEW f \in Files, Copy(j, f) \notin marks'
               PROVE  ~Marking /\ Copy(j, f) \in run[j].records
    BY DEF LeavesNothing
  <2>1. f \in run[j].files
    BY <1>1, <1>5 DEF Knows, FoundIsNew
  <2>2. Copy(j, f) \in run[j].records
    BY <1>1, <1>5, <2>1 DEF Knows, RecordsAreRead
  <2>3. ~Marking
    BY <1>3, <1>7, <1>m, <2>2 DEF MarksFollow, At
  <2> QED
    BY <2>2, <2>3
<1> QED
  BY <1>10, <1>11

LEMMA MarkOrdered ==
  ASSUME TypeOK, OrderInv, NEW j \in Imports, MarkFile(j), UNCHANGED faults
  PROVE  OrderInv' /\ LeavesNothing(j) /\ Hashed(j) \in run[j].records
<1>1. /\ At(j, "archive") /\ run[j].hash # "missing" /\ marks' = marks \cup {Hashed(j)}
      /\ Become(j, Through(run[j], "returned")) /\ UNCHANGED <<disk, report>>
  BY DEF MarkFile
<1>2. File(j) \in run[j].files /\ Hashed(j) = Copy(j, File(j))
  BY <1>1 DEF OrderInv, Knows, HashIsOfFile, Hashed, Copy, OnDisk, Dir
<1>3. Hashed(j) \in run[j].records
  BY <1>1, <1>2 DEF OrderInv, Knows, RecordsAreRead, At
<1> QED
  BY <1>1, <1>2, <1>3, ArchiveOrdered

LEMMA MarkFailsOrdered ==
  ASSUME TypeOK, OrderInv, NEW j \in Imports, MarkFails(j), UNCHANGED faults
  PROVE  OrderInv' /\ LeavesNothing(j)
<1>1. /\ At(j, "archive") /\ ~Marking /\ marks' = marks
      /\ Become(j, Through(run[j], "returned")) /\ UNCHANGED <<disk, report>>
  BY DEF MarkFails, Marking
<1> QED
  BY <1>1, ArchiveOrdered

LEMMA PassOverOrdered ==
  ASSUME TypeOK, OrderInv, NEW j \in Imports, PassOver(j), UNCHANGED faults
  PROVE  OrderInv' /\ LeavesNothing(j)
<1>1. /\ At(j, "archive") /\ marks' = marks
      /\ Become(j, Through(run[j], "returned")) /\ UNCHANGED <<disk, report>>
      /\ File(j) \notin run[j].files \/ OnDisk(j) = "missing"
  BY DEF PassOver
<1>2. File(j) \notin run[j].files
  BY <1>1 DEF OrderInv, Knows, FoundIsNew, OnDisk, Dir, At
<1> QED
  BY <1>1, <1>2, ArchiveOrdered

LEMMA MoveOrdered ==
  ASSUME TypeOK, InTurn, OrderInv, NEW j \in Imports, Move(j), UNCHANGED faults
  PROVE  OrderInv'
<1> DEFINE Moved(h, v) == [run[j] EXCEPT !.host = h, !.variant = v, !.hash = "missing"]
<1>1. PICK h \in Hosts, v \in Variants :
        /\ "elsewhere" \in faults \/ h = run[j].host
        /\ LET st == Moved(h, v)
           IN Become(j, CASE st.pc = "ingest" -> st
                          [] st.pc \in {"save", "archive"} -> [st EXCEPT !.pc = "save", !.at = 0]
                          [] OTHER -> [st EXCEPT !.pc = "open", !.at = 0, !.files = {},
                                                 !.day = today])
  BY DEF Move
<1> DEFINE st == Moved(h, v)
<1>a. /\ st \in RunState /\ st.host = run[j].host /\ st.hash = "missing" /\ st.pc = run[j].pc
      /\ st.at = run[j].at /\ st.day = run[j].day /\ st.files = run[j].files
      /\ st.records = run[j].records
  BY <1>1, Here DEF RunState, Texts, InTurn
<1>2. UNCHANGED <<disk, marks, report>> /\ Running(j) /\ run[j].pc \in Pc
  BY Here DEF Move, RunState
<1>b. \/ run[j].pc = "ingest" /\ Become(j, st)
      \/ run[j].pc \in {"save", "archive"} /\ Become(j, [st EXCEPT !.pc = "save", !.at = 0])
      \/ /\ run[j].pc \in {"open", "write", "discover"}
         /\ Become(j, [st EXCEPT !.pc = "open", !.at = 0, !.files = {}, !.day = today])
  <2>1. run[j].pc \in {"open", "write", "discover", "ingest", "save", "archive"}
    BY <1>2 DEF Running, Pc
  <2> HIDE DEF st
  <2>2. CASE run[j].pc = "ingest"
    BY <1>1, <1>a, <2>2 DEF st
  <2>3. CASE run[j].pc \in {"save", "archive"}
    BY <1>1, <1>a, <2>3 DEF st
  <2>4. CASE run[j].pc \in {"open", "write", "discover"}
    BY <1>1, <1>a, <2>4 DEF st
  <2> QED
    BY <2>1, <2>2, <2>3, <2>4
<1> HIDE DEF st
<1>c. \A nx : Become(j, nx) => run'[j] = nx /\ \A k \in Imports \ {j} : run'[k] = run[k]
  BY DEF Become, TypeOK
<1>3. /\ run'[j].host = run[j].host /\ run'[j].records = run[j].records
      /\ run'[j].hash = "missing"
      /\ \A k \in Imports \ {j} : run'[k] = run[k]
      /\ \/ /\ run[j].pc = "ingest" /\ run'[j].pc = "ingest" /\ run'[j].at = run[j].at
            /\ run'[j].day = run[j].day /\ run'[j].files = run[j].files
         \/ /\ run[j].pc \in {"save", "archive"} /\ run'[j].pc = "save" /\ run'[j].at = 0
            /\ run'[j].day = run[j].day /\ run'[j].files = run[j].files
         \/ /\ run[j].pc \in {"open", "write", "discover"}
            /\ run'[j].pc = "open" /\ run'[j].at = 0 /\ run'[j].files = {}
  <2>1. CASE run[j].pc = "ingest" /\ Become(j, st)
    BY <1>a, <1>c, <2>1
  <2>2. CASE /\ run[j].pc \in {"save", "archive"}
             /\ Become(j, [st EXCEPT !.pc = "save", !.at = 0])
    <3>1. run'[j] = [st EXCEPT !.pc = "save", !.at = 0] /\ \A k \in Imports \ {j} : run'[k] = run[k]
      BY <1>c, <2>2
    <3>2. /\ run'[j].pc = "save" /\ run'[j].at = 0 /\ run'[j].host = st.host
          /\ run'[j].records = st.records /\ run'[j].hash = st.hash
          /\ run'[j].day = st.day /\ run'[j].files = st.files
      BY <1>a, <3>1 DEF RunState
    <3> QED
      BY <1>a, <2>2, <3>1, <3>2
  <2>3. CASE /\ run[j].pc \in {"open", "write", "discover"}
             /\ Become(j, [st EXCEPT !.pc = "open", !.at = 0, !.files = {}, !.day = today])
    <3>1. /\ run'[j] = [st EXCEPT !.pc = "open", !.at = 0, !.files = {}, !.day = today]
          /\ \A k \in Imports \ {j} : run'[k] = run[k]
      BY <1>c, <2>3
    <3>2. /\ run'[j].pc = "open" /\ run'[j].at = 0 /\ run'[j].host = st.host
          /\ run'[j].records = st.records /\ run'[j].hash = st.hash /\ run'[j].files = {}
      BY <1>a, <3>1 DEF RunState
    <3> QED
      BY <1>a, <2>3, <3>1, <3>2
  <2> QED
    BY <1>b, <2>1, <2>2, <2>3
<1>4. Knows(j)
  BY DEF OrderInv
<1>5. ASSUME run[j].pc \in {"ingest", "save", "archive"} PROVE Knows(j)'
  <2>1. run'[j].day = run[j].day /\ run'[j].files = run[j].files
        /\ \/ run[j].pc = "ingest" /\ run'[j].pc = "ingest" /\ run'[j].at = run[j].at
           \/ run[j].pc \in {"save", "archive"} /\ run'[j].pc = "save" /\ run'[j].at = 0
    BY <1>3, <1>5
  <2>2. Dir(j)' = Dir(j) /\ \A f : Copy(j, f)' = Copy(j, f)
    BY <1>2, <1>3, <2>1 DEF Dir, Copy
  <2>3. FoundIsNew(j)' /\ RecordsAreRead(j)'
    <3>1. FoundIsNew(j)'
      BY <1>2, <1>3, <1>4, <1>5, <2>1, <2>2 DEF Knows, FoundIsNew, At, Marking
    <3>2. RecordsAreRead(j)'
      BY <1>3, <1>4, <1>5, <2>1, <2>2 DEF Knows, RecordsAreRead, At
    <3> QED
      BY <3>1, <3>2
  <2>4. run'[j].hash = "missing"
    BY <1>3
  <2>5. Written(j)' /\ HashIsOfFile(j)' /\ MarksFollow(j)'
    BY <2>1, <2>4 DEF Written, HashIsOfFile, MarksFollow, At
  <2> QED
    BY <2>3, <2>5 DEF Knows
<1>6. ASSUME run[j].pc \in {"open", "write", "discover"} PROVE Knows(j)'
  <2>1. run'[j].pc = "open" /\ run'[j].at = 0 /\ run'[j].files = {} /\ run'[j].records = {}
    BY <1>3, <1>4, <1>6 DEF Knows, Written
  <2>2. \A f \in Files : ~(f <= 0)
    BY DEF Files
  <2>3. run'[j].files = {} /\ run'[j].hash = "missing"
    BY <1>3, <1>6
  <2>4. Written(j)'
    BY <2>1, <2>2, <2>3 DEF Written, At
  <2> QED
    BY <2>1, <2>3, <2>4 DEF Knows, HashIsOfFile, FoundIsNew, RecordsAreRead, MarksFollow, At
<1>7. Knows(j)'
  BY <1>b, <1>5, <1>6
<1>8. Proper(j)
  BY <1>2, <1>3 DEF Proper
<1>9. \E nx : Become(j, nx)
  BY <1>b
<1> QED
  BY <1>2, <1>7, <1>8, <1>9, <1>8, AloneRunning, StepOrdered

-----------------------------------------------------------------------------
(* The end of an import.                                                   *)

LEMMA ReturnsFromArchive ==
  ASSUME TypeOK, [Next]_vars, NEW j \in Imports,
         run'[j].pc = "returned", run[j].pc # "returned"
  PROVE  MarkFile(j) \/ MarkFails(j) \/ PassOver(j)
<1>1. PICK k \in Imports : Start(k) \/ Work(k) \/ Move(k)
  BY DEF Next, Midnight, vars
<1>2. \E nx : Become(k, nx)
  <2>1. CASE Start(k) \/ OpenFile(k) \/ WriteFile(k) \/ HashFile(k) \/ QueryHash(k)
    BY <2>1 DEF Start, OpenFile, WriteFile, HashFile, QueryHash
  <2>2. CASE ReadFile(k) \/ SaveReport(k) \/ MarkFile(k) \/ MarkFails(k) \/ PassOver(k)
    BY <2>2 DEF ReadFile, SaveReport, MarkFile, MarkFails, PassOver
  <2>3. CASE Move(k)
    BY <2>3 DEF Move
  <2> QED
    BY <1>1, <2>1, <2>2, <2>3 DEF Work
<1>3. k = j
  BY <1>2 DEF Become
<1>h. run[j] \in RunState /\ \A nx : Become(j, nx) => run'[j] = nx
  BY Here DEF Become, TypeOK
<1>4. ~Start(j) /\ ~OpenFile(j) /\ ~HashFile(j) /\ ~SaveReport(j)
  <2>1. ASSUME Start(j) PROVE FALSE
    BY <1>h, <2>1 DEF Start, RunState
  <2>2. ASSUME OpenFile(j) PROVE FALSE
    BY <1>h, <2>2 DEF OpenFile, RunState
  <2>3. ASSUME HashFile(j) PROVE FALSE
    BY <1>h, <2>3 DEF HashFile, RunState
  <2>4. ASSUME SaveReport(j) PROVE FALSE
    BY <1>h, <2>4 DEF SaveReport, RunState
  <2> QED
    BY <2>1, <2>2, <2>3, <2>4
<1>5. ASSUME WriteFile(j) PROVE FALSE
  <2> DEFINE st == [run[j] EXCEPT !.pc = "open"]
  <2>1. st \in RunState /\ st.pc = "open" /\ "discover" \in Pc
    BY <1>h DEF RunState, Pc
  <2>2. run'[j] = Through(st, "discover")
    BY <1>5, <1>h DEF WriteFile
  <2> HIDE DEF st
  <2> QED
    BY <2>1, <2>2, ThroughFields
<1>6. ASSUME QueryHash(j) PROVE FALSE
  <2> DEFINE fs == IF Hashed(j) \in marks THEN run[j].files ELSE run[j].files \cup {File(j)}
             st == [run[j] EXCEPT !.files = fs]
  <2>1. fs \in SUBSET Files
    BY Here DEF RunState
  <2>2. run'[j] = Through(st, "ingest")
    BY <1>6, <1>h DEF QueryHash
  <2> HIDE DEF fs
  <2>3. st \in RunState /\ st.pc = "discover" /\ "ingest" \in Pc
    BY <1>6, <1>h, <2>1 DEF QueryHash, At, RunState, Pc
  <2> HIDE DEF st
  <2> QED
    BY <2>2, <2>3, ThroughFields
<1>7. ASSUME ReadFile(j) PROVE FALSE
  <2> DEFINE rs == run[j].records \cup {[file |-> File(j), text |-> OnDisk(j)]}
             st == [run[j] EXCEPT !.records = rs]
  <2>1. rs \in SUBSET Content
    BY Here DEF RunState, Content
  <2>2. \/ run'[j] = Through(run[j], "save") \/ run'[j] = Through(st, "save")
        \/ run'[j] = [run[j] EXCEPT !.pc = "failed"]
    BY <1>7, <1>h DEF ReadFile
  <2> HIDE DEF rs
  <2>3. /\ st \in RunState /\ st.pc = "ingest" /\ run[j].pc = "ingest" /\ "save" \in Pc
        /\ [run[j] EXCEPT !.pc = "failed"].pc = "failed"
    BY <1>7, <1>h, <2>1 DEF ReadFile, At, RunState, Pc
  <2> HIDE DEF st
  <2>4. Through(run[j], "save").pc # "returned" /\ Through(st, "save").pc # "returned"
    BY <1>h, <2>3, ThroughFields
  <2>5. CASE run'[j] = [run[j] EXCEPT !.pc = "failed"]
    BY <2>3, <2>5
  <2> QED
    BY <2>2, <2>4, <2>5
<1>8. ASSUME Move(j) PROVE FALSE
  <2> DEFINE Moved(h, v) == [run[j] EXCEPT !.host = h, !.variant = v, !.hash = "missing"]
  <2>1. PICK h \in Hosts, v \in Variants :
          LET st == Moved(h, v)
          IN Become(j, CASE st.pc = "ingest" -> st
                         [] st.pc \in {"save", "archive"} ->
                              [st EXCEPT !.pc = "save", !.at = 0]
                         [] OTHER -> [st EXCEPT !.pc = "open", !.at = 0, !.files = {},
                                                !.day = today])
    BY <1>8 DEF Move
  <2> DEFINE st == Moved(h, v)
  <2>2. st \in RunState /\ st.pc # "returned"
    BY <1>h DEF RunState, Texts
  <2> HIDE DEF st
  <2>3. run'[j] = CASE st.pc = "ingest" -> st
                    [] st.pc \in {"save", "archive"} -> [st EXCEPT !.pc = "save", !.at = 0]
                    [] OTHER -> [st EXCEPT !.pc = "open", !.at = 0, !.files = {},
                                           !.day = today]
    BY <1>h, <2>1 DEF st
  <2>4. /\ [st EXCEPT !.pc = "save", !.at = 0].pc = "save"
        /\ [st EXCEPT !.pc = "open", !.at = 0, !.files = {}, !.day = today].pc = "open"
    BY <2>2 DEF RunState
  <2> QED
    BY <2>2, <2>3, <2>4
<1> QED
  BY <1>1, <1>3, <1>4, <1>5, <1>6, <1>7, <1>8 DEF Work

-----------------------------------------------------------------------------
(* Every file is read, whatever happens.                                   *)

\* The records of a run are those of the files found new, one each, as far as it has come.
ReadsAll(st) ==
  /\ \A m \in st.records : m.file \in st.files
  /\ \A m, n \in st.records : m.file = n.file => m = n
  /\ st.pc \in {"idle", "open", "write", "discover"} => st.records = {}
  /\ st.pc = "ingest" =>
       \A f \in st.files : f <= st.at <=> \E m \in st.records : m.file = f
  /\ st.pc \in {"save", "archive", "returned"} =>
       \A f \in st.files : \E m \in st.records : m.file = f

ReadInv == \A j \in Imports : ReadsAll(run[j])

LEMMA ReadKept ==
  ASSUME TypeOK, ReadInv, NEW j \in Imports, NEW nx, Become(j, nx), ReadsAll(nx)
  PROVE  ReadInv'
<1>1. \A k \in Imports : run'[k] = IF k = j THEN nx ELSE run[k]
  BY DEF Become, TypeOK
<1> QED
  BY <1>1 DEF ReadInv

\* Some fields do not matter, nor do steps within the stages about them.
LEMMA ReadLike ==
  ASSUME NEW st, NEW nx, ReadsAll(st), nx.records = st.records,
         \/ nx.files = st.files \/ st.records = {},
         \/ st.pc \in {"idle", "open", "write", "discover"}
               /\ nx.pc \in {"open", "write", "discover"}
         \/ st.pc = "ingest" /\ nx.pc = "ingest" /\ nx.at = st.at /\ nx.files = st.files
         \/ st.pc \in {"save", "archive"} /\ nx.pc \in {"save", "archive", "returned"}
               /\ nx.files = st.files
         \/ nx.pc = "failed"
  PROVE  ReadsAll(nx)
BY DEF ReadsAll

LEMMA NextRead == TypeOK /\ ReadInv /\ [Next]_vars => ReadInv'
<1> SUFFICES ASSUME TypeOK, ReadInv, [Next]_vars PROVE ReadInv'
  OBVIOUS
<1>h. ASSUME NEW j \in Imports PROVE run[j] \in RunState /\ ReadsAll(run[j])
  BY Here DEF ReadInv
<1>1. ASSUME NEW j \in Imports, Start(j) PROVE ReadInv'
  <2> DEFINE nx == [run[j] EXCEPT !.pc = "open", !.day = today]
  <2>1. nx.pc = "open" /\ nx.records = run[j].records /\ nx.files = run[j].files
    BY <1>h DEF RunState
  <2>2. Become(j, nx) /\ run[j].pc = "idle"
    BY <1>1 DEF Start, At
  <2> HIDE DEF nx
  <2> QED
    BY <1>h, <2>1, <2>2, ReadLike, ReadKept
<1>2. ASSUME NEW j \in Imports, OpenFile(j) PROVE ReadInv'
  <2> DEFINE nx == [run[j] EXCEPT !.pc = "write"]
  <2>1. nx.pc = "write" /\ nx.records = run[j].records /\ nx.files = run[j].files
    BY <1>h DEF RunState
  <2>2. Become(j, nx) /\ run[j].pc = "open"
    BY <1>2 DEF OpenFile, At
  <2> HIDE DEF nx
  <2> QED
    BY <1>h, <2>1, <2>2, ReadLike, ReadKept
<1>3. ASSUME NEW j \in Imports, WriteFile(j) PROVE ReadInv'
  <2> DEFINE st == [run[j] EXCEPT !.pc = "open"]
             nx == Through(st, "discover")
  <2>1. /\ st \in RunState /\ "discover" \in Pc /\ st.pc = "open"
        /\ st.records = run[j].records /\ st.files = run[j].files
    BY <1>h DEF RunState, Pc
  <2>2. Become(j, nx) /\ run[j].pc = "write"
    BY <1>3 DEF WriteFile, At
  <2> HIDE DEF st
  <2>3. nx.pc \in {"open", "discover"} /\ nx.records = run[j].records /\ nx.files = run[j].files
    BY <2>1, ThroughFields
  <2> HIDE DEF nx
  <2> QED
    BY <1>h, <2>2, <2>3, ReadLike, ReadKept
<1>4. ASSUME NEW j \in Imports, HashFile(j) PROVE ReadInv'
  <2> DEFINE nx == [run[j] EXCEPT !.hash = OnDisk(j)]
  <2>1. /\ nx.pc = run[j].pc /\ nx.records = run[j].records /\ nx.files = run[j].files
        /\ nx.at = run[j].at
    BY <1>h DEF RunState
  <2>2. Become(j, nx) /\ run[j].pc \in {"discover", "archive"}
    BY <1>4 DEF HashFile
  <2> HIDE DEF nx
  <2> QED
    BY <1>h, <2>1, <2>2, ReadLike, ReadKept
<1>5. ASSUME NEW j \in Imports, QueryHash(j) PROVE ReadInv'
  <2> DEFINE fs == IF Hashed(j) \in marks THEN run[j].files ELSE run[j].files \cup {File(j)}
             st == [run[j] EXCEPT !.files = fs]
             nx == Through(st, "ingest")
  <2>1. fs \in SUBSET Files
    BY Here DEF RunState
  <2>2. Become(j, nx) /\ run[j].pc = "discover"
    BY <1>5 DEF QueryHash, At
  <2> HIDE DEF fs
  <2>3. /\ st \in RunState /\ "ingest" \in Pc /\ st.pc = "discover"
        /\ st.records = run[j].records /\ st.files = fs
    BY <1>h, <2>1, <2>2 DEF RunState, Pc
  <2> HIDE DEF st
  <2>4. /\ nx.records = {} /\ nx.files = fs
        /\ nx.pc = "discover" \/ (nx.pc = "ingest" /\ nx.at = 0)
    <3>1. run[j].records = {}
      BY <1>h, <2>2 DEF ReadsAll
    <3> QED
      BY <2>3, <3>1, ThroughFields
  <2> HIDE DEF nx
  <2>5. \A f \in fs : ~(f <= 0)
    BY <2>1 DEF Files
  <2>6. ReadsAll(nx)
    BY <2>4, <2>5 DEF ReadsAll
  <2> QED
    BY <2>2, <2>6, ReadKept
<1>6. ASSUME NEW j \in Imports, ReadFile(j) PROVE ReadInv'
  <2>1. run[j].pc = "ingest" /\ run[j].at \in Nat /\ File(j) = run[j].at + 1
    BY <1>6, Here DEF ReadFile, At
  <2>2. CASE File(j) \notin run[j].files
    <3> DEFINE nx == Through(run[j], "save")
    <3>1. Become(j, nx)
      BY <1>6, <2>2 DEF ReadFile
    <3>2. /\ nx.records = run[j].records /\ nx.files = run[j].files
          /\ \/ nx.at = run[j].at + 1 /\ nx.pc = "ingest"
             \/ run[j].at + 1 = FileCount /\ nx.pc = "save"
      BY <1>h, <2>1, ThroughFields DEF Pc
    <3> HIDE DEF nx
    <3>3. \A f \in run[j].files : f <= run[j].at + 1 <=> f <= run[j].at
      BY <1>h, <2>1, <2>2 DEF RunState, Files
    <3>4. \A f \in run[j].files : f <= FileCount
      BY <1>h, ImportAssumption DEF RunState, Files
    <3>5. ReadsAll(nx)
      BY <1>h, <2>1, <3>2, <3>3, <3>4 DEF ReadsAll
    <3> QED
      BY <3>1, <3>5, ReadKept
  <2>3. CASE File(j) \in run[j].files /\ OnDisk(j) = "missing"
    <3> DEFINE nx == [run[j] EXCEPT !.pc = "failed"]
    <3>1. Become(j, nx)
      BY <1>6, <2>3 DEF ReadFile
    <3>2. nx.pc = "failed" /\ nx.records = run[j].records /\ nx.files = run[j].files
      BY <1>h DEF RunState
    <3> HIDE DEF nx
    <3> QED
      BY <1>h, <3>1, <3>2, ReadLike, ReadKept
  <2>4. CASE File(j) \in run[j].files /\ OnDisk(j) # "missing"
    <3> DEFINE new == [file |-> File(j), text |-> OnDisk(j)]
               rs == run[j].records \cup {new}
               st == [run[j] EXCEPT !.records = rs]
               nx == Through(st, "save")
    <3>1. Become(j, nx)
      BY <1>6, <2>4 DEF ReadFile
    <3>2. rs \in SUBSET Content /\ new.file = File(j)
      BY <1>h, Here DEF RunState, Content
    <3> HIDE DEF new
    <3>3. \A m : m \in rs <=> m \in run[j].records \/ m = new
      OBVIOUS
    <3> HIDE DEF rs
    <3>4. /\ st \in RunState /\ "save" \in Pc /\ st.pc = "ingest" /\ st.at = run[j].at
          /\ st.records = rs /\ st.files = run[j].files
      BY <1>h, <2>1, <3>2 DEF RunState, Pc
    <3> HIDE DEF st
    <3>5. /\ nx.records = rs /\ nx.files = run[j].files
          /\ \/ nx.at = run[j].at + 1 /\ nx.pc = "ingest"
             \/ run[j].at + 1 = FileCount /\ nx.pc = "save"
      BY <3>4, ThroughFields
    <3> HIDE DEF nx
    <3>6. \A m \in run[j].records : m.file # File(j)
      <4>1. ~(File(j) <= run[j].at)
        BY <2>1
      <4> QED
        BY <1>h, <2>1, <2>4, <4>1 DEF ReadsAll
    <3>7. /\ \A m \in rs : m.file \in run[j].files
          /\ \A m, n \in rs : m.file = n.file => m = n
      BY <1>h, <2>4, <3>2, <3>3, <3>6 DEF ReadsAll
    <3>8. \A f \in run[j].files : f <= run[j].at + 1 <=> f <= run[j].at \/ f = File(j)
      BY <1>h, <2>1 DEF RunState, Files
    <3>9. \A f \in run[j].files : f <= run[j].at + 1 <=> \E m \in rs : m.file = f
      BY <1>h, <2>1, <3>2, <3>3, <3>8 DEF ReadsAll
    <3>10. \A f \in run[j].files : f <= FileCount
      BY <1>h, ImportAssumption DEF RunState, Files
    <3>11. ReadsAll(nx)
      BY <3>5, <3>7, <3>9, <3>10 DEF ReadsAll
    <3> QED
      BY <3>1, <3>11, ReadKept
  <2> QED
    BY <2>2, <2>3, <2>4
<1>7. ASSUME NEW j \in Imports, SaveReport(j) PROVE ReadInv'
  <2> DEFINE nx == [run[j] EXCEPT !.pc = "archive"]
  <2>1. nx.pc = "archive" /\ nx.records = run[j].records /\ nx.files = run[j].files
    BY <1>h DEF RunState
  <2>2. Become(j, nx) /\ run[j].pc = "save"
    BY <1>7 DEF SaveReport, At
  <2> HIDE DEF nx
  <2> QED
    BY <1>h, <2>1, <2>2, ReadLike, ReadKept
<1>8. ASSUME NEW j \in Imports, MarkFile(j) \/ MarkFails(j) \/ PassOver(j) PROVE ReadInv'
  <2> DEFINE nx == Through(run[j], "returned")
  <2>1. Become(j, nx) /\ run[j].pc = "archive"
    BY <1>8 DEF MarkFile, MarkFails, PassOver, At
  <2>2. /\ nx.pc \in {"archive", "returned"} /\ nx.records = run[j].records
        /\ nx.files = run[j].files
    BY <1>h, <2>1, ThroughFields DEF Pc
  <2> HIDE DEF nx
  <2> QED
    BY <1>h, <2>1, <2>2, ReadLike, ReadKept
<1>9. ASSUME NEW j \in Imports, Move(j) PROVE ReadInv'
  <2> DEFINE Moved(h, v) == [run[j] EXCEPT !.host = h, !.variant = v, !.hash = "missing"]
  <2>1. PICK h \in Hosts, v \in Variants :
          LET st == Moved(h, v)
          IN Become(j, CASE st.pc = "ingest" -> st
                         [] st.pc \in {"save", "archive"} ->
                              [st EXCEPT !.pc = "save", !.at = 0]
                         [] OTHER -> [st EXCEPT !.pc = "open", !.at = 0, !.files = {},
                                                !.day = today])
    BY <1>9 DEF Move
  <2> DEFINE st == Moved(h, v)
  <2>2. /\ st \in RunState /\ st.pc = run[j].pc /\ st.at = run[j].at
        /\ st.files = run[j].files /\ st.records = run[j].records
    BY <1>h DEF RunState, Texts
  <2>3. run[j].pc \in {"open", "write", "discover", "ingest", "save", "archive"}
    BY <1>9, <1>h DEF Move, Running, RunState, Pc
  <2> HIDE DEF st
  <2>4. CASE run[j].pc = "ingest"
    <3>1. Become(j, st)
      BY <2>1, <2>2, <2>4 DEF st
    <3> QED
      BY <1>h, <2>2, <2>4, <3>1, ReadLike, ReadKept
  <2>5. CASE run[j].pc \in {"save", "archive"}
    <3> DEFINE nx == [st EXCEPT !.pc = "save", !.at = 0]
    <3>1. Become(j, nx)
      BY <2>1, <2>2, <2>5 DEF st
    <3>2. nx.pc = "save" /\ nx.records = run[j].records /\ nx.files = run[j].files
      BY <2>2 DEF RunState
    <3> HIDE DEF nx
    <3> QED
      BY <1>h, <2>5, <3>1, <3>2, ReadLike, ReadKept
  <2>6. CASE run[j].pc \in {"open", "write", "discover"}
    <3> DEFINE nx == [st EXCEPT !.pc = "open", !.at = 0, !.files = {}, !.day = today]
    <3>1. Become(j, nx)
      BY <2>1, <2>2, <2>6 DEF st
    <3>2. nx.pc = "open" /\ nx.records = run[j].records /\ run[j].records = {}
      BY <1>h, <2>2, <2>6 DEF RunState, ReadsAll
    <3> HIDE DEF nx
    <3> QED
      BY <1>h, <2>6, <3>1, <3>2, ReadLike, ReadKept
  <2> QED
    BY <2>3, <2>4, <2>5, <2>6
<1>10. CASE UNCHANGED run
  BY <1>10 DEF ReadInv
<1> QED
  BY <1>1, <1>2, <1>3, <1>4, <1>5, <1>6, <1>7, <1>8, <1>9, <1>10
  DEF Next, Work, Midnight, vars

-----------------------------------------------------------------------------
(* The theorems.                                                           *)

LEMMA InitOrdered == Init /\ InTurn => OrderInv
<1> SUFFICES ASSUME Init, InTurn PROVE OrderInv
  OBVIOUS
<1>1. \A j, k \in Imports : run[j].host = run[k].host
  BY DEF Init, InTurn
<1>2. \A j \in Imports : /\ run[j].pc = "idle" /\ run[j].at = 0 /\ run[j].hash = "missing"
                         /\ run[j].files = {} /\ run[j].records = {}
  BY DEF Init
<1>3. \A j \in Imports : Knows(j)
  BY <1>2 DEF Knows, Written, HashIsOfFile, FoundIsNew, RecordsAreRead, MarksFollow, At
<1> QED
  BY <1>1, <1>2, <1>3 DEF Init, OrderInv, Running

LEMMA NextOrdered == TypeOK /\ InTurn /\ OrderInv /\ [Next]_vars => OrderInv'
<1> SUFFICES ASSUME TypeOK, InTurn, OrderInv, [Next]_vars PROVE OrderInv'
  OBVIOUS
<1>1. ASSUME NEW j \in Imports, Start(j) \/ Work(j) \/ Move(j) PROVE OrderInv'
  <2>f. UNCHANGED faults
    BY DEF Next, vars
  <2>1. CASE MarkFails(j)
    BY <2>1, <2>f, MarkFailsOrdered
  <2>2. CASE Start(j)
    BY <2>2, <2>f, StartOrdered
  <2>3. CASE OpenFile(j)
    BY <2>3, <2>f, OpenOrdered
  <2>4. CASE WriteFile(j)
    BY <2>4, <2>f, WriteOrdered
  <2>5. CASE HashFile(j)
    BY <2>5, <2>f, HashOrdered
  <2>6. CASE QueryHash(j)
    BY <2>6, <2>f, QueryOrdered
  <2>7. CASE ReadFile(j)
    BY <2>7, <2>f, ReadOrdered
  <2>8. CASE SaveReport(j)
    BY <2>8, <2>f, SaveOrdered
  <2>9. CASE MarkFile(j)
    BY <2>9, <2>f, MarkOrdered
  <2>10. CASE PassOver(j)
    BY <2>10, <2>f, PassOverOrdered
  <2>11. CASE Move(j)
    BY <2>11, <2>f, MoveOrdered
  <2> QED
    BY <1>1, <2>1, <2>2, <2>3, <2>4, <2>5, <2>6, <2>7, <2>8, <2>9, <2>10, <2>11 DEF Work
<1>2. CASE UNCHANGED <<disk, marks, report, run, faults>>
  <2>1. ASSUME NEW j \in Imports PROVE Knows(j)'
    <3>1. Written(j) /\ HashIsOfFile(j) /\ FoundIsNew(j) /\ RecordsAreRead(j) /\ MarksFollow(j)
      BY DEF OrderInv, Knows
    <3>2. Written(j)' /\ HashIsOfFile(j)'
      BY <1>2, <3>1 DEF Written, HashIsOfFile, At, Dir, OnDisk, File
    <3>3. FoundIsNew(j)'
      BY <1>2, <3>1 DEF FoundIsNew, At, Copy, Dir, Marking
    <3>4. RecordsAreRead(j)'
      BY <1>2, <3>1 DEF RecordsAreRead, At, Copy, Dir
    <3>5. MarksFollow(j)'
      BY <1>2, <3>1 DEF MarksFollow, At, Copy, Dir, Marking
    <3> QED
      BY <3>2, <3>3, <3>4, <3>5 DEF Knows
  <2> QED
    BY <1>2, <2>1 DEF OrderInv, Running, Marking
<1> QED
  BY <1>1, <1>2 DEF Next, Midnight, vars

LEMMA OrderAlways == Spec => [](TypeOK /\ (InTurn => OrderInv))
<1>1. Init => TypeOK /\ (InTurn => OrderInv)
  BY InitType, InitOrdered
<1>2. TypeOK /\ (InTurn => OrderInv) /\ [Next]_vars => (TypeOK /\ (InTurn => OrderInv))'
  <2>1. [Next]_vars => (InTurn' <=> InTurn)
    BY DEF Next, vars, InTurn
  <2> QED
    BY <2>1, NextType, NextOrdered
<1> QED
  BY <1>1, <1>2, PTL DEF Spec

\* What counts as processed has been read by some import (daily_import.py 48-65, 196-205).
THEOREM MarkedWasReadCorrect == Spec => []MarkedWasRead
<1>1. (InTurn => OrderInv) => MarkedWasRead
  BY DEF MarkedWasRead, OrderInv
<1> QED
  BY <1>1, OrderAlways, PTL

\* No two imports that completed have read the same content (daily_import.py 57-65,
\* 199-203).
THEOREM ImportedOnceCorrect == Spec => []ContentImportedOnce
<1>1. (InTurn => OrderInv) => ContentImportedOnce
  BY DEF ContentImportedOnce, Orderly, InTurn, OrderInv, Marking
<1> QED
  BY <1>1, OrderAlways, PTL

\* A file is marked only when a report that shows its records is on disk
\* (daily_import.py 188-203).
THEOREM MarkedIsReportedCorrect == Spec => MarkedIsReported
<1> DEFINE A == InTurn => \A m \in marks' \ marks : \E d \in 1..Days : m \in report[d]
<1>1. TypeOK /\ (InTurn => OrderInv) /\ [Next]_vars => [A]_vars
  <2> SUFFICES ASSUME TypeOK, InTurn, OrderInv, [Next]_vars, NEW m \in marks' \ marks
               PROVE  \E d \in 1..Days : m \in report[d]
    OBVIOUS
  <2>1. PICK j \in Imports : MarkFile(j)
    BY DEF Next, Work, Midnight, Start, OpenFile, WriteFile, HashFile, QueryHash, ReadFile,
           SaveReport, MarkFails, PassOver, Move, vars
  <2>2. m \in run[j].records
    <3>1. UNCHANGED faults
      BY <2>1 DEF Next, vars
    <3> QED
      BY <2>1, <3>1, MarkOrdered DEF MarkFile
  <2>3. \E d \in 1..Days : report[d] = run[j].records
    BY <2>1 DEF MarkFile, OrderInv, Knows, MarksFollow, At
  <2> QED
    BY <2>2, <2>3
<1> QED
  BY <1>1, OrderAlways, PTL DEF Spec, MarkedIsReported

\* An import that is complete leaves no file of its directory out (daily_import.py 57-65,
\* 196-206).
THEOREM NothingLeftOutCorrect == Spec => NothingLeftOut
<1> DEFINE A == InTurn => \A j \in Imports : At(j, "returned")' /\ ~At(j, "returned") =>
                  \A f \in Files :
                     \/ Copy(j, f) \in marks'
                     \/ "db_error" \in faults /\ Copy(j, f) \in run[j].records
<1>1. TypeOK /\ (InTurn => OrderInv) /\ [Next]_vars => [A]_vars
  <2> SUFFICES ASSUME TypeOK, InTurn, OrderInv, [Next]_vars, NEW j \in Imports,
                      At(j, "returned")', ~At(j, "returned"), NEW f \in Files
               PROVE  \/ Copy(j, f) \in marks'
                      \/ "db_error" \in faults /\ Copy(j, f) \in run[j].records
    OBVIOUS
  <2>1. run'[j].pc = "returned" /\ run[j].pc # "returned"
    BY DEF At
  <2>2. UNCHANGED faults
    BY DEF Next, vars
  <2>3. MarkFile(j) \/ MarkFails(j) \/ PassOver(j)
    BY <2>1, ReturnsFromArchive
  <2>4. LeavesNothing(j)
    BY <2>2, <2>3, MarkOrdered, MarkFailsOrdered, PassOverOrdered
  <2> QED
    BY <2>1, <2>4 DEF LeavesNothing, Marking
<1> QED
  BY <1>1, OrderAlways, PTL DEF Spec, NothingLeftOut

\* No import goes on to its report before it has read each file it found new, once
\* (daily_import.py 72-77).
THEOREM EveryFileReadCorrect == Spec => []EveryFileRead
<1>1. Init => TypeOK /\ ReadInv
  <2> SUFFICES ASSUME Init, NEW j \in Imports PROVE ReadsAll(run[j])
    BY InitType DEF ReadInv
  <2>1. run[j].pc = "idle" /\ run[j].records = {}
    BY DEF Init
  <2> QED
    BY <2>1 DEF ReadsAll
<1>2. TypeOK /\ ReadInv /\ [Next]_vars => (TypeOK /\ ReadInv)'
  BY NextType, NextRead
<1>3. TypeOK /\ ReadInv => EveryFileRead
  <2> SUFFICES ASSUME TypeOK, ReadInv, NEW j \in Imports,
                      run[j].pc \in {"save", "archive", "returned"}
               PROVE  /\ {m.file : m \in run[j].records} = run[j].files
                      /\ \A m, n \in run[j].records : m.file = n.file => m = n
    BY DEF EveryFileRead
  <2> QED
    BY DEF ReadInv, ReadsAll
<1> QED
  BY <1>1, <1>2, <1>3, PTL DEF Spec
=============================================================================
