----------------------------- MODULE Pipeline -----------------------------
(***************************************************************************)
(* The executions of one job of type DailyImportJob: its pipeline of       *)
(* stages, the step outputs and snapshots they leave in the database, and  *)
(* what a later execution makes of them.  Runs are numbered in the order   *)
(* in which workers take them up; a run that was cut off, or whose worker  *)
(* was given up although it lives (a ghost), is followed by another.       *)
(***************************************************************************)
EXTENDS Integers, Sequences, FiniteSetsExt

CONSTANTS
  MaxRuns,        \* bound: executions of the job
  FileCount,      \* CSV files of the job (payload n_files)
  Checkpointing,  \* FALSE: payload disable_checkpointing
  NoFile,
  Faults          \* subset of {"cut_off", "ghost", "db_error", "other_import"}

ASSUME PipelineAssumption ==
  /\ MaxRuns \in Nat \ {0} /\ FileCount \in Nat \ {0} /\ Checkpointing \in BOOLEAN
  /\ NoFile \notin 1..FileCount

VARIABLES
  snapshots,  \* Checkpoint rows
  outputs,    \* StepOutput rows of stage ingest: by position, what file was read
  imported,   \* SourceFile rows: files that count as processed, and by whose doing
  artifact,   \* the report on disk: the contents it was made from
  exec        \* exec[r]: local state of run r

vars == <<snapshots, outputs, imported, artifact, exec>>

Runs   == 1..MaxRuns
Files  == 1..FileCount  \* in the order discover finds them; content and hash
Stages == <<"discover", "ingest", "report", "archive">>

\* The pure stages validate, transform and report are one.
StageSet == DOMAIN Stages

Pc == {"idle", "stage", "record", "save", "clean", "delete", "returned", "dead"}

Snapshot == [seq : Nat, done : SUBSET StageSet, files : Seq(Files), records : Seq(Files),
             by : Runs]

\* done is _completed_stages, seq _checkpoint_sequence; at counts what the stage
\* has handled (in ingest it is the step counter); doomed is what a clean-up has
\* read and not yet deleted.
RunState == [pc : Pc, done : SUBSET StageSet, seq : Nat, at : Nat,
             files : Seq(Files), records : Seq(Files), doomed : SUBSET Snapshot]

Fresh == [pc |-> "idle", done |-> {}, seq |-> 0, at |-> 0,
          files |-> <<>>, records |-> <<>>, doomed |-> {}]

Init ==
  /\ snapshots = {} /\ artifact = <<>>
  /\ imported = [f \in Files |-> "no"]
  /\ outputs = [i \in Files |-> NoFile]
  /\ exec = [r \in Runs |-> Fresh]

-----------------------------------------------------------------------------
Executing(r) == exec[r].pc \notin {"idle", "returned", "dead"}
Remaining(st) == StageSet \ st.done
Stage(st) == Min(Remaining(st))
Doing(r, name) == exec[r].pc = "stage" /\ Stages[Stage(exec[r])] = name

Become(r, st) == exec' = [exec EXCEPT ![r] = st]
Onward(st) == [st EXCEPT !.pc = IF Remaining(st) = {} THEN "returned" ELSE "stage"]

\* Highest sequence number, 0 without a snapshot.
LatestSeq == Max({c.seq : c \in snapshots} \cup {0})
Latest == CHOOSE c \in snapshots : c.seq = LatestSeq

\* Mutant: the sequence number is not restored.
ResumedFromZero(c) == [Fresh EXCEPT !.done = c.done, !.files = c.files, !.records = c.records]

Resumed(c) == [Fresh EXCEPT !.done = c.done, !.seq = c.seq,
                            !.files = c.files, !.records = c.records]

\* A worker takes the job up: the executor loads the latest snapshot; an error in
\* that is logged, and the run starts from scratch.
Begin(r) ==
  /\ exec[r].pc = "idle"
  /\ \A q \in 1..(r - 1) : exec[q].pc # "idle" /\ ("ghost" \in Faults \/ ~Executing(q))
  /\ \/ Checkpointing /\ snapshots # {} /\ Become(r, Onward(Resumed(Latest)))
     \/ /\ ~Checkpointing \/ snapshots = {} \/ "db_error" \in Faults
        /\ Become(r, Onward(Fresh))
  /\ UNCHANGED <<snapshots, outputs, imported, artifact>>

-----------------------------------------------------------------------------
(* Stages.                                                                 *)

\* One query per file: is its hash among the source files?
Discover(r) ==
  LET st == exec[r]
      f  == st.at + 1
  IN /\ Doing(r, "discover") /\ st.at < FileCount
     /\ Become(r, [st EXCEPT !.at = f,
                             !.files = IF imported[f] = "no" THEN Append(@, f) ELSE @])
     /\ UNCHANGED <<snapshots, outputs, imported, artifact>>

\* Mutant: a step without a row is replayed too.
RecordedAlways(i) == TRUE

Recorded(i) == outputs[i] # NoFile

\* step() looks for an output recorded at its position, or else calls _read_csv.
LookUp(r) ==
  LET st == exec[r]
      i  == st.at + 1
  IN /\ Doing(r, "ingest") /\ st.at < Len(st.files)
     /\ \/ /\ Recorded(i)
           /\ Become(r, [st EXCEPT !.at = i, !.records = Append(@, outputs[i])])
        \/ /\ ~Recorded(i)
           /\ Become(r, [st EXCEPT !.pc = "record"])
     /\ UNCHANGED <<snapshots, outputs, imported, artifact>>

\* A row another run has recorded meanwhile stays; the result is used all the same.
RecordStep(r) ==
  LET st == exec[r]
      i  == st.at + 1
  IN /\ st.pc = "record"
     /\ outputs' = [outputs EXCEPT ![i] = IF @ = NoFile THEN st.files[i] ELSE @]
     /\ Become(r, [st EXCEPT !.pc = "stage", !.at = i, !.records = Append(@, st.files[i])])
     /\ UNCHANGED <<snapshots, imported, artifact>>

\* The artifact replaces that of an earlier run.
SaveArtifact(r) ==
  /\ Doing(r, "archive") /\ exec[r].at = 0
  /\ artifact' = exec[r].records
  /\ Become(r, [exec[r] EXCEPT !.at = 1])
  /\ UNCHANGED <<snapshots, outputs, imported>>

\* get_or_create; a failed one is logged and passed over, and so is a missing file.
MarkImported(r) ==
  LET st == exec[r]
      f  == st.files[st.at]
  IN /\ Doing(r, "archive") /\ st.at \in DOMAIN st.files
     /\ \/ imported' = [imported EXCEPT ![f] = IF @ = "no" THEN "ours" ELSE @]
        \/ "db_error" \in Faults /\ UNCHANGED imported
     /\ Become(r, [st EXCEPT !.at = @ + 1])
     /\ UNCHANGED <<snapshots, outputs, artifact>>

\* Mutant: the last file is forgotten.
ItemsButOne(st) ==
  CASE Stages[Stage(st)] = "discover" -> FileCount
    [] Stages[Stage(st)] = "ingest" -> Max({Len(st.files) - 1, 0})
    [] Stages[Stage(st)] = "archive" -> Max({Len(st.files), 1})
    [] OTHER -> 0

\* What a stage goes through: the files, and in archive the artifact before them.
Items(st) ==
  CASE Stages[Stage(st)] = "discover" -> FileCount
    [] Stages[Stage(st)] = "ingest" -> Len(st.files)
    [] Stages[Stage(st)] = "archive" -> Len(st.files) + 1
    [] OTHER -> 0

\* Mutant: the first stage is not thought worth a snapshot.
StageDoneSecondOn(st) ==
  LET next == [st EXCEPT !.done = @ \cup {Stage(st)}, !.seq = @ + 1, !.at = 0]
  IN IF Checkpointing /\ next.seq > 1 THEN [next EXCEPT !.pc = "save"] ELSE Onward(next)

StageDone(st) ==
  LET next == [st EXCEPT !.done = @ \cup {Stage(st)}, !.seq = @ + 1, !.at = 0]
  IN IF Checkpointing THEN [next EXCEPT !.pc = "save"] ELSE Onward(next)

\* The stage function returns.
EndStage(r) ==
  /\ exec[r].pc = "stage" /\ exec[r].at = Items(exec[r])
  /\ Become(r, StageDone(exec[r]))
  /\ UNCHANGED <<snapshots, outputs, imported, artifact>>

-----------------------------------------------------------------------------
(* Snapshots.  Any error in saving or cleaning up is logged and passed     *)
(* over; there is no clean-up after a failed save.                         *)

\* A duplicate of a sequence number is dropped.
SaveSnapshot(r) ==
  LET st == exec[r]
  IN /\ st.pc = "save"
     /\ \/ /\ snapshots' = IF \E c \in snapshots : c.seq = st.seq THEN snapshots
                           ELSE snapshots \cup
                                {[seq |-> st.seq, done |-> st.done, files |-> st.files,
                                  records |-> st.records, by |-> r]}
           /\ Become(r, [st EXCEPT !.pc = "clean"])
        \/ /\ "db_error" \in Faults /\ UNCHANGED snapshots
           /\ Become(r, Onward(st))
     /\ UNCHANGED <<outputs, imported, artifact>>

\* Mutant: the list is sorted the other way round.
KeptOldest(rows) == {c \in rows : Cardinality({d \in rows : d.seq < c.seq}) < 2}

Kept(rows) == {c \in rows : Cardinality({d \in rows : d.seq > c.seq}) < 2}

\* cleanup_checkpoints reads the rows ...
ReadSnapshots(r) ==
  LET st  == exec[r]
      old == snapshots \ Kept(snapshots)
  IN /\ st.pc = "clean"
     /\ \/ Become(r, IF old = {} THEN Onward(st)
                     ELSE [st EXCEPT !.pc = "delete", !.doomed = old])
        \/ "db_error" \in Faults /\ Become(r, Onward(st))
     /\ UNCHANGED <<snapshots, outputs, imported, artifact>>

\* ... and deletes all but two one by one, the later ones first.
DeleteSnapshot(r) ==
  LET st == exec[r]
  IN /\ st.pc = "delete"
     /\ \/ \E c \in st.doomed :
             LET left == st.doomed \ {c}
             IN /\ \A e \in left : e.seq <= c.seq
                /\ snapshots' = snapshots \ {c}
                /\ Become(r, IF left = {} THEN Onward([st EXCEPT !.doomed = {}])
                             ELSE [st EXCEPT !.doomed = left])
        \/ /\ "db_error" \in Faults /\ UNCHANGED snapshots
           /\ Become(r, Onward([st EXCEPT !.doomed = {}]))
     /\ UNCHANGED <<outputs, imported, artifact>>

-----------------------------------------------------------------------------
\* The run fails, is cancelled, or dies with its worker.
CutOff(r) ==
  /\ "cut_off" \in Faults /\ Executing(r)
  /\ Become(r, [Fresh EXCEPT !.pc = "dead"])
  /\ UNCHANGED <<snapshots, outputs, imported, artifact>>

\* Another job of the tenant archives a file with the same hash.
OtherImport ==
  /\ "other_import" \in Faults
  /\ \E f \in Files : imported[f] = "no" /\ imported' = [imported EXCEPT ![f] = "others"]
  /\ UNCHANGED <<snapshots, outputs, artifact, exec>>

RunNext(r) ==
  \/ Begin(r) \/ Discover(r) \/ LookUp(r) \/ RecordStep(r)
  \/ SaveArtifact(r) \/ MarkImported(r) \/ EndStage(r)
  \/ SaveSnapshot(r) \/ ReadSnapshots(r) \/ DeleteSnapshot(r) \/ CutOff(r)

Next == OtherImport \/ \E r \in Runs : RunNext(r)

Spec == Init /\ [][Next]_vars

-----------------------------------------------------------------------------
TypeOK ==
  /\ snapshots \in SUBSET Snapshot
  /\ outputs \in [Files -> Files \cup {NoFile}]
  /\ imported \in [Files -> {"no", "ours", "others"}] /\ artifact \in Seq(Files)
  /\ exec \in [Runs -> RunState]

\* What a snapshot says is complete are the first stages, as many as its number: a
\* resumed run continues the numbering, and a duplicate it drops claims the same
\* (executor.py 57, pipeline.py 35 and 50-51, manager.py 26-32).
SnapshotsArePrefixes == \A c \in snapshots : c.done = 1..c.seq

\* A snapshot that says ingest is complete holds the records of all its files, and
\* each of these steps is recorded, so that nothing has to be read again
\* (pipeline.py 47-54, step.py 18-39).
SnapshotsBacked ==
  \A c \in snapshots : 2 \in c.done =>
    Len(c.records) = Len(c.files) /\ \A i \in DOMAIN c.files : Recorded(i)

\* Progress that was saved is never lost: a clean-up that acts on the rows it read
\* earlier does not delete the latest snapshot, whatever other runs save, drop and
\* delete meanwhile (manager.py 65-80).
NoRegress == [][LatestSeq' >= LatestSeq]_vars

\* While runs follow one another, a stage that a snapshot says is complete is not
\* executed again (executor.py 48-57, pipeline.py 37-40).
CompletedStagesNotRepeated ==
  \A r \in Runs : exec[r].pc \in {"stage", "record"} =>
    \A c \in snapshots : Stage(exec[r]) \notin c.done

\* The records a run works on are those of its files, in order: position i of ingest
\* gives the content of file i, whether it was read or replayed (step.py 17-24,
\* daily_import.py 70-77).
RecordsMatchFiles ==
  \A r \in Runs :
    /\ exec[r].records = SubSeq(exec[r].files, 1, Len(exec[r].records))
    /\ 2 \in exec[r].done => exec[r].records = exec[r].files

\* When a run returns, every file of the job counts as processed, by it, by one of
\* its predecessors or by another job (daily_import.py 57-65, 196-205).
NothingLeftBehind ==
  \A r \in Runs : exec[r].pc = "returned" => \A f \in Files : imported[f] # "no"

\* While runs follow one another, a file that this job marked as processed is in its
\* report: a run that replaces the report has at least what the one before had
\* (daily_import.py 187-205).
ImportedIsReported ==
  \A f \in Files : imported[f] = "ours" => \E i \in DOMAIN artifact : artifact[i] = f
=============================================================================
