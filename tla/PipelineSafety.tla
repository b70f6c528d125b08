-------------------------- MODULE PipelineSafety --------------------------
(***************************************************************************)
(* For any number of runs and of files: what snapshots claim, and that the *)
(* latest is never lost, whatever runs at the same time and fails; that no *)
(* file is left behind; and, of runs that follow one another, what they    *)
(* repeat, read and report.                                                *)
(***************************************************************************)
EXTENDS Pipeline, FiniteSetTheorems, TLAPS

\* ingest is complete, and can be replayed.
Backed(files, records) ==
  Len(records) = Len(files) /\ \A i \in 1..Len(files) : Recorded(i)

\* A run has completed the first seq stages; while it goes through the files, at says
\* how far it has come.
Progress(st) ==
  /\ st.done = 1..st.seq /\ st.seq <= 4
  /\ Len(st.files) <= FileCount
  /\ st.seq = 0 => st.records = <<>> /\ Len(st.files) <= st.at /\ st.at <= FileCount
  /\ st.seq = 1 => /\ Len(st.records) = st.at /\ st.at <= Len(st.files)
                   /\ \A i \in 1..st.at : Recorded(i)
  /\ st.seq >= 2 => Backed(st.files, st.records)

PcOK(st) ==
  /\ st.pc \in {"stage", "record"} => st.seq < 4
  /\ st.pc \in {"save", "clean", "delete"} => st.seq > 0 /\ st.at = 0
  /\ st.pc = "record" => st.seq = 1 /\ st.at < Len(st.files)

SnapshotOK(c) ==
  /\ c.done = 1..c.seq /\ c.seq \in 1..4
  /\ Len(c.files) <= FileCount
  /\ c.seq = 1 => c.records = <<>>
  /\ c.seq >= 2 => Backed(c.files, c.records)

\* What a clean-up is about to delete has a successor.
DoomedOK(st) == \A d \in st.doomed : d.seq < LatestSeq

PipelineInv ==
  /\ TypeOK
  /\ \A r \in Runs : Progress(exec[r]) /\ PcOK(exec[r]) /\ DoomedOK(exec[r])
  /\ \A c \in snapshots : SnapshotOK(c)

-----------------------------------------------------------------------------
(* The stage a run is in, and the latest snapshot.                         *)

LEMMA MaxOfFew ==
  ASSUME NEW S, S \subseteq 0..4, S # {}
  PROVE  Max(S) \in S /\ \A y \in S : y <= Max(S)
<1>1. \E m \in S : \A y \in S : m >= y
  <2>1. CASE 4 \in S
    BY <2>1
  <2>2. CASE 4 \notin S /\ 3 \in S
    BY <2>2
  <2>3. CASE 4 \notin S /\ 3 \notin S /\ 2 \in S
    BY <2>3
  <2>4. CASE 4 \notin S /\ 3 \notin S /\ 2 \notin S /\ 1 \in S
    BY <2>4
  <2>5. CASE 4 \notin S /\ 3 \notin S /\ 2 \notin S /\ 1 \notin S
    <3>1. PICK x \in S : TRUE
      OBVIOUS
    <3>2. \A y \in S : y = 0
      BY <2>5
    <3> QED BY <3>1, <3>2
  <2> QED BY <2>1, <2>2, <2>3, <2>4, <2>5
<1>2. Max(S) \in S /\ \A y \in S : Max(S) >= y
  BY <1>1 DEF Max
<1> QED BY <1>2

LEMMA StageNumber ==
  ASSUME NEW st \in RunState, Progress(st)
  PROVE  /\ Remaining(st) = (st.seq + 1)..4
         /\ st.seq < 4 => Stage(st) = st.seq + 1
         /\ Stages = <<"discover", "ingest", "report", "archive">> /\ StageSet = 1..4
<1>1. StageSet = 1..4
  BY DEF StageSet, Stages
<1>2. Remaining(st) = (st.seq + 1)..4
  BY <1>1 DEF Remaining, Progress, RunState
<1>3. ASSUME st.seq < 4
      PROVE  Stage(st) = st.seq + 1
  <2> DEFINE S == (st.seq + 1)..4
  <2>1. st.seq + 1 \in S /\ \A y \in S : st.seq + 1 =< y
    BY <1>3 DEF RunState
  <2>2. \A x \in S : (\A y \in S : x =< y) => x = st.seq + 1
    BY <2>1 DEF RunState
  <2>3. Stage(st) = CHOOSE x \in S : \A y \in S : x =< y
    BY <1>2 DEF Stage, Min
  <2> HIDE DEF S
  <2> QED BY <2>1, <2>2, <2>3
<1> QED BY <1>1, <1>2, <1>3 DEF Stages

LEMMA LatestFacts ==
  ASSUME PipelineInv
  PROVE  /\ LatestSeq \in 0..4
         /\ \A c \in snapshots : c.seq <= LatestSeq
         /\ snapshots # {} => Latest \in snapshots /\ Latest.seq = LatestSeq
<1> DEFINE S == {c.seq : c \in snapshots} \cup {0}
<1>1. S \subseteq 0..4 /\ S # {}
  BY DEF PipelineInv, SnapshotOK
<1>2. LatestSeq \in S /\ \A y \in S : y <= LatestSeq
  BY <1>1, MaxOfFew DEF LatestSeq
<1>3. ASSUME snapshots # {}
      PROVE  \E c \in snapshots : c.seq = LatestSeq
  <2>1. PICK c \in snapshots : TRUE
    BY <1>3
  <2>2. c.seq \in 1..4 /\ c.seq <= LatestSeq
    BY <1>2 DEF PipelineInv, SnapshotOK
  <2>3. LatestSeq # 0
    BY <2>2
  <2> QED BY <1>2, <2>3
<1>4. snapshots # {} => Latest \in snapshots /\ Latest.seq = LatestSeq
  BY <1>3 DEF Latest
<1> QED BY <1>1, <1>2, <1>4

LEMMA OnwardFields ==
  ASSUME NEW st \in RunState, Progress(st)
  PROVE  /\ Onward(st) \in RunState /\ Onward(st).pc = IF st.seq = 4 THEN "returned" ELSE "stage"
         /\ Onward(st).done = st.done /\ Onward(st).seq = st.seq /\ Onward(st).at = st.at
         /\ Onward(st).files = st.files /\ Onward(st).records = st.records
         /\ Onward(st).doomed = st.doomed
<1>1. Remaining(st) = (st.seq + 1)..4
  BY StageNumber
<1>2. Onward(st) = [st EXCEPT !.pc = IF st.seq = 4 THEN "returned" ELSE "stage"]
  <2>1. st.seq \in Nat /\ st.seq <= 4
    BY DEF RunState, Progress
  <2>2. (st.seq + 1)..4 = {} <=> st.seq = 4
    <3>1. CASE st.seq = 4
      BY <3>1
    <3>2. CASE st.seq < 4
      <4>1. 4 \in (st.seq + 1)..4
        BY <2>1, <3>2
      <4> QED BY <4>1, <3>2, <2>1
    <3> QED BY <2>1, <3>1, <3>2
  <2> QED BY <1>1, <2>2 DEF Onward
<1> QED
  BY <1>2 DEF RunState, Pc

LEMMA OnwardOK ==
  ASSUME NEW st \in RunState, Progress(st)
  PROVE  /\ Onward(st) \in RunState /\ Progress(Onward(st)) /\ PcOK(Onward(st))
         /\ Onward(st).doomed = st.doomed
<1>3. /\ Onward(st) \in RunState /\ Onward(st).pc = IF st.seq = 4 THEN "returned" ELSE "stage"
      /\ Onward(st).done = st.done /\ Onward(st).seq = st.seq /\ Onward(st).at = st.at
      /\ Onward(st).files = st.files /\ Onward(st).records = st.records
      /\ Onward(st).doomed = st.doomed
  BY OnwardFields
<1>4. Progress(Onward(st))
  BY <1>3 DEF Progress
<1>5. PcOK(Onward(st))
  <2>1. st.seq <= 4 /\ st.seq \in Nat
    BY DEF Progress, RunState
  <2>2. st.seq = 4 \/ (st.seq < 4 /\ st.seq # 4)
    BY <2>1
  <2>3. Onward(st).pc \in {"returned", "stage"} /\ (Onward(st).pc = "stage" => st.seq < 4)
    BY <1>3, <2>2
  <2> QED BY <1>3, <2>3 DEF PcOK
<1> QED BY <1>3, <1>4, <1>5

LEMMA NextStageOK ==
  ASSUME NEW st \in RunState, Progress(st), PcOK(st), st.pc = "stage", st.at = Items(st)
  PROVE  /\ StageDone(st) \in RunState /\ Progress(StageDone(st)) /\ PcOK(StageDone(st))
         /\ StageDone(st).doomed = st.doomed
<1>1. st.seq < 4 /\ Stage(st) = st.seq + 1 /\ StageSet = 1..4
  BY StageNumber DEF PcOK
<1>2. /\ st.seq = 0 => Items(st) = FileCount
      /\ st.seq = 1 => Items(st) = Len(st.files)
  BY <1>1 DEF Items, Stages
<1> DEFINE next == [st EXCEPT !.done = @ \cup {Stage(st)}, !.seq = @ + 1, !.at = 0]
<1>3. /\ next \in RunState /\ next.doomed = st.doomed /\ next.at = 0 /\ next.seq = st.seq + 1
      /\ next.files = st.files /\ next.records = st.records
      /\ next.done = 1..(st.seq + 1)
  <2>1. st.seq \in Nat /\ st.done = 1..st.seq
    BY DEF RunState, Progress
  <2>2. (1..st.seq) \cup {st.seq + 1} = 1..(st.seq + 1)
    BY <2>1
  <2>3. 1..(st.seq + 1) \in SUBSET StageSet
    BY <1>1, <2>1
  <2> DEFINE Ended(d, n) == [st EXCEPT !.done = d, !.seq = n, !.at = 0]
  <2>4. next = Ended(1..(st.seq + 1), st.seq + 1)
    BY <1>1, <2>1, <2>2
  <2>5. st.seq + 1 \in Nat
    BY <2>1
  <2>6. ASSUME NEW d \in SUBSET StageSet, NEW n \in Nat
        PROVE  /\ Ended(d, n) \in RunState
               /\ Ended(d, n).done = d /\ Ended(d, n).seq = n /\ Ended(d, n).at = 0
               /\ Ended(d, n).files = st.files /\ Ended(d, n).records = st.records
               /\ Ended(d, n).doomed = st.doomed
    BY DEF RunState
  <2> HIDE DEF next, Ended
  <2> QED BY <2>3, <2>4, <2>5, <2>6
<1>4. Progress(next)
  <2> HIDE DEF next
  <2>1. st.seq \in Nat /\ Len(st.files) \in Nat /\ Len(st.records) \in Nat
    BY DEF RunState
  <2>2. next.seq # 0 /\ next.seq <= 4 /\ next.done = 1..next.seq
    BY <1>1, <1>3, <2>1
  <2>3. Len(next.files) <= FileCount
    BY <1>3 DEF Progress
  <2>4. ASSUME next.seq = 1
        PROVE  Len(next.records) = 0 /\ next.at <= Len(next.files) /\ next.at = 0
    BY <1>3, <2>1, <2>4 DEF Progress
  <2>5. ASSUME next.seq >= 2
        PROVE  Backed(next.files, next.records)
    <3>1. CASE st.seq = 1
      BY <1>2, <1>3, <3>1 DEF Progress, Backed
    <3>2. CASE st.seq >= 2
      BY <1>3, <3>2 DEF Progress
    <3> QED BY <1>3, <2>1, <2>5, <3>1, <3>2
  <2> QED BY <2>2, <2>3, <2>4, <2>5 DEF Progress
<1>5. StageDone(st) = IF Checkpointing THEN [next EXCEPT !.pc = "save"] ELSE Onward(next)
  BY DEF StageDone
<1> DEFINE saving == [next EXCEPT !.pc = "save"]
<1> HIDE DEF next
<1>6. /\ saving \in RunState /\ saving.pc = "save" /\ saving.done = next.done
      /\ saving.seq = next.seq /\ saving.at = next.at /\ saving.files = next.files
      /\ saving.records = next.records /\ saving.doomed = next.doomed
  BY <1>3 DEF RunState, Pc
<1>7. Progress(saving) /\ PcOK(saving)
  <2> HIDE DEF saving
  <2>1. Progress(saving)
    BY <1>4, <1>6 DEF Progress
  <2>2. PcOK(saving)
    BY <1>3, <1>6 DEF PcOK, RunState
  <2> QED BY <2>1, <2>2
<1> QED BY <1>3, <1>4, <1>5, <1>6, <1>7, OnwardOK

-----------------------------------------------------------------------------
(* Steps that leave the snapshots alone.                                   *)

\* Step outputs are never deleted.
OutputsKept == \A i \in Files : Recorded(i) => Recorded(i)'

LEMMA ProgressKept ==
  ASSUME OutputsKept, NEW st \in RunState, Progress(st)
  PROVE  Progress(st)'
<1>1. Len(st.files) \in Nat /\ Len(st.files) <= FileCount /\ st.at \in Nat
  BY DEF RunState, Progress
<1>2. ASSUME st.seq = 1
      PROVE  \A i \in 1..st.at : Recorded(i)'
  BY <1>1, <1>2, PipelineAssumption DEF Progress, OutputsKept, Files
<1>3. ASSUME st.seq >= 2
      PROVE  Backed(st.files, st.records)'
  BY <1>1, <1>3, PipelineAssumption DEF Progress, OutputsKept, Files, Backed
<1> QED BY <1>2, <1>3 DEF Progress

LEMMA SnapshotKept ==
  ASSUME OutputsKept, NEW c \in Snapshot, SnapshotOK(c)
  PROVE  SnapshotOK(c)'
<1>1. Len(c.files) \in Nat /\ Len(c.files) <= FileCount
  BY DEF Snapshot, SnapshotOK
<1>2. ASSUME c.seq >= 2
      PROVE  Backed(c.files, c.records)'
  BY <1>1, <1>2, PipelineAssumption DEF SnapshotOK, OutputsKept, Files, Backed
<1> QED BY <1>2 DEF SnapshotOK

LEMMA LocalStep ==
  ASSUME PipelineInv, NEW r \in Runs, NEW st \in RunState, Become(r, st),
         UNCHANGED snapshots, OutputsKept, outputs' \in [Files -> Files \cup {NoFile}],
         imported' \in [Files -> {"no", "ours", "others"}], artifact' \in Seq(Files),
         Progress(st)', PcOK(st), DoomedOK(st)
  PROVE  PipelineInv'
<1>1. /\ exec' \in [Runs -> RunState] /\ exec'[r] = st
      /\ \A q \in Runs \ {r} : exec'[q] = exec[q]
  BY DEF Become, PipelineInv, TypeOK
<1>2. TypeOK'
  BY <1>1 DEF TypeOK, PipelineInv
<1>3. ASSUME NEW q \in Runs
      PROVE  (Progress(exec[q]) /\ PcOK(exec[q]) /\ DoomedOK(exec[q]))'
  <2>1. LatestSeq' = LatestSeq
    BY DEF LatestSeq
  <2>2. CASE q = r
    BY <1>1, <2>1, <2>2 DEF Progress, PcOK, DoomedOK, Backed, Recorded
  <2>3. CASE q # r
    <3>1. exec[q] \in RunState /\ Progress(exec[q]) /\ PcOK(exec[q]) /\ DoomedOK(exec[q])
      BY DEF PipelineInv, TypeOK
    <3>2. \A s \in RunState : Progress(s) => Progress(s)'
      BY ProgressKept
    <3>3. exec'[q] = exec[q]
      BY <1>1, <2>3
    <3> QED BY <2>1, <3>1, <3>2, <3>3 DEF Progress, PcOK, DoomedOK, Backed, Recorded
  <2> QED BY <2>2, <2>3
<1>4. ASSUME NEW c \in snapshots'
      PROVE  SnapshotOK(c)'
  BY <1>4, SnapshotKept DEF PipelineInv, TypeOK
<1> QED BY <1>2, <1>3, <1>4 DEF PipelineInv

LEMMA QuietStep ==
  ASSUME PipelineInv, NEW r \in Runs, NEW st \in RunState, Become(r, st),
         UNCHANGED <<snapshots, outputs, imported, artifact>>,
         Progress(st), PcOK(st), DoomedOK(st)
  PROVE  PipelineInv'
<1>1. OutputsKept /\ outputs' \in [Files -> Files \cup {NoFile}]
  BY DEF OutputsKept, Recorded, PipelineInv, TypeOK
<1>2. /\ imported' \in [Files -> {"no", "ours", "others"}] /\ artifact' \in Seq(Files)
  BY DEF PipelineInv, TypeOK
<1>3. Progress(st)'
  BY <1>1, ProgressKept
<1> QED BY <1>1, <1>2, <1>3, LocalStep

LEMMA StageNames ==
  ASSUME NEW st \in RunState, Progress(st), PcOK(st), st.pc = "stage"
  PROVE  /\ Stages[Stage(st)] = "discover" => st.seq = 0
         /\ Stages[Stage(st)] = "ingest" => st.seq = 1
         /\ Stages[Stage(st)] = "archive" => st.seq = 3
<1>1. st.seq \in Nat /\ st.seq < 4 /\ Stage(st) = st.seq + 1
  BY StageNumber DEF PcOK, RunState
<1>2. st.seq \in {0, 1, 2, 3}
  BY <1>1
<1> QED BY <1>1, <1>2 DEF Stages

LEMMA BeginInv ==
  ASSUME PipelineInv, NEW r \in Runs, Begin(r)
  PROVE  PipelineInv'
<1>1. Fresh \in RunState /\ Progress(Fresh)
  BY PipelineAssumption DEF Fresh, RunState, Pc, Progress
<1>2. ASSUME NEW st \in RunState, Progress(st), st.doomed = {}, Become(r, Onward(st))
      PROVE  PipelineInv'
  <2>1. DoomedOK(Onward(st))
    BY <1>2, OnwardOK DEF DoomedOK
  <2>2. UNCHANGED <<snapshots, outputs, imported, artifact>>
    BY DEF Begin
  <2> QED BY <1>2, <2>1, <2>2, OnwardOK, QuietStep
<1>3. CASE Become(r, Onward(Fresh))
  BY <1>1, <1>2, <1>3 DEF Fresh
<1>4. CASE snapshots # {} /\ Become(r, Onward(Resumed(Latest)))
  <2> DEFINE c == Latest
             st == Resumed(c)
  <2>1. c \in Snapshot /\ SnapshotOK(c)
    BY <1>4, LatestFacts DEF PipelineInv, TypeOK
  <2> HIDE DEF c
  <2>2. /\ st \in RunState /\ st.done = c.done /\ st.seq = c.seq /\ st.at = 0
        /\ st.files = c.files /\ st.records = c.records /\ st.doomed = {}
    BY <2>1, <1>1 DEF Resumed, Fresh, RunState, Snapshot
  <2> HIDE DEF st
  <2>3. c.seq \in 1..4 /\ Len(c.files) \in Nat
    BY <2>1 DEF SnapshotOK, Snapshot
  <2>4. Progress(st)
    BY <2>1, <2>2, <2>3 DEF Progress, SnapshotOK
  <2> QED BY <1>2, <1>4, <2>2, <2>4 DEF st, c
<1> QED BY <1>3, <1>4 DEF Begin

LEMMA RunFacts ==
  ASSUME PipelineInv, NEW r \in Runs
  PROVE  /\ exec[r] \in RunState /\ Progress(exec[r]) /\ PcOK(exec[r]) /\ DoomedOK(exec[r])
         /\ exec[r].seq \in Nat /\ exec[r].at \in Nat
         /\ exec[r].files \in Seq(Files) /\ exec[r].records \in Seq(Files)
         /\ Len(exec[r].files) \in Nat /\ Len(exec[r].records) \in Nat
<1>1. exec[r] \in RunState
  BY DEF PipelineInv, TypeOK
<1> QED BY <1>1 DEF PipelineInv, RunState

LEMMA DiscoverInv ==
  ASSUME PipelineInv, NEW r \in Runs, Discover(r)
  PROVE  PipelineInv'
<1> DEFINE st  == exec[r]
           new == IF imported[st.at + 1] = "no" THEN Append(st.files, st.at + 1) ELSE st.files
           s2  == [st EXCEPT !.at = st.at + 1, !.files = new]
<1>1. /\ st \in RunState /\ Progress(st) /\ PcOK(st) /\ DoomedOK(st) /\ st.pc = "stage"
      /\ st.seq = 0 /\ st.at \in Nat /\ st.at < FileCount
      /\ UNCHANGED <<snapshots, outputs, imported, artifact>>
  BY RunFacts, StageNames DEF Discover, Doing
<1>2. Become(r, s2)
  BY DEF Discover
<1>3. new \in Seq(Files) /\ Len(new) \in Nat /\ Len(new) <= st.at + 1
  <2>1. st.files \in Seq(Files) /\ st.at + 1 \in Files /\ Len(st.files) <= st.at
    BY <1>1, PipelineAssumption DEF RunState, Progress, Files
  <2> QED BY <1>1, <2>1
<1> HIDE DEF st, new
<1>4. /\ s2 \in RunState /\ s2.pc = st.pc /\ s2.done = st.done /\ s2.seq = st.seq
      /\ s2.at = st.at + 1 /\ s2.files = new /\ s2.records = st.records
      /\ s2.doomed = st.doomed
  <2>1. ASSUME NEW n \in Nat, NEW fs \in Seq(Files)
        PROVE  LET t == [st EXCEPT !.at = n, !.files = fs]
               IN /\ t \in RunState /\ t.pc = st.pc /\ t.done = st.done /\ t.seq = st.seq
                  /\ t.at = n /\ t.files = fs /\ t.records = st.records
                  /\ t.doomed = st.doomed
    BY <1>1 DEF RunState
  <2>2. st.at + 1 \in Nat
    BY <1>1
  <2> QED BY <1>3, <2>1, <2>2
<1> HIDE DEF s2
<1>5. Progress(s2)
  BY <1>1, <1>3, <1>4, PipelineAssumption DEF Progress
<1>6. PcOK(s2) /\ DoomedOK(s2)
  BY <1>1, <1>4 DEF PcOK, DoomedOK
<1> QED BY <1>1, <1>2, <1>4, <1>5, <1>6, QuietStep

\* A run in ingest adds one record; its step is recorded by then.
LEMMA OneMoreRecord ==
  ASSUME NEW st \in RunState, Progress(st), PcOK(st), st.seq = 1, st.at < Len(st.files),
         OutputsKept, Recorded(st.at + 1)', NEW f \in Files
  PROVE  LET s2 == [st EXCEPT !.pc = "stage", !.at = st.at + 1,
                              !.records = Append(st.records, f)]
         IN s2 \in RunState /\ Progress(s2)' /\ PcOK(s2) /\ s2.doomed = st.doomed
<1> DEFINE s2 == [st EXCEPT !.pc = "stage", !.at = st.at + 1,
                            !.records = Append(st.records, f)]
<1>1. /\ st.at \in Nat /\ st.records \in Seq(Files) /\ Len(st.files) \in Nat
      /\ Len(st.files) <= FileCount /\ Len(st.records) = st.at
  BY DEF RunState, Progress
<1>2. Append(st.records, f) \in Seq(Files) /\ Len(Append(st.records, f)) = st.at + 1
  BY <1>1
<1>3. /\ s2 \in RunState /\ s2.pc = "stage" /\ s2.done = st.done /\ s2.seq = 1
      /\ s2.at = st.at + 1 /\ s2.files = st.files
      /\ s2.records = Append(st.records, f) /\ s2.doomed = st.doomed
  <2>1. ASSUME NEW n \in Nat, NEW rs \in Seq(Files)
        PROVE  LET t == [st EXCEPT !.pc = "stage", !.at = n, !.records = rs]
               IN /\ t \in RunState /\ t.pc = "stage" /\ t.done = st.done /\ t.seq = st.seq
                  /\ t.at = n /\ t.files = st.files /\ t.records = rs
                  /\ t.doomed = st.doomed
    BY DEF RunState, Pc
  <2>2. st.at + 1 \in Nat
    BY <1>1
  <2> QED BY <1>2, <2>1, <2>2
<1> HIDE DEF s2
<1>4. \A i \in 1..(st.at + 1) : Recorded(i)'
  <2>1. Progress(st)'
    BY ProgressKept
  <2> QED BY <1>1, <2>1 DEF Progress
<1>5. Progress(s2)'
  BY <1>1, <1>2, <1>3, <1>4 DEF Progress
<1>6. PcOK(s2)
  BY <1>3 DEF PcOK
<1> QED BY <1>3, <1>5, <1>6 DEF s2

LEMMA LookUpInv ==
  ASSUME PipelineInv, NEW r \in Runs, LookUp(r)
  PROVE  PipelineInv'
<1>0. PICK st : st = exec[r]
  OBVIOUS
<1> DEFINE i == st.at + 1
<1>1. /\ st \in RunState /\ Progress(st) /\ PcOK(st) /\ DoomedOK(st) /\ st.pc = "stage"
      /\ st.seq = 1 /\ st.at \in Nat /\ st.at < Len(st.files)
      /\ UNCHANGED <<snapshots, outputs, imported, artifact>>
  BY <1>0, RunFacts, StageNames DEF LookUp, Doing
<1>2. i \in Files /\ OutputsKept
  <2>1. Len(st.files) \in Nat /\ Len(st.files) <= FileCount
    BY <1>1 DEF RunState, Progress
  <2> QED BY <1>1, <2>1, PipelineAssumption DEF Files, OutputsKept, Recorded
<1>3. CASE Recorded(i)
  <2>1. PICK f \in Files : f = outputs[i]
    BY <1>2, <1>3 DEF PipelineInv, TypeOK, Recorded
  <2> DEFINE s2 == [st EXCEPT !.pc = "stage", !.at = i, !.records = Append(st.records, f)]
  <2>2. [st EXCEPT !.at = i, !.records = Append(@, f)] = s2
    BY <1>1 DEF RunState
  <2>3. Become(r, s2)
    BY <1>0, <1>3, <2>1, <2>2 DEF LookUp
  <2>4. Recorded(i)'
    BY <1>1, <1>3 DEF Recorded
  <2>5. s2 \in RunState /\ Progress(s2)' /\ PcOK(s2) /\ s2.doomed = st.doomed
    BY <1>1, <1>2, <2>4, OneMoreRecord
  <2> HIDE DEF s2
  <2>6. DoomedOK(s2)
    BY <1>1, <2>5 DEF DoomedOK
  <2>7. /\ outputs' \in [Files -> Files \cup {NoFile}] /\ artifact' \in Seq(Files)
        /\ imported' \in [Files -> {"no", "ours", "others"}]
    BY <1>1 DEF PipelineInv, TypeOK
  <2> QED BY <1>1, <1>2, <2>3, <2>5, <2>6, <2>7, LocalStep DEF s2
<1>4. CASE ~Recorded(i)
  <2> DEFINE s2 == [st EXCEPT !.pc = "record"]
  <2>1. Become(r, s2)
    BY <1>0, <1>4 DEF LookUp
  <2>2. /\ s2 \in RunState /\ s2.pc = "record" /\ s2.done = st.done /\ s2.seq = st.seq
        /\ s2.at = st.at /\ s2.files = st.files /\ s2.records = st.records
        /\ s2.doomed = st.doomed
    BY <1>1 DEF RunState, Pc
  <2> HIDE DEF s2
  <2>3. Progress(s2) /\ PcOK(s2) /\ DoomedOK(s2)
    BY <1>1, <2>2 DEF Progress, PcOK, DoomedOK
  <2> QED BY <1>1, <2>1, <2>2, <2>3, QuietStep
<1> QED BY <1>3, <1>4

LEMMA RecordStepInv ==
  ASSUME PipelineInv, NEW r \in Runs, RecordStep(r)
  PROVE  PipelineInv'
<1>0. PICK st : st = exec[r]
  OBVIOUS
<1> DEFINE i  == st.at + 1
           s2 == [st EXCEPT !.pc = "stage", !.at = i, !.records = Append(st.records, st.files[i])]
<1>1. /\ st \in RunState /\ Progress(st) /\ PcOK(st) /\ DoomedOK(st)
      /\ st.seq = 1 /\ st.at \in Nat /\ st.at < Len(st.files)
      /\ UNCHANGED <<snapshots, imported, artifact>>
  BY <1>0, RunFacts DEF RecordStep, PcOK
<1>2. i \in Files /\ st.files[i] \in Files
  <2>1. Len(st.files) \in Nat /\ Len(st.files) <= FileCount /\ st.files \in Seq(Files)
    BY <1>1 DEF RunState, Progress
  <2> QED BY <1>1, <2>1, PipelineAssumption DEF Files
<1>3. /\ Become(r, s2)
      /\ outputs' = [outputs EXCEPT ![i] = IF @ = NoFile THEN st.files[i] ELSE @]
  BY <1>0, <1>1 DEF RecordStep, RunState
<1>4. outputs' \in [Files -> Files \cup {NoFile}] /\ OutputsKept /\ Recorded(i)'
  BY <1>2, <1>3, PipelineAssumption DEF PipelineInv, TypeOK, OutputsKept, Recorded, Files
<1>5. s2 \in RunState /\ Progress(s2)' /\ PcOK(s2) /\ s2.doomed = st.doomed
  BY <1>1, <1>2, <1>4, OneMoreRecord
<1> HIDE DEF s2
<1>6. DoomedOK(s2)
  BY <1>1, <1>5 DEF DoomedOK
<1> QED BY <1>1, <1>3, <1>4, <1>5, <1>6, LocalStep DEF PipelineInv, TypeOK

LEMMA ArchiveInv ==
  ASSUME PipelineInv, NEW r \in Runs, SaveArtifact(r) \/ MarkImported(r)
  PROVE  PipelineInv'
<1>0. PICK st : st = exec[r]
  OBVIOUS
<1>1. /\ st \in RunState /\ Progress(st) /\ PcOK(st) /\ DoomedOK(st) /\ st.pc = "stage"
      /\ st.seq = 3 /\ st.at \in Nat /\ st.records \in Seq(Files)
      /\ UNCHANGED <<snapshots, outputs>>
  BY <1>0, RunFacts, StageNames DEF SaveArtifact, MarkImported, Doing
<1>2. PICK n \in Nat : Become(r, [st EXCEPT !.at = n])
  <2>1. 1 \in Nat /\ st.at + 1 \in Nat
    BY <1>1
  <2>2. [st EXCEPT !.at = @ + 1] = [st EXCEPT !.at = st.at + 1]
    BY <1>1 DEF RunState
  <2> QED BY <1>0, <2>1, <2>2 DEF SaveArtifact, MarkImported
<1> DEFINE s2 == [st EXCEPT !.at = n]
<1>3. /\ s2 \in RunState /\ s2.pc = st.pc /\ s2.done = st.done /\ s2.seq = st.seq
      /\ s2.files = st.files /\ s2.records = st.records /\ s2.doomed = st.doomed
  BY <1>1 DEF RunState
<1>4. /\ outputs' \in [Files -> Files \cup {NoFile}] /\ OutputsKept
      /\ artifact' \in Seq(Files) /\ imported' \in [Files -> {"no", "ours", "others"}]
  <2>1. outputs' \in [Files -> Files \cup {NoFile}] /\ OutputsKept
    BY <1>1 DEF PipelineInv, TypeOK, OutputsKept, Recorded
  <2>2. CASE SaveArtifact(r)
    BY <1>0, <1>1, <2>1, <2>2 DEF SaveArtifact, PipelineInv, TypeOK
  <2>3. CASE MarkImported(r)
    BY <2>1, <2>3 DEF MarkImported, PipelineInv, TypeOK
  <2> QED BY <2>2, <2>3
<1>5. Progress(st)'
  BY <1>1, <1>4, ProgressKept
<1> HIDE DEF s2
<1>6. Progress(s2)' /\ PcOK(s2) /\ DoomedOK(s2)
  BY <1>1, <1>3, <1>5 DEF Progress, PcOK, DoomedOK
<1> QED BY <1>1, <1>2, <1>3, <1>4, <1>6, LocalStep DEF s2

LEMMA EndStageInv ==
  ASSUME PipelineInv, NEW r \in Runs, EndStage(r)
  PROVE  PipelineInv'
<1>1. /\ exec[r] \in RunState /\ Progress(exec[r]) /\ PcOK(exec[r]) /\ DoomedOK(exec[r])
      /\ exec[r].pc = "stage" /\ exec[r].at = Items(exec[r])
      /\ Become(r, StageDone(exec[r])) /\ UNCHANGED <<snapshots, outputs, imported, artifact>>
  BY RunFacts DEF EndStage
<1>2. DoomedOK(StageDone(exec[r]))
  BY <1>1, NextStageOK DEF DoomedOK
<1> QED BY <1>1, <1>2, NextStageOK, QuietStep

LEMMA CutOffInv ==
  ASSUME PipelineInv, NEW r \in Runs, CutOff(r)
  PROVE  PipelineInv'
<1> DEFINE st == [Fresh EXCEPT !.pc = "dead"]
<1>1. /\ st \in RunState /\ Progress(st) /\ PcOK(st) /\ DoomedOK(st)
  <2>1. /\ st \in RunState /\ st.pc = "dead" /\ st.done = {} /\ st.seq = 0 /\ st.at = 0
        /\ st.files = <<>> /\ st.records = <<>> /\ st.doomed = {}
    <3>1. Fresh \in RunState
      BY DEF Fresh, RunState, Pc
    <3> QED BY <3>1 DEF Fresh, RunState, Pc
  <2> HIDE DEF st
  <2> QED BY <2>1, PipelineAssumption DEF Progress, PcOK, DoomedOK
<1>2. Become(r, st) /\ UNCHANGED <<snapshots, outputs, imported, artifact>>
  BY DEF CutOff
<1> HIDE DEF st
<1> QED BY <1>1, <1>2, QuietStep

\* What moves neither runs nor snapshots.
LEMMA IdleStep ==
  ASSUME PipelineInv, OtherImport \/ UNCHANGED vars
  PROVE  PipelineInv'
<1>1. UNCHANGED <<snapshots, outputs, artifact, exec>>
  BY DEF OtherImport, vars
<1>2. imported' \in [Files -> {"no", "ours", "others"}]
  BY DEF OtherImport, vars, PipelineInv, TypeOK
<1>3. TypeOK'
  BY <1>1, <1>2 DEF PipelineInv, TypeOK
<1>4. LatestSeq' = LatestSeq
  BY <1>1 DEF LatestSeq
<1> QED BY <1>1, <1>3, <1>4
     DEF PipelineInv, Progress, PcOK, DoomedOK, SnapshotOK, Backed, Recorded

-----------------------------------------------------------------------------
(* Steps on the snapshots.                                                 *)

LEMMA SnapshotStep ==
  ASSUME PipelineInv, NEW r \in Runs, NEW st \in RunState, Become(r, st),
         UNCHANGED <<outputs, imported, artifact>>,
         snapshots' \in SUBSET Snapshot, \A c \in snapshots' : SnapshotOK(c),
         snapshots = {} \/ \E c \in snapshots' : c.seq = LatestSeq,
         Progress(st), PcOK(st), DoomedOK(st)
  PROVE  PipelineInv' /\ LatestSeq' >= LatestSeq
<1>1. LatestSeq' \in 0..4 /\ LatestSeq \in 0..4 /\ LatestSeq' >= LatestSeq
  <2> DEFINE S == {c.seq : c \in snapshots'} \cup {0}
  <2>1. S \subseteq 0..4 /\ S # {}
    BY DEF SnapshotOK
  <2>2. LatestSeq' = Max(S)
    BY DEF LatestSeq
  <2>3. LatestSeq' \in S /\ \A y \in S : y <= LatestSeq'
    BY <2>1, <2>2, MaxOfFew
  <2>4. LatestSeq \in S
    <3>1. CASE snapshots = {}
      <4>1. {c.seq : c \in snapshots} \cup {0} = {0}
        BY <3>1
      <4>2. LatestSeq \in {0}
        BY <4>1, MaxOfFew DEF LatestSeq
      <4> QED BY <4>2
    <3>2. CASE \E c \in snapshots' : c.seq = LatestSeq
      BY <3>2
    <3> QED BY <3>1, <3>2
  <2> HIDE DEF S
  <2> QED BY <2>1, <2>3, <2>4, LatestFacts
<1>2. /\ exec' \in [Runs -> RunState] /\ exec'[r] = st
      /\ \A q \in Runs \ {r} : exec'[q] = exec[q]
  BY DEF Become, PipelineInv, TypeOK
<1>3. TypeOK'
  BY <1>2 DEF TypeOK, PipelineInv
<1>4. ASSUME NEW q \in Runs
      PROVE  (Progress(exec[q]) /\ PcOK(exec[q]) /\ DoomedOK(exec[q]))'
  <2>1. PICK s \in RunState : s = exec'[q] /\ Progress(s) /\ PcOK(s) /\ DoomedOK(s)
    <3>1. CASE q = r
      BY <1>2, <3>1
    <3>2. CASE q # r
      BY <1>2, <3>2 DEF PipelineInv, TypeOK
    <3> QED BY <3>1, <3>2
  <2>2. Progress(exec[q])' /\ PcOK(exec[q])'
    BY <2>1 DEF Progress, PcOK, Backed, Recorded
  <2>3. DoomedOK(exec[q])'
    <3>1. ASSUME NEW d \in s.doomed
          PROVE  d.seq < LatestSeq'
      <4>1. d.seq \in Nat /\ d.seq < LatestSeq
        BY <2>1, <3>1 DEF DoomedOK, RunState, Snapshot
      <4> QED BY <1>1, <4>1
    <3> QED BY <2>1, <3>1 DEF DoomedOK
  <2> QED BY <2>2, <2>3
<1>5. \A c \in snapshots' : SnapshotOK(c)'
  BY DEF SnapshotOK, Backed, Recorded
<1> QED BY <1>1, <1>3, <1>4, <1>5 DEF PipelineInv

LEMMA SaveInv ==
  ASSUME PipelineInv, NEW r \in Runs, SaveSnapshot(r)
  PROVE  PipelineInv' /\ LatestSeq' >= LatestSeq
<1> DEFINE st == exec[r]
           row == [seq |-> st.seq, done |-> st.done, files |-> st.files,
                   records |-> st.records, by |-> r]
<1>1. /\ st \in RunState /\ Progress(st) /\ PcOK(st) /\ DoomedOK(st) /\ st.pc = "save"
      /\ st.seq \in Nat /\ st.seq > 0 /\ st.at = 0
      /\ UNCHANGED <<outputs, imported, artifact>>
  BY RunFacts DEF SaveSnapshot, PcOK
<1>2. PICK s2 \in RunState : /\ Become(r, s2) /\ Progress(s2) /\ PcOK(s2) /\ DoomedOK(s2)
                             /\ snapshots' \in {snapshots, snapshots \cup {row}}
  <2>1. CASE Become(r, [st EXCEPT !.pc = "clean"])
             /\ snapshots' \in {snapshots, snapshots \cup {row}}
    <3> DEFINE s2 == [st EXCEPT !.pc = "clean"]
    <3>1. /\ s2 \in RunState /\ s2.pc = "clean" /\ s2.done = st.done /\ s2.seq = st.seq
          /\ s2.at = st.at /\ s2.files = st.files /\ s2.records = st.records
          /\ s2.doomed = st.doomed
      BY <1>1 DEF RunState, Pc
    <3> HIDE DEF s2
    <3>2. Progress(s2) /\ PcOK(s2) /\ DoomedOK(s2)
      BY <1>1, <3>1 DEF Progress, PcOK, DoomedOK
    <3> QED BY <2>1, <3>1, <3>2 DEF s2
  <2>2. CASE Become(r, Onward(st)) /\ snapshots' = snapshots
    <3>1. DoomedOK(Onward(st))
      BY <1>1, OnwardOK DEF DoomedOK
    <3> QED BY <1>1, <2>2, <3>1, OnwardOK
  <2> QED BY <2>1, <2>2 DEF SaveSnapshot
<1>3. row \in Snapshot /\ SnapshotOK(row)
  <2>1. row \in Snapshot
    BY <1>1 DEF Snapshot, RunState
  <2>2. /\ row.seq = st.seq /\ row.done = st.done /\ row.files = st.files
        /\ row.records = st.records
    OBVIOUS
  <2> HIDE DEF row
  <2>3. st.seq = 1 => st.records = <<>>
    BY <1>1 DEF Progress, RunState
  <2> QED BY <1>1, <2>1, <2>2, <2>3 DEF SnapshotOK, Progress
<1>4. /\ snapshots' \in SUBSET Snapshot /\ \A c \in snapshots' : SnapshotOK(c)
      /\ snapshots \subseteq snapshots'
  BY <1>2, <1>3 DEF PipelineInv, TypeOK
<1>5. snapshots = {} \/ \E c \in snapshots' : c.seq = LatestSeq
  BY <1>4, LatestFacts
<1> QED BY <1>1, <1>2, <1>4, <1>5, SnapshotStep

LEMMA ReadInv ==
  ASSUME PipelineInv, NEW r \in Runs, ReadSnapshots(r)
  PROVE  PipelineInv'
<1> DEFINE st == exec[r]
           old == snapshots \ Kept(snapshots)
<1>1. /\ st \in RunState /\ Progress(st) /\ PcOK(st) /\ DoomedOK(st) /\ st.pc = "clean"
      /\ UNCHANGED <<snapshots, outputs, imported, artifact>>
  BY RunFacts DEF ReadSnapshots
<1>2. ASSUME NEW d \in old
      PROVE  d.seq < LatestSeq
  <2>1. ~(Cardinality({c \in snapshots : c.seq > d.seq}) < 2)
    BY <1>2 DEF Kept
  <2>2. {c \in snapshots : c.seq > d.seq} # {}
    BY <2>1, FS_EmptySet
  <2>3. PICK c \in snapshots : c.seq > d.seq
    BY <2>2
  <2>4. c.seq \in 1..4 /\ d.seq \in 1..4 /\ c.seq <= LatestSeq /\ LatestSeq \in 0..4
    BY <1>2, LatestFacts DEF PipelineInv, SnapshotOK
  <2> QED BY <2>3, <2>4
<1>3. CASE Become(r, Onward(st))
  <2>1. DoomedOK(Onward(st))
    BY <1>1, OnwardOK DEF DoomedOK
  <2> QED BY <1>1, <1>3, <2>1, OnwardOK, QuietStep
<1>4. CASE Become(r, [st EXCEPT !.pc = "delete", !.doomed = old])
  <2>1. old \in SUBSET Snapshot
    BY DEF PipelineInv, TypeOK
  <2> DEFINE s2 == [st EXCEPT !.pc = "delete", !.doomed = old]
  <2> HIDE DEF old
  <2>2. /\ s2 \in RunState /\ s2.pc = "delete" /\ s2.done = st.done /\ s2.seq = st.seq
        /\ s2.at = st.at /\ s2.files = st.files /\ s2.records = st.records
        /\ s2.doomed = old
    BY <1>1, <2>1 DEF RunState, Pc
  <2> HIDE DEF s2
  <2>3. Progress(s2) /\ PcOK(s2) /\ DoomedOK(s2)
    BY <1>1, <1>2, <2>2 DEF Progress, PcOK, DoomedOK
  <2> QED BY <1>1, <1>4, <2>2, <2>3, QuietStep DEF s2
<1> QED BY <1>3, <1>4 DEF ReadSnapshots

LEMMA DeleteInv ==
  ASSUME PipelineInv, NEW r \in Runs, DeleteSnapshot(r)
  PROVE  PipelineInv' /\ LatestSeq' >= LatestSeq
<1> DEFINE st == exec[r]
<1>1. /\ st \in RunState /\ Progress(st) /\ PcOK(st) /\ DoomedOK(st) /\ st.pc = "delete"
      /\ UNCHANGED <<outputs, imported, artifact>>
  BY RunFacts DEF DeleteSnapshot
<1>2. ASSUME NEW D \in SUBSET st.doomed
      PROVE  LET s2 == [st EXCEPT !.doomed = D]
             IN s2 \in RunState /\ Progress(s2) /\ PcOK(s2) /\ DoomedOK(s2) /\ s2.doomed = D
  <2> DEFINE s2 == [st EXCEPT !.doomed = D]
  <2>1. /\ s2 \in RunState /\ s2.pc = st.pc /\ s2.done = st.done /\ s2.seq = st.seq
        /\ s2.at = st.at /\ s2.files = st.files /\ s2.records = st.records
        /\ s2.doomed = D
    BY <1>1 DEF RunState
  <2> HIDE DEF s2
  <2>2. Progress(s2) /\ PcOK(s2) /\ DoomedOK(s2)
    BY <1>1, <2>1 DEF Progress, PcOK, DoomedOK
  <2> QED BY <2>1, <2>2 DEF s2
<1>3. PICK s2 \in RunState : Become(r, s2) /\ Progress(s2) /\ PcOK(s2) /\ DoomedOK(s2)
  <2>1. PICK D \in SUBSET st.doomed : \/ Become(r, [st EXCEPT !.doomed = D])
                                      \/ Become(r, Onward([st EXCEPT !.doomed = D]))
    BY DEF DeleteSnapshot
  <2> DEFINE s2 == [st EXCEPT !.doomed = D]
  <2>2. s2 \in RunState /\ Progress(s2) /\ PcOK(s2) /\ DoomedOK(s2)
    BY <1>2
  <2> HIDE DEF s2
  <2>3. DoomedOK(Onward(s2))
    BY <2>2, OnwardOK DEF DoomedOK
  <2> QED BY <2>1, <2>2, <2>3, OnwardOK DEF s2
<1>4. snapshots' = snapshots \/ \E c \in st.doomed : snapshots' = snapshots \ {c}
  BY DEF DeleteSnapshot
<1>5. snapshots' \in SUBSET Snapshot /\ \A c \in snapshots' : SnapshotOK(c)
  BY <1>4 DEF PipelineInv, TypeOK
<1>6. snapshots = {} \/ \E c \in snapshots' : c.seq = LatestSeq
  <2>1. CASE snapshots # {}
    <3>1. Latest \in snapshots /\ Latest.seq = LatestSeq /\ LatestSeq \in 0..4
      BY <2>1, LatestFacts
    <3>2. ASSUME NEW c \in st.doomed
          PROVE  c # Latest
      BY <1>1, <3>1, <3>2 DEF DoomedOK
    <3> QED BY <1>4, <3>1, <3>2
  <2> QED BY <2>1
<1> QED BY <1>1, <1>3, <1>5, <1>6, SnapshotStep

-----------------------------------------------------------------------------
LEMMA PipelineInit == Init => PipelineInv
<1> SUFFICES ASSUME Init PROVE PipelineInv
  OBVIOUS
<1>1. Fresh \in RunState /\ Fresh.done = {} /\ Fresh.seq = 0 /\ Fresh.at = 0
      /\ Fresh.pc = "idle" /\ Fresh.files = <<>> /\ Fresh.records = <<>> /\ Fresh.doomed = {}
  BY DEF Fresh, RunState, Pc
<1>2. Progress(Fresh) /\ PcOK(Fresh) /\ DoomedOK(Fresh)
  BY <1>1, PipelineAssumption DEF Progress, PcOK, DoomedOK
<1>3. \A r \in Runs : exec[r] = Fresh
  BY DEF Init
<1>4. TypeOK
  BY <1>1 DEF Init, TypeOK
<1> QED BY <1>2, <1>3, <1>4 DEF Init, PipelineInv

LEMMA PipelineStep ==
  ASSUME PipelineInv, [Next]_vars
  PROVE  PipelineInv' /\ (snapshots' = snapshots \/ LatestSeq' >= LatestSeq)
<1>1. CASE OtherImport \/ UNCHANGED vars
  BY <1>1, IdleStep DEF OtherImport, vars
<1>2. ASSUME NEW r \in Runs, RunNext(r)
      PROVE  PipelineInv' /\ (snapshots' = snapshots \/ LatestSeq' >= LatestSeq)
  <2>1. CASE Begin(r)
    BY <2>1, BeginInv DEF Begin
  <2>2. CASE Discover(r)
    BY <2>2, DiscoverInv DEF Discover
  <2>3. CASE LookUp(r)
    BY <2>3, LookUpInv DEF LookUp
  <2>4. CASE RecordStep(r)
    BY <2>4, RecordStepInv DEF RecordStep
  <2>5. CASE SaveArtifact(r) \/ MarkImported(r)
    BY <2>5, ArchiveInv DEF SaveArtifact, MarkImported
  <2>6. CASE EndStage(r)
    BY <2>6, EndStageInv DEF EndStage
  <2>7. CASE SaveSnapshot(r)
    BY <2>7, SaveInv
  <2>8. CASE ReadSnapshots(r)
    BY <2>8, ReadInv DEF ReadSnapshots
  <2>9. CASE DeleteSnapshot(r)
    BY <2>9, DeleteInv
  <2>10. CASE CutOff(r)
    BY <2>10, CutOffInv DEF CutOff
  <2> QED BY <1>2, <2>1, <2>2, <2>3, <2>4, <2>5, <2>6, <2>7, <2>8, <2>9, <2>10 DEF RunNext
<1> QED BY <1>1, <1>2 DEF Next

LEMMA PipelineInductive == Spec => []PipelineInv
<1>1. Init => PipelineInv
  BY PipelineInit
<1>2. PipelineInv /\ [Next]_vars => PipelineInv'
  BY PipelineStep
<1> QED BY <1>1, <1>2, PTL DEF Spec

\* Each variable keeps its type.
THEOREM PipelineTypeCorrect == Spec => []TypeOK
<1>1. PipelineInv => TypeOK
  BY DEF PipelineInv
<1> QED BY <1>1, PipelineInductive, PTL

\* The snapshot with number k claims the first k stages (executor.py 57,
\* pipeline.py 35 and 50-51, manager.py 26-32).
THEOREM PrefixesCorrect == Spec => []SnapshotsArePrefixes
<1>1. PipelineInv => SnapshotsArePrefixes
  BY DEF PipelineInv, SnapshotOK, SnapshotsArePrefixes
<1> QED BY <1>1, PipelineInductive, PTL

\* A snapshot that says ingest is complete has the records of all its files, and
\* the steps for them are recorded (pipeline.py 47-54, step.py 18-39).
THEOREM BackedCorrect == Spec => []SnapshotsBacked
<1>1. PipelineInv => SnapshotsBacked
  <2> SUFFICES ASSUME PipelineInv, NEW c \in snapshots, 2 \in c.done
               PROVE  Len(c.records) = Len(c.files) /\ \A i \in DOMAIN c.files : Recorded(i)
    BY DEF SnapshotsBacked
  <2>1. SnapshotOK(c) /\ c.files \in Seq(Files)
    BY DEF PipelineInv, TypeOK, Snapshot
  <2>2. c.seq >= 2
    BY <2>1 DEF SnapshotOK
  <2> QED BY <2>1, <2>2 DEF SnapshotOK, Backed
<1> QED BY <1>1, PipelineInductive, PTL

\* The latest snapshot is never lost (manager.py 65-80).
THEOREM NoRegressCorrect == Spec => NoRegress
<1>1. PipelineInv /\ [Next]_vars => [LatestSeq' >= LatestSeq]_vars
  <2> SUFFICES ASSUME PipelineInv, [Next]_vars
               PROVE  LatestSeq' >= LatestSeq
    OBVIOUS
  <2>1. LatestSeq \in 0..4
    BY LatestFacts
  <2>2. snapshots' = snapshots => LatestSeq' = LatestSeq
    BY DEF LatestSeq
  <2> QED BY <2>1, <2>2, PipelineStep
<1> QED BY <1>1, PipelineInductive, PTL DEF Spec, NoRegress

-----------------------------------------------------------------------------
(* What a step does to the run that takes it.                              *)

Carries(st, nx) == nx.seq = st.seq /\ nx.files = st.files /\ nx.records = st.records

LEMMA BecomeFacts ==
  ASSUME PipelineInv, NEW r \in Runs, NEW st, Become(r, st)
  PROVE  exec'[r] = st /\ \A q \in Runs \ {r} : exec'[q] = exec[q]
BY DEF PipelineInv, TypeOK, Become

LEMMA BeginMove ==
  ASSUME PipelineInv, NEW r \in Runs, Begin(r)
  PROVE  /\ exec[r].pc = "idle" /\ exec'[r].at = 0
         /\ exec'[r].pc = IF exec'[r].seq = 4 THEN "returned" ELSE "stage"
         /\ \/ Checkpointing /\ snapshots # {} /\ Carries(Latest, exec'[r])
            \/ /\ ~Checkpointing \/ snapshots = {} \/ "db_error" \in Faults
               /\ exec'[r].seq = 0 /\ exec'[r].files = <<>> /\ exec'[r].records = <<>>
<1>1. /\ Fresh \in RunState /\ Progress(Fresh) /\ Fresh.seq = 0 /\ Fresh.at = 0
      /\ Fresh.files = <<>> /\ Fresh.records = <<>>
  BY PipelineAssumption DEF Fresh, RunState, Pc, Progress
<1>2. exec[r].pc = "idle"
  BY DEF Begin
<1>3. CASE Become(r, Onward(Fresh)) /\ (~Checkpointing \/ snapshots = {} \/ "db_error" \in Faults)
  <2>1. exec'[r] = Onward(Fresh)
    BY <1>3, BecomeFacts
  <2> QED BY <1>1, <1>2, <1>3, <2>1, OnwardFields
<1>4. CASE Checkpointing /\ snapshots # {} /\ Become(r, Onward(Resumed(Latest)))
  <2> DEFINE c == Latest
             st == Resumed(c)
  <2>1. c \in Snapshot /\ SnapshotOK(c)
    BY <1>4, LatestFacts DEF PipelineInv, TypeOK
  <2>2. exec'[r] = Onward(st)
    BY <1>4, BecomeFacts
  <2> HIDE DEF c
  <2>3. /\ st \in RunState /\ st.done = c.done /\ st.seq = c.seq /\ st.at = 0
        /\ st.files = c.files /\ st.records = c.records
    BY <2>1, <1>1 DEF Resumed, Fresh, RunState, Snapshot
  <2> HIDE DEF st
  <2>4. c.seq \in 1..4 /\ Len(c.files) \in Nat
    BY <2>1 DEF SnapshotOK, Snapshot
  <2>5. Progress(st)
    BY <2>1, <2>3, <2>4 DEF Progress, SnapshotOK
  <2>6. Carries(c, exec'[r]) /\ exec'[r].at = 0
        /\ exec'[r].pc = IF exec'[r].seq = 4 THEN "returned" ELSE "stage"
    BY <2>2, <2>3, <2>5, OnwardFields DEF Carries
  <2> QED BY <1>2, <1>4, <2>6 DEF c
<1> QED BY <1>3, <1>4 DEF Begin

LEMMA DiscoverMove ==
  ASSUME PipelineInv, NEW r \in Runs, Discover(r)
  PROVE  LET st == exec[r]
             nx == exec'[r]
             f  == st.at + 1
         IN /\ st.pc = "stage" /\ nx.pc = "stage" /\ st.seq = 0 /\ nx.seq = 0
            /\ f \in Files /\ nx.at = f /\ nx.records = st.records
            /\ nx.files = IF imported[f] = "no" THEN Append(st.files, f) ELSE st.files
            /\ UNCHANGED <<snapshots, outputs, imported, artifact>>
<1> DEFINE st  == exec[r]
           new == IF imported[st.at + 1] = "no" THEN Append(st.files, st.at + 1) ELSE st.files
<1>1. /\ st \in RunState /\ st.pc = "stage" /\ st.seq = 0 /\ st.at \in Nat /\ st.at < FileCount
      /\ UNCHANGED <<snapshots, outputs, imported, artifact>>
  BY RunFacts, StageNames DEF Discover, Doing
<1>2. exec'[r] = [st EXCEPT !.at = st.at + 1, !.files = new]
  BY BecomeFacts DEF Discover
<1> HIDE DEF st, new
<1>3. /\ exec'[r].pc = st.pc /\ exec'[r].seq = st.seq /\ exec'[r].at = st.at + 1
      /\ exec'[r].files = new /\ exec'[r].records = st.records
  BY <1>1, <1>2 DEF RunState
<1>4. st.at + 1 \in Files
  BY <1>1, PipelineAssumption DEF Files
<1> QED BY <1>1, <1>3, <1>4 DEF st, new

LEMMA IngestMove ==
  ASSUME PipelineInv, NEW r \in Runs, LookUp(r) \/ RecordStep(r)
  PROVE  LET st == exec[r]
             nx == exec'[r]
             i  == st.at + 1
         IN /\ st.pc \in {"stage", "record"} /\ nx.pc \in {"stage", "record"}
            /\ st.seq = 1 /\ nx.seq = 1 /\ nx.files = st.files
            /\ i \in 1..Len(st.files) /\ i \in Files /\ Len(st.records) = st.at
            /\ UNCHANGED <<snapshots, imported, artifact>>
            /\ \/ Carries(st, nx) /\ nx.at = st.at /\ UNCHANGED outputs
               \/ /\ Recorded(i) /\ nx.at = i /\ nx.records = Append(st.records, outputs[i])
                  /\ UNCHANGED outputs
               \/ /\ nx.at = i /\ nx.records = Append(st.records, st.files[i])
                  /\ outputs' = [outputs EXCEPT ![i] = IF @ = NoFile THEN st.files[i] ELSE @]
<1> DEFINE st == exec[r]
           i  == st.at + 1
<1>1. /\ st \in RunState /\ st.pc \in {"stage", "record"} /\ st.seq = 1 /\ st.at \in Nat
      /\ st.at < Len(st.files) /\ Len(st.files) \in Nat /\ Len(st.files) <= FileCount
      /\ Len(st.records) = st.at
      /\ UNCHANGED <<snapshots, imported, artifact>>
  <2>1. CASE LookUp(r)
    BY <2>1, RunFacts, StageNames DEF LookUp, Doing, Progress
  <2>2. CASE RecordStep(r)
    BY <2>2, RunFacts DEF RecordStep, PcOK, Progress
  <2> QED BY <2>1, <2>2
<1>2. i \in 1..Len(st.files) /\ i \in Files
  BY <1>1, PipelineAssumption DEF Files
<1>3. CASE Become(r, [st EXCEPT !.pc = "record"]) /\ UNCHANGED outputs
  <2>1. exec'[r] = [st EXCEPT !.pc = "record"]
    BY <1>3, BecomeFacts
  <2> HIDE DEF st
  <2>2. exec'[r].pc = "record" /\ Carries(st, exec'[r]) /\ exec'[r].at = st.at
    BY <1>1, <2>1 DEF RunState, Carries
  <2> QED BY <1>1, <1>2, <1>3, <2>2 DEF st, Carries
<1>4. ASSUME NEW x,
             Become(r, [st EXCEPT !.pc = "stage", !.at = i, !.records = Append(st.records, x)])
      PROVE  /\ exec'[r].pc = "stage" /\ exec'[r].seq = 1 /\ exec'[r].files = st.files
             /\ exec'[r].at = i /\ exec'[r].records = Append(st.records, x)
  <2>1. exec'[r] = [st EXCEPT !.pc = "stage", !.at = i, !.records = Append(st.records, x)]
    BY <1>4, BecomeFacts
  <2> HIDE DEF st, i
  <2> QED BY <1>1, <2>1 DEF RunState
<1>5. CASE /\ Recorded(i) /\ UNCHANGED outputs
           /\ Become(r, [st EXCEPT !.pc = "stage", !.at = i,
                                   !.records = Append(st.records, outputs[i])])
  BY <1>1, <1>2, <1>4, <1>5
<1>6. CASE /\ outputs' = [outputs EXCEPT ![i] = IF @ = NoFile THEN st.files[i] ELSE @]
           /\ Become(r, [st EXCEPT !.pc = "stage", !.at = i,
                                   !.records = Append(st.records, st.files[i])])
  BY <1>1, <1>2, <1>4, <1>6
<1>7. CASE LookUp(r)
  <2>1. st.pc = "stage" /\ [st EXCEPT !.at = i, !.records = Append(@, outputs[i])]
        = [st EXCEPT !.pc = "stage", !.at = i, !.records = Append(st.records, outputs[i])]
    <3>1. st.pc = "stage"
      BY <1>7 DEF LookUp, Doing
    <3> QED BY <1>1, <3>1 DEF RunState
  <2> QED BY <1>3, <1>5, <1>7, <2>1 DEF LookUp
<1>8. CASE RecordStep(r)
  <2>1. [st EXCEPT !.pc = "stage", !.at = i, !.records = Append(@, st.files[i])]
        = [st EXCEPT !.pc = "stage", !.at = i, !.records = Append(st.records, st.files[i])]
    BY <1>1 DEF RunState
  <2> QED BY <1>6, <1>8, <2>1 DEF RecordStep
<1> QED BY <1>7, <1>8

LEMMA ArchiveMove ==
  ASSUME PipelineInv, NEW r \in Runs, SaveArtifact(r) \/ MarkImported(r)
  PROVE  LET st == exec[r]
             nx == exec'[r]
             f  == st.files[st.at]
         IN /\ st.pc = "stage" /\ nx.pc = "stage" /\ st.seq = 3 /\ Carries(st, nx)
            /\ st.at \in Nat /\ nx.at = st.at + 1 /\ UNCHANGED <<snapshots, outputs>>
            /\ \/ st.at = 0 /\ artifact' = st.records /\ UNCHANGED imported
               \/ /\ st.at \in 1..Len(st.files) /\ f \in Files /\ UNCHANGED artifact
                  /\ \/ imported' = [imported EXCEPT ![f] = IF @ = "no" THEN "ours" ELSE @]
                     \/ "db_error" \in Faults /\ UNCHANGED imported
<1> DEFINE st == exec[r]
<1>1. /\ st \in RunState /\ st.pc = "stage" /\ st.seq = 3 /\ st.at \in Nat
      /\ st.files \in Seq(Files) /\ Len(st.files) \in Nat /\ UNCHANGED <<snapshots, outputs>>
  BY RunFacts, StageNames DEF SaveArtifact, MarkImported, Doing
<1>2. exec'[r] = [st EXCEPT !.at = st.at + 1]
  <2>1. CASE SaveArtifact(r)
    <3>1. st.at + 1 = 1
      BY <2>1 DEF SaveArtifact
    <3> QED BY <2>1, <3>1, BecomeFacts DEF SaveArtifact
  <2>2. CASE MarkImported(r)
    <3>1. exec'[r] = [st EXCEPT !.at = @ + 1]
      BY <2>2, BecomeFacts DEF MarkImported
    <3> HIDE DEF st
    <3> QED BY <1>1, <3>1 DEF RunState
  <2> QED BY <2>1, <2>2
<1>3. exec'[r].pc = st.pc /\ exec'[r].at = st.at + 1 /\ Carries(st, exec'[r])
  <2> HIDE DEF st
  <2> QED BY <1>1, <1>2 DEF RunState, Carries
<1>4. CASE SaveArtifact(r)
  BY <1>1, <1>3, <1>4 DEF SaveArtifact
<1>5. CASE MarkImported(r)
  <2>1. st.at \in 1..Len(st.files) /\ st.files[st.at] \in Files
    BY <1>1, <1>5 DEF MarkImported
  <2> QED BY <1>1, <1>3, <1>5, <2>1 DEF MarkImported
<1> QED BY <1>4, <1>5

LEMMA EndStageMove ==
  ASSUME PipelineInv, NEW r \in Runs, EndStage(r)
  PROVE  LET st == exec[r]
             nx == exec'[r]
         IN /\ st.pc = "stage" /\ st.seq \in 0..3 /\ nx.seq = st.seq + 1
            /\ nx.files = st.files /\ nx.records = st.records /\ nx.at = 0
            /\ nx.pc = IF Checkpointing THEN "save" ELSE IF nx.seq = 4 THEN "returned" ELSE "stage"
            /\ st.seq = 0 => st.at = FileCount
            /\ st.seq = 3 => st.at = Len(st.files) + 1
            /\ UNCHANGED <<snapshots, outputs, imported, artifact>>
<1> DEFINE st   == exec[r]
           next == [st EXCEPT !.done = @ \cup {Stage(st)}, !.seq = @ + 1, !.at = 0]
<1>1. /\ st \in RunState /\ Progress(st) /\ PcOK(st) /\ st.pc = "stage" /\ st.seq \in Nat
      /\ st.at = Items(st) /\ UNCHANGED <<snapshots, outputs, imported, artifact>>
  BY RunFacts DEF EndStage
<1>2. st.seq \in 0..3 /\ Stage(st) = st.seq + 1 /\ StageSet = 1..4
  <2> HIDE DEF st
  <2> QED BY <1>1, StageNumber DEF PcOK
<1>3. (st.seq = 0 => st.at = FileCount) /\ (st.seq = 3 => st.at = Len(st.files) + 1)
  <2> HIDE DEF st
  <2> QED BY <1>1, <1>2 DEF Items, Stages
<1>4. exec'[r] = IF Checkpointing THEN [next EXCEPT !.pc = "save"] ELSE Onward(next)
  BY BecomeFacts DEF EndStage, StageDone
<1>5. /\ next \in RunState /\ next.seq = st.seq + 1 /\ next.at = 0
      /\ next.files = st.files /\ next.records = st.records /\ next.done = 1..(st.seq + 1)
  <2> HIDE DEF st
  <2>1. st.done = 1..st.seq
    BY <1>1 DEF Progress
  <2>2. (1..st.seq) \cup {st.seq + 1} = 1..(st.seq + 1)
    BY <1>1
  <2>3. 1..(st.seq + 1) \in SUBSET StageSet /\ st.seq + 1 \in Nat
    BY <1>1, <1>2
  <2> DEFINE Ended(d, n) == [st EXCEPT !.done = d, !.seq = n, !.at = 0]
  <2>4. next = Ended(1..(st.seq + 1), st.seq + 1)
    BY <1>1, <1>2, <2>1, <2>2 DEF RunState
  <2>5. ASSUME NEW d \in SUBSET StageSet, NEW n \in Nat
        PROVE  /\ Ended(d, n) \in RunState
               /\ Ended(d, n).done = d /\ Ended(d, n).seq = n /\ Ended(d, n).at = 0
               /\ Ended(d, n).files = st.files /\ Ended(d, n).records = st.records
    BY <1>1 DEF RunState
  <2> HIDE DEF next, Ended
  <2> QED BY <2>3, <2>4, <2>5
<1> HIDE DEF next
<1>6. CASE Checkpointing
  <2>1. exec'[r] = [next EXCEPT !.pc = "save"]
    BY <1>4, <1>6
  <2>2. /\ exec'[r].pc = "save" /\ exec'[r].seq = next.seq /\ exec'[r].at = next.at
        /\ exec'[r].files = next.files /\ exec'[r].records = next.records
    BY <1>5, <2>1 DEF RunState
  <2> QED BY <1>1, <1>2, <1>3, <1>5, <1>6, <2>2
<1>7. CASE ~Checkpointing
  <2>1. exec'[r] = Onward(next) /\ exec'[r] = StageDone(st)
    BY <1>4, <1>7, BecomeFacts DEF EndStage
  <2>2. Remaining(next) = (next.seq + 1)..4
    <3>1. (1..4) \ (1..(st.seq + 1)) = (st.seq + 2)..4
      BY <1>2
    <3> HIDE DEF st
    <3> QED BY <1>2, <1>5, <3>1 DEF Remaining
  <2>3. exec'[r] = [next EXCEPT !.pc = IF next.seq = 4 THEN "returned" ELSE "stage"]
    <3>1. next.seq \in 1..4
      BY <1>2, <1>5
    <3>2. (next.seq + 1)..4 = {} <=> next.seq = 4
      <4>1. CASE next.seq = 4
        BY <4>1
      <4>2. CASE next.seq < 4
        <5>1. 4 \in (next.seq + 1)..4
          BY <3>1, <4>2
        <5> QED BY <5>1, <4>2, <3>1
      <4> QED BY <3>1, <4>1, <4>2
    <3> QED BY <2>1, <2>2, <3>2 DEF Onward
  <2>4. /\ exec'[r].pc = IF next.seq = 4 THEN "returned" ELSE "stage"
        /\ exec'[r].seq = next.seq /\ exec'[r].at = next.at
        /\ exec'[r].files = next.files /\ exec'[r].records = next.records
    BY <1>5, <2>3 DEF RunState
  <2> QED BY <1>1, <1>2, <1>3, <1>5, <1>7, <2>4
<1> QED BY <1>6, <1>7

LEMMA SnapshotMove ==
  ASSUME PipelineInv, NEW r \in Runs,
         SaveSnapshot(r) \/ ReadSnapshots(r) \/ DeleteSnapshot(r)
  PROVE  LET st == exec[r]
             nx == exec'[r]
         IN /\ st.pc \in {"save", "clean", "delete"} /\ st.seq \in 1..4
            /\ Carries(st, nx) /\ nx.at = 0
            /\ nx.pc = "returned" => st.seq = 4
            /\ nx.pc \in {"stage", "returned", "clean", "delete"}
            /\ \A c \in snapshots' : c \in snapshots \/ (st.pc = "save" /\ Carries(st, c))
            /\ st.pc = "save" /\ "db_error" \notin Faults => snapshots' # {}
            /\ UNCHANGED <<outputs, imported, artifact>>
<1> DEFINE st == exec[r]
<1>1. /\ st \in RunState /\ Progress(st) /\ PcOK(st) /\ st.seq \in Nat
      /\ st.pc \in {"save", "clean", "delete"}
      /\ UNCHANGED <<outputs, imported, artifact>>
  BY RunFacts DEF SaveSnapshot, ReadSnapshots, DeleteSnapshot
<1>2. st.seq \in 1..4 /\ st.at = 0
  <2> HIDE DEF st
  <2> QED BY <1>1 DEF Progress, PcOK
<1>3. PICK D \in SUBSET Snapshot :
        \/ exec'[r] \in {[st EXCEPT !.pc = "clean"], [st EXCEPT !.pc = "delete", !.doomed = D]}
        \/ exec'[r] = Onward(st) \/ exec'[r] = Onward([st EXCEPT !.doomed = D])
        \/ st.pc = "delete" /\ exec'[r] = [st EXCEPT !.doomed = D]
  <2>1. CASE SaveSnapshot(r)
    <3>1. \/ exec'[r] = [st EXCEPT !.pc = "clean"]
          \/ exec'[r] = Onward(st)
      BY <2>1, BecomeFacts DEF SaveSnapshot
    <3> QED BY <3>1
  <2>2. CASE ReadSnapshots(r)
    <3> DEFINE old == snapshots \ Kept(snapshots)
    <3>1. old \in SUBSET Snapshot
      BY DEF PipelineInv, TypeOK
    <3>2. \/ exec'[r] = [st EXCEPT !.pc = "delete", !.doomed = old]
          \/ exec'[r] = Onward(st)
      BY <2>2, BecomeFacts DEF ReadSnapshots
    <3> HIDE DEF old
    <3> QED BY <3>1, <3>2
  <2>3. CASE DeleteSnapshot(r)
    <3>1. st.doomed \in SUBSET Snapshot
      <4> HIDE DEF st
      <4> QED BY <1>1 DEF RunState
    <3>2. PICK B \in SUBSET st.doomed : \/ Become(r, [st EXCEPT !.doomed = B])
                                        \/ Become(r, Onward([st EXCEPT !.doomed = B]))
      BY <2>3 DEF DeleteSnapshot
    <3>3. \/ exec'[r] = [st EXCEPT !.doomed = B]
          \/ exec'[r] = Onward([st EXCEPT !.doomed = B])
      BY <3>2, BecomeFacts
    <3>4. st.pc = "delete" /\ B \in SUBSET Snapshot
      BY <2>3, <3>1 DEF DeleteSnapshot
    <3> QED BY <3>3, <3>4
  <2> QED BY <2>1, <2>2, <2>3
<1>4. /\ \A c \in snapshots' : c \in snapshots \/ (st.pc = "save" /\ Carries(st, c))
      /\ st.pc = "save" /\ "db_error" \notin Faults => snapshots' # {}
  <2>1. CASE SaveSnapshot(r)
    <3> DEFINE row == [seq |-> st.seq, done |-> st.done, files |-> st.files,
                       records |-> st.records, by |-> r]
    <3>1. Carries(st, row)
      BY DEF Carries
    <3>2. /\ st.pc = "save"
          /\ \/ snapshots' = snapshots /\ \E c \in snapshots : c.seq = st.seq
             \/ snapshots' = snapshots \cup {row}
             \/ "db_error" \in Faults /\ snapshots' = snapshots
      BY <2>1 DEF SaveSnapshot
    <3> HIDE DEF row, st
    <3> QED BY <3>1, <3>2
  <2>2. CASE ReadSnapshots(r)
    BY <2>2 DEF ReadSnapshots
  <2>3. CASE DeleteSnapshot(r)
    BY <2>3 DEF DeleteSnapshot
  <2> QED BY <2>1, <2>2, <2>3
<1> HIDE DEF st
<1>5. ASSUME NEW B \in SUBSET Snapshot
      PROVE  LET s2 == [st EXCEPT !.doomed = B]
             IN /\ s2 \in RunState /\ Progress(s2) /\ Carries(st, s2) /\ s2.at = 0
                /\ s2.pc = st.pc
  <2> DEFINE s2 == [st EXCEPT !.doomed = B]
  <2>1. /\ s2 \in RunState /\ s2.pc = st.pc /\ s2.done = st.done /\ s2.seq = st.seq
        /\ s2.at = st.at /\ s2.files = st.files /\ s2.records = st.records
    BY <1>1 DEF RunState
  <2> HIDE DEF s2
  <2>2. Progress(s2)
    BY <1>1, <2>1 DEF Progress
  <2> QED BY <1>2, <2>1, <2>2 DEF s2, Carries
<1>6. ASSUME NEW s2 \in RunState, Progress(s2), Carries(st, s2), s2.at = 0
      PROVE  /\ Carries(st, Onward(s2)) /\ Onward(s2).at = 0
             /\ Onward(s2).pc = IF st.seq = 4 THEN "returned" ELSE "stage"
  BY <1>6, OnwardFields DEF Carries
<1>7. /\ Carries(st, exec'[r]) /\ exec'[r].at = 0
      /\ exec'[r].pc \in {"stage", "returned", "clean", "delete"}
      /\ exec'[r].pc = "returned" => st.seq = 4
  <2>1. CASE exec'[r] \in {[st EXCEPT !.pc = "clean"], [st EXCEPT !.pc = "delete", !.doomed = D]}
    BY <1>1, <1>2, <2>1 DEF RunState, Carries
  <2>2. CASE exec'[r] = Onward(st)
    <3>1. Carries(st, st)
      BY DEF Carries
    <3> QED BY <1>1, <1>2, <1>6, <2>2, <3>1
  <2>3. CASE exec'[r] = Onward([st EXCEPT !.doomed = D])
    BY <1>5, <1>6, <2>3
  <2>4. CASE st.pc = "delete" /\ exec'[r] = [st EXCEPT !.doomed = D]
    BY <1>5, <2>4
  <2> QED BY <1>3, <2>1, <2>2, <2>3, <2>4
<1> QED BY <1>1, <1>2, <1>4, <1>7 DEF st

LEMMA CutOffMove ==
  ASSUME PipelineInv, NEW r \in Runs, CutOff(r)
  PROVE  LET nx == exec'[r]
         IN /\ Executing(r) /\ nx.pc = "dead" /\ nx.seq = 0 /\ nx.at = 0
            /\ nx.files = <<>> /\ nx.records = <<>>
            /\ UNCHANGED <<snapshots, outputs, imported, artifact>>
<1>1. exec'[r] = [Fresh EXCEPT !.pc = "dead"]
  BY BecomeFacts DEF CutOff
<1>2. Fresh \in RunState
  BY DEF Fresh, RunState, Pc
<1>3. /\ exec'[r].pc = "dead" /\ exec'[r].seq = 0 /\ exec'[r].at = 0
      /\ exec'[r].files = <<>> /\ exec'[r].records = <<>>
  BY <1>1, <1>2 DEF Fresh, RunState, Pc
<1> QED BY <1>3 DEF CutOff

\* A step of one run is one of these moves, and leaves the other runs alone.
LEMMA RunStep ==
  ASSUME PipelineInv, NEW r \in Runs, RunNext(r)
  PROVE  /\ \A q \in Runs \ {r} : exec'[q] = exec[q]
         /\ exec'[r].pc # "idle" /\ (Begin(r) \/ Executing(r))
<1>1. PICK st : Become(r, st)
  BY DEF RunNext, Begin, Discover, LookUp, RecordStep, SaveArtifact, MarkImported, EndStage,
         SaveSnapshot, ReadSnapshots, DeleteSnapshot, CutOff
<1>a. \A q \in Runs \ {r} : exec'[q] = exec[q]
  BY <1>1, BecomeFacts
<1>2. CASE Begin(r)
  BY <1>a, <1>2, BeginMove
<1>3. CASE Discover(r)
  BY <1>a, <1>3, DiscoverMove DEF Executing
<1>4. CASE LookUp(r) \/ RecordStep(r)
  BY <1>a, <1>4, IngestMove DEF Executing
<1>5. CASE SaveArtifact(r) \/ MarkImported(r)
  BY <1>a, <1>5, ArchiveMove DEF Executing
<1>6. CASE EndStage(r)
  BY <1>a, <1>6, EndStageMove DEF Executing
<1>7. CASE SaveSnapshot(r) \/ ReadSnapshots(r) \/ DeleteSnapshot(r)
  BY <1>a, <1>7, SnapshotMove DEF Executing
<1>8. CASE CutOff(r)
  BY <1>a, <1>8, CutOffMove
<1> QED BY <1>2, <1>3, <1>4, <1>5, <1>6, <1>7, <1>8 DEF RunNext

-----------------------------------------------------------------------------
(* Files are not left behind, though runs overlap.                         *)

Marked(f) == imported[f] # "no"

\* A run need not handle f any more, or has it among its files.
Covered(f, files) == Marked(f) \/ \E i \in 1..Len(files) : files[i] = f

RunCovers(st) ==
  /\ \A f \in Files : f <= st.at \/ st.seq > 0 => Covered(f, st.files)
  /\ st.seq = 3 => \A i \in 1..Len(st.files) : i < st.at => Marked(st.files[i])
  /\ st.seq = 4 => \A f \in Files : Marked(f)
  /\ st.pc = "returned" => st.seq = 4

SnapshotCovers(c) == \A f \in Files : Covered(f, c.files) /\ (c.seq = 4 => Marked(f))

CoverInv ==
  /\ PipelineInv
  /\ \A r \in Runs : RunCovers(exec[r])
  /\ \A c \in snapshots : SnapshotCovers(c)

\* A file that counts as processed goes on to.
MarksKept == \A f \in Files : Marked(f) => Marked(f)'

LEMMA CoverKept ==
  ASSUME MarksKept
  PROVE  /\ \A st \in RunState : RunCovers(st) => RunCovers(st)'
         /\ \A c \in Snapshot : SnapshotCovers(c) => SnapshotCovers(c)'
<1>1. ASSUME NEW f \in Files, NEW files \in Seq(Files), Covered(f, files)
      PROVE  Covered(f, files)'
  BY <1>1 DEF MarksKept, Covered
<1>2. ASSUME NEW st \in RunState, RunCovers(st)
      PROVE  RunCovers(st)'
  <2>1. st.files \in Seq(Files) /\ \A i \in 1..Len(st.files) : st.files[i] \in Files
    BY DEF RunState
  <2>2. ASSUME NEW f \in Files, f <= st.at \/ st.seq > 0
        PROVE  Covered(f, st.files)'
    BY <1>1, <1>2, <2>1, <2>2 DEF RunCovers
  <2> QED BY <1>2, <2>1, <2>2 DEF RunCovers, MarksKept
<1>3. ASSUME NEW c \in Snapshot, SnapshotCovers(c)
      PROVE  SnapshotCovers(c)'
  <2>1. c.files \in Seq(Files)
    BY DEF Snapshot
  <2> QED BY <1>1, <1>3, <2>1 DEF SnapshotCovers, MarksKept
<1> QED BY <1>2, <1>3

LEMMA MarksStep ==
  ASSUME PipelineInv, [Next]_vars
  PROVE  MarksKept
<1>1. imported \in [Files -> {"no", "ours", "others"}]
  BY DEF PipelineInv, TypeOK
<1>2. CASE OtherImport
  BY <1>1, <1>2 DEF OtherImport, MarksKept, Marked
<1>3. ASSUME NEW r \in Runs, MarkImported(r)
      PROVE  MarksKept
  BY <1>1, <1>3, ArchiveMove DEF MarksKept, Marked
<1>4. CASE UNCHANGED imported
  BY <1>4 DEF MarksKept, Marked
<1> QED BY <1>2, <1>3, <1>4 DEF Next, vars, RunNext, Begin, Discover, LookUp, RecordStep,
       SaveArtifact, EndStage, SaveSnapshot, ReadSnapshots, DeleteSnapshot, CutOff

\* The run that takes a step, and the snapshots it leaves.
LEMMA RunCoverStep ==
  ASSUME CoverInv, "db_error" \notin Faults, NEW r \in Runs, RunNext(r)
  PROVE  RunCovers(exec[r])' /\ \A c \in snapshots' : SnapshotCovers(c)'
<1>0. PICK st \in RunState, nx \in RunState : st = exec[r] /\ nx = exec'[r]
  <2>1. PipelineInv' /\ PipelineInv
    BY PipelineStep DEF CoverInv, Next
  <2> QED BY <2>1 DEF PipelineInv, TypeOK
<1>1. /\ PipelineInv /\ RunCovers(st) /\ PcOK(st)
      /\ st.at \in Nat /\ st.seq \in Nat /\ st.files \in Seq(Files) /\ Len(st.files) \in Nat
      /\ nx.at \in Nat /\ nx.seq \in Nat
      /\ \A i \in 1..Len(st.files) : st.files[i] \in Files
      /\ Files = 1..FileCount /\ FileCount \in Nat
  BY <1>0, RunFacts, PipelineAssumption DEF CoverInv, Files, RunState
<1>2. MarksKept /\ snapshots \in SUBSET Snapshot /\ \A c \in snapshots : SnapshotCovers(c)
  BY MarksStep DEF CoverInv, Next, PipelineInv, TypeOK
<1>3. ASSUME snapshots' \subseteq snapshots
      PROVE  \A c \in snapshots' : SnapshotCovers(c)'
  BY <1>2, <1>3, CoverKept
<1>4. RunCovers(st)'
  BY <1>1, <1>2, CoverKept
<1>5. SUFFICES RunCovers(nx)' /\ \A c \in snapshots' : SnapshotCovers(c)'
  BY <1>0 DEF RunCovers, Covered, Marked
<1>6. CASE Begin(r)
  <2>1. snapshots' = snapshots /\ nx.at = 0 /\ (nx.pc = "returned" => nx.seq = 4)
    BY <1>0, <1>1, <1>6, BeginMove DEF Begin
  <2>2. CASE snapshots # {} /\ Carries(Latest, nx)
    <3>1. PICK c \in snapshots : c = Latest
      BY <1>1, <2>2, LatestFacts
    <3>2. SnapshotCovers(c)' /\ Carries(c, nx)
      BY <1>2, <2>2, <3>1, CoverKept
    <3>3. RunCovers(nx)'
      BY <1>1, <2>1, <3>2 DEF RunCovers, SnapshotCovers, Carries
    <3> QED BY <1>3, <2>1, <3>3
  <2>3. CASE nx.seq = 0
    <3>1. RunCovers(nx)'
      BY <1>1, <2>1, <2>3 DEF RunCovers
    <3> QED BY <1>3, <2>1, <3>1
  <2> QED BY <1>0, <1>1, <1>6, <2>2, <2>3, BeginMove
<1>7. CASE Discover(r)
  <2> DEFINE new == st.at + 1
  <2>1. /\ nx.seq = 0 /\ nx.pc = "stage" /\ nx.at = new /\ new \in Files
        /\ nx.files = IF imported[new] = "no" THEN Append(st.files, new) ELSE st.files
        /\ UNCHANGED <<snapshots, imported>>
    BY <1>0, <1>1, <1>7, DiscoverMove
  <2>2. ASSUME NEW f \in Files, f <= new
        PROVE  Covered(f, nx.files)'
    <3>1. CASE f = new
      <4>1. CASE imported[new] = "no"
        <5>1. /\ Len(nx.files) = Len(st.files) + 1 /\ nx.files[Len(st.files) + 1] = new
              /\ Len(st.files) + 1 \in 1..Len(nx.files)
          BY <1>1, <2>1, <4>1
        <5> QED BY <3>1, <5>1 DEF Covered
      <4>2. CASE imported[new] # "no"
        BY <2>1, <3>1, <4>2 DEF Covered, Marked
      <4> QED BY <4>1, <4>2
    <3>2. CASE f # new
      <4>1. Covered(f, st.files)
        <5>1. f <= st.at
          BY <1>1, <2>2, <3>2
        <5> QED BY <1>1, <5>1 DEF RunCovers
      <4>2. \A i \in 1..Len(st.files) : i \in 1..Len(nx.files) /\ nx.files[i] = st.files[i]
        BY <1>1, <2>1
      <4> QED BY <2>1, <4>1, <4>2 DEF Covered, Marked
    <3> QED BY <3>1, <3>2
  <2>3. RunCovers(nx)'
    BY <1>1, <2>1, <2>2 DEF RunCovers
  <2> QED BY <1>3, <2>1, <2>3
<1>8. CASE LookUp(r) \/ RecordStep(r)
  <2>1. /\ st.seq = 1 /\ nx.seq = 1 /\ nx.pc \in {"stage", "record"} /\ nx.files = st.files
        /\ snapshots' = snapshots
    BY <1>0, <1>1, <1>8, IngestMove
  <2>2. RunCovers(nx)'
    BY <1>1, <1>4, <2>1 DEF RunCovers
  <2> QED BY <1>3, <2>1, <2>2
<1>9. CASE SaveArtifact(r) \/ MarkImported(r)
  <2>1. /\ st.seq = 3 /\ Carries(st, nx) /\ nx.pc = "stage" /\ nx.at = st.at + 1
        /\ snapshots' = snapshots
    BY <1>0, <1>1, <1>9, ArchiveMove
  <2>a. ASSUME st.at \in 1..Len(st.files) PROVE Marked(st.files[st.at])'
    <3>1. st.files[st.at] \in Files /\ imported \in [Files -> {"no", "ours", "others"}]
      BY <1>1, <2>a DEF PipelineInv, TypeOK
    <3>2. imported' = [imported EXCEPT ![st.files[st.at]] = IF @ = "no" THEN "ours" ELSE @]
      <4>1. st.at # 0
        BY <2>a
      <4> QED BY <1>0, <1>1, <1>9, <4>1, ArchiveMove
    <3> QED BY <3>1, <3>2 DEF Marked
  <2>2. ASSUME NEW i \in 1..Len(st.files), i < nx.at
        PROVE  Marked(st.files[i])'
    <3>1. i < st.at \/ i = st.at
      BY <1>1, <2>1, <2>2
    <3> QED BY <1>4, <2>1, <2>a, <2>2, <3>1 DEF RunCovers
  <2>3. RunCovers(nx)'
    BY <1>1, <1>4, <2>1, <2>2 DEF RunCovers, Carries
  <2> QED BY <1>3, <2>1, <2>3
<1>10. CASE EndStage(r)
  <2>1. /\ st.seq \in 0..3 /\ nx.seq = st.seq + 1 /\ nx.files = st.files /\ nx.at = 0
        /\ (nx.pc = "returned" => nx.seq = 4)
        /\ (st.seq = 0 => st.at = FileCount) /\ (st.seq = 3 => st.at = Len(st.files) + 1)
        /\ snapshots' = snapshots
    BY <1>0, <1>1, <1>10, EndStageMove
  <2>2. \A f \in Files : Covered(f, st.files)'
    BY <1>1, <1>4, <2>1 DEF RunCovers
  <2>3. ASSUME st.seq = 3, NEW f \in Files
        PROVE  Marked(f)'
    <3>1. \A i \in 1..Len(st.files) : Marked(st.files[i])'
      BY <1>1, <1>4, <2>1, <2>3 DEF RunCovers
    <3> QED BY <2>2, <3>1 DEF Covered
  <2>4. RunCovers(nx)'
    BY <1>1, <2>1, <2>2, <2>3 DEF RunCovers
  <2> QED BY <1>3, <2>1, <2>4
<1>11. CASE SaveSnapshot(r) \/ ReadSnapshots(r) \/ DeleteSnapshot(r)
  <2>1. /\ st.seq \in 1..4 /\ Carries(st, nx) /\ nx.at = 0 /\ (nx.pc = "returned" => st.seq = 4)
        /\ \A c \in snapshots' : c \in snapshots \/ Carries(st, c)
    BY <1>0, <1>1, <1>11, SnapshotMove
  <2>2. RunCovers(nx)'
    BY <1>1, <1>4, <2>1 DEF RunCovers, Carries
  <2>3. ASSUME NEW c \in snapshots'
        PROVE  SnapshotCovers(c)'
    <3>1. CASE c \in snapshots
      BY <1>2, <3>1, CoverKept
    <3>2. CASE Carries(st, c)
      BY <1>1, <1>4, <2>1, <3>2 DEF RunCovers, SnapshotCovers, Carries
    <3> QED BY <2>1, <2>3, <3>1, <3>2
  <2> QED BY <2>2, <2>3
<1>12. CASE CutOff(r)
  <2>1. nx.seq = 0 /\ nx.at = 0 /\ nx.pc = "dead" /\ snapshots' = snapshots
    BY <1>0, <1>1, <1>12, CutOffMove
  <2>2. RunCovers(nx)'
    BY <1>1, <2>1 DEF RunCovers
  <2> QED BY <1>3, <2>1, <2>2
<1> QED BY <1>6, <1>7, <1>8, <1>9, <1>10, <1>11, <1>12 DEF RunNext

LEMMA CoverInductive ==
  ASSUME "db_error" \notin Faults
  PROVE  Spec => []CoverInv
<1>1. Init => CoverInv
  <2> SUFFICES ASSUME Init PROVE CoverInv
    OBVIOUS
  <2>1. Fresh.seq = 0 /\ Fresh.at = 0 /\ Fresh.pc = "idle"
    BY DEF Fresh
  <2>2. RunCovers(Fresh)
    BY <2>1, PipelineAssumption DEF RunCovers, Files
  <2> QED BY <2>2, PipelineInit DEF Init, CoverInv
<1>2. CoverInv /\ [Next]_vars => CoverInv'
  <2> SUFFICES ASSUME CoverInv, [Next]_vars PROVE CoverInv'
    OBVIOUS
  <2>1. PipelineInv /\ PipelineInv' /\ MarksKept
    BY PipelineStep, MarksStep DEF CoverInv
  <2>2. ASSUME NEW q \in Runs, exec'[q] = exec[q]
        PROVE  RunCovers(exec[q])'
    <3>1. PICK st \in RunState : st = exec[q] /\ RunCovers(st)
      BY <2>1 DEF PipelineInv, TypeOK, CoverInv
    <3>2. RunCovers(st)'
      BY <2>1, <3>1, CoverKept
    <3> QED BY <2>2, <3>1, <3>2 DEF RunCovers, Covered, Marked
  <2>3. CASE OtherImport \/ UNCHANGED vars
    <3>1. exec' = exec /\ snapshots' = snapshots
      BY <2>3 DEF OtherImport, vars
    <3>2. \A c \in snapshots' : SnapshotCovers(c)'
      BY <2>1, <3>1, CoverKept DEF CoverInv, PipelineInv, TypeOK
    <3> QED BY <2>1, <2>2, <3>1, <3>2 DEF CoverInv
  <2>4. ASSUME NEW r \in Runs, RunNext(r)
        PROVE  CoverInv'
    <3>1. RunCovers(exec[r])' /\ \A c \in snapshots' : SnapshotCovers(c)'
      BY <2>4, RunCoverStep
    <3>2. \A q \in Runs \ {r} : exec'[q] = exec[q]
      BY <2>1, <2>4, RunStep
    <3> QED BY <2>1, <2>2, <3>1, <3>2 DEF CoverInv
  <2> QED BY <2>3, <2>4 DEF Next
<1> QED BY <1>1, <1>2, PTL DEF Spec

\* While the database serves every statement: when a run returns, every file counts as
\* processed, even if other runs overlap it or were cut off (daily_import.py 57-65 and
\* 196-205).
THEOREM NothingLeftCorrect ==
  ASSUME "db_error" \notin Faults
  PROVE  Spec => []NothingLeftBehind
<1>1. CoverInv => NothingLeftBehind
  BY DEF CoverInv, RunCovers, Marked, NothingLeftBehind
<1> QED BY <1>1, CoverInductive, PTL

-----------------------------------------------------------------------------
(* Runs that follow one another.                                           *)

Sequential == Faults \cap {"ghost", "db_error"} = {}

\* A run that has begun has predecessors that are over.
Solo == \A q, r \in Runs : q < r /\ exec[r].pc # "idle" => exec[q].pc \in {"returned", "dead"}

\* A run that executes is not behind any snapshot.
Ahead == \A r \in Runs : Executing(r) => \A c \in snapshots : c.seq <= exec[r].seq

\* Without checkpointing there is nothing to resume from.
NoneSaved ==
  ~Checkpointing => snapshots = {} /\ \A r \in Runs : exec[r].pc \notin {"save", "clean", "delete"}

SequentialInv == PipelineInv /\ Solo /\ Ahead /\ NoneSaved

LEMMA OthersRest ==
  ASSUME SequentialInv, Sequential, NEW r \in Runs, RunNext(r)
  PROVE  Solo' /\ \A q \in Runs \ {r} : exec'[q] = exec[q] /\ ~Executing(q)
<1>1. /\ \A q \in Runs \ {r} : exec'[q] = exec[q]
      /\ exec'[r].pc # "idle" /\ (Begin(r) \/ Executing(r))
  BY RunStep DEF SequentialInv
<1>2. r \in Nat /\ \A q \in Runs : q \in Nat
  BY PipelineAssumption DEF Runs
<1>3. ASSUME NEW q \in Runs, q < r
      PROVE  exec[q].pc \in {"returned", "dead"}
  <2>1. CASE Begin(r)
    <3>1. q \in 1..(r - 1)
      BY <1>2, <1>3, PipelineAssumption DEF Runs
    <3> QED BY <2>1, <3>1 DEF Begin, Executing, Sequential
  <2>2. CASE Executing(r)
    BY <1>3, <2>2 DEF SequentialInv, Solo, Executing
  <2> QED BY <1>1, <2>1, <2>2
<1>4. ASSUME NEW q \in Runs, r < q
      PROVE  exec[q].pc = "idle"
  <2>1. exec[r].pc \notin {"returned", "dead"}
    BY <1>1 DEF Begin, Executing
  <2> QED BY <1>4, <2>1 DEF SequentialInv, Solo
<1>5. ASSUME NEW q \in Runs \ {r}
      PROVE  ~Executing(q)
  <2>1. q < r \/ r < q
    BY <1>2
  <2> QED BY <2>1, <1>3, <1>4 DEF Executing
<1>6. Solo'
  <2> SUFFICES ASSUME NEW q \in Runs, NEW p \in Runs, q < p, exec'[p].pc # "idle"
               PROVE  exec'[q].pc \in {"returned", "dead"}
    BY DEF Solo
  <2>1. CASE p = r
    BY <1>1, <1>2, <1>3, <2>1
  <2>2. CASE p # r
    <3>1. exec[p].pc # "idle" /\ ~(r < p)
      BY <1>1, <1>4, <2>2
    <3>2. q # r
      BY <3>1
    <3> QED BY <1>1, <3>1, <3>2 DEF SequentialInv, Solo
  <2> QED BY <2>1, <2>2
<1> QED BY <1>1, <1>5, <1>6

LEMMA SequentialStep ==
  ASSUME SequentialInv, Sequential, NEW r \in Runs, RunNext(r)
  PROVE  SequentialInv'
<1>1. PipelineInv /\ PipelineInv' /\ Ahead /\ NoneSaved
  BY PipelineStep DEF SequentialInv, Next
<1>2. Solo' /\ \A q \in Runs \ {r} : exec'[q] = exec[q] /\ ~Executing(q)
  BY OthersRest
<1>3. exec[r].seq \in Nat /\ exec'[r].seq \in Nat /\ \A c \in snapshots : c.seq \in Nat
  BY <1>1 DEF PipelineInv, TypeOK, RunState, Snapshot
<1>4. SUFFICES /\ exec'[r].pc # "dead" => \A c \in snapshots' : c.seq <= exec'[r].seq
               /\ ~Checkpointing => /\ snapshots' = {}
                                    /\ exec'[r].pc \notin {"save", "clean", "delete"}
  <2>1. Ahead'
    BY <1>2, <1>4 DEF Ahead, Executing
  <2>2. NoneSaved'
    BY <1>1, <1>2, <1>4 DEF NoneSaved
  <2> QED BY <1>1, <1>2, <2>1, <2>2 DEF SequentialInv
<1>5. CASE Begin(r)
  <2>1. snapshots' = snapshots /\ exec'[r].pc \in {"stage", "returned"}
    BY <1>1, <1>5, BeginMove DEF Begin
  <2>2. \A c \in snapshots : c.seq <= exec'[r].seq
    <3>1. CASE snapshots # {} /\ Carries(Latest, exec'[r])
      BY <1>1, <3>1, LatestFacts DEF Carries
    <3>2. CASE snapshots = {}
      BY <3>2
    <3> QED BY <1>1, <1>5, <3>1, <3>2, BeginMove DEF Sequential, NoneSaved
  <2> QED BY <1>1, <2>1, <2>2 DEF NoneSaved
<1>6. ASSUME Executing(r), snapshots' = snapshots, exec'[r].seq >= exec[r].seq,
             ~Checkpointing => exec'[r].pc \notin {"save", "clean", "delete"}
      PROVE  /\ exec'[r].pc # "dead" => \A c \in snapshots' : c.seq <= exec'[r].seq
             /\ ~Checkpointing => /\ snapshots' = {}
                                  /\ exec'[r].pc \notin {"save", "clean", "delete"}
  BY <1>1, <1>3, <1>6 DEF Ahead, NoneSaved
<1>7. CASE Discover(r)
  <2>1. exec[r].pc = "stage" /\ exec'[r].pc = "stage" /\ exec'[r].seq = exec[r].seq
        /\ snapshots' = snapshots
    BY <1>1, <1>7, DiscoverMove
  <2> QED BY <1>3, <1>6, <2>1 DEF Executing
<1>8. CASE LookUp(r) \/ RecordStep(r)
  <2>1. /\ exec[r].pc \in {"stage", "record"} /\ exec'[r].pc \in {"stage", "record"}
        /\ exec'[r].seq = exec[r].seq /\ snapshots' = snapshots
    BY <1>1, <1>8, IngestMove
  <2> QED BY <1>3, <1>6, <2>1 DEF Executing
<1>9. CASE SaveArtifact(r) \/ MarkImported(r)
  <2>1. exec[r].pc = "stage" /\ exec'[r].pc = "stage" /\ exec'[r].seq = exec[r].seq
        /\ snapshots' = snapshots
    BY <1>1, <1>9, ArchiveMove DEF Carries
  <2> QED BY <1>3, <1>6, <2>1 DEF Executing
<1>10. CASE EndStage(r)
  <2>1. /\ exec[r].pc = "stage" /\ exec'[r].seq = exec[r].seq + 1 /\ snapshots' = snapshots
        /\ exec'[r].pc = IF Checkpointing THEN "save"
                         ELSE IF exec'[r].seq = 4 THEN "returned" ELSE "stage"
    BY <1>1, <1>10, EndStageMove
  <2> QED BY <1>3, <1>6, <2>1 DEF Executing
<1>11. CASE SaveSnapshot(r) \/ ReadSnapshots(r) \/ DeleteSnapshot(r)
  <2>1. /\ exec[r].pc \in {"save", "clean", "delete"} /\ Carries(exec[r], exec'[r])
        /\ \A c \in snapshots' : c \in snapshots \/ Carries(exec[r], c)
    BY <1>1, <1>11, SnapshotMove
  <2>2. Checkpointing /\ Executing(r)
    BY <1>1, <2>1 DEF NoneSaved, Executing
  <2> QED BY <1>1, <1>3, <2>1, <2>2 DEF Ahead, Carries
<1>12. CASE CutOff(r)
  BY <1>1, <1>12, CutOffMove DEF NoneSaved
<1> QED BY <1>5, <1>7, <1>8, <1>9, <1>10, <1>11, <1>12 DEF RunNext

LEMMA SequentialInductive ==
  ASSUME Sequential
  PROVE  Spec => []SequentialInv
<1>1. Init => SequentialInv
  <2>1. Fresh.pc = "idle"
    BY DEF Fresh
  <2> QED BY <2>1, PipelineInit DEF Init, SequentialInv, Solo, Ahead, NoneSaved, Executing
<1>2. SequentialInv /\ [Next]_vars => SequentialInv'
  <2>1. ASSUME SequentialInv, OtherImport \/ UNCHANGED vars
        PROVE  SequentialInv'
    <3>1. PipelineInv' /\ exec' = exec /\ snapshots' = snapshots
      BY <2>1, IdleStep DEF OtherImport, vars, SequentialInv
    <3> QED BY <2>1, <3>1 DEF SequentialInv, Solo, Ahead, NoneSaved, Executing
  <2> QED BY <2>1, SequentialStep DEF Next
<1> QED BY <1>1, <1>2, PTL DEF Spec

\* While runs follow one another, a stage that a snapshot says is complete is not
\* executed again (executor.py 48-57, pipeline.py 37-40).
THEOREM NotRepeatedCorrect ==
  ASSUME Sequential
  PROVE  Spec => []CompletedStagesNotRepeated
<1>1. SequentialInv => CompletedStagesNotRepeated
  <2> SUFFICES ASSUME SequentialInv, NEW r \in Runs, exec[r].pc \in {"stage", "record"},
                      NEW c \in snapshots
               PROVE  Stage(exec[r]) \notin c.done
    BY DEF CompletedStagesNotRepeated
  <2>1. PICK st \in RunState : st = exec[r] /\ Progress(st) /\ PcOK(st)
    BY RunFacts DEF SequentialInv
  <2>2. st.seq \in Nat /\ Stage(st) = st.seq + 1
    BY <2>1, StageNumber DEF PcOK, RunState
  <2>3. c.done = 1..c.seq /\ c.seq \in 1..4 /\ c.seq <= st.seq
    BY <2>1 DEF SequentialInv, PipelineInv, SnapshotOK, Ahead, Executing
  <2> QED BY <2>1, <2>2, <2>3
<1> QED BY <1>1, SequentialInductive, PTL

-----------------------------------------------------------------------------
(* What a resumed run works on.  Until there is a snapshot, nothing is     *)
(* read; from then on all runs have the files that it names.               *)

Prefix(s, files) == \A i \in 1..Len(s) : i \in 1..Len(files) /\ s[i] = files[i]

Settled(files) ==
  /\ \A r \in Runs : Executing(r) => exec[r].files = files
  /\ \A i \in Files : Recorded(i) => i \in 1..Len(files) /\ outputs[i] = files[i]

SameFiles == \A c, d \in snapshots : d.files = c.files /\ Settled(c.files)

Early ==
  snapshots = {} =>
    /\ \A i \in Files : ~Recorded(i)
    /\ \A r \in Runs : Executing(r) =>
         exec[r].seq = 0 \/ (exec[r].seq = 1 /\ exec[r].pc = "save")

Matching ==
  /\ \A r \in Runs : Prefix(exec[r].records, exec[r].files)
  /\ \A c \in snapshots : Prefix(c.records, c.files)

ReplayInv == SequentialInv /\ SameFiles /\ Early /\ Matching

LEMMA SnapshotsStay ==
  ASSUME PipelineInv, [Next]_vars, snapshots # {}
  PROVE  snapshots' # {}
<1>1. LatestSeq \in Nat /\ LatestSeq > 0
  <2>1. Latest \in snapshots /\ Latest.seq = LatestSeq
    BY LatestFacts
  <2> QED BY <2>1 DEF PipelineInv, SnapshotOK
<1>2. SUFFICES ASSUME snapshots' = {} PROVE FALSE
  OBVIOUS
<1>3. {c.seq : c \in snapshots'} \cup {0} = {0}
  BY <1>2
<1>4. LatestSeq' \in {0}
  BY <1>3, MaxOfFew DEF LatestSeq
<1> QED BY <1>1, <1>2, <1>4, PipelineStep

\* Before the first snapshot.
LEMMA EarlyStep ==
  ASSUME ReplayInv, Sequential, Checkpointing, snapshots = {}, NEW r \in Runs, RunNext(r)
  PROVE  /\ UNCHANGED <<outputs, imported>>
         /\ Prefix(exec'[r].records, exec'[r].files)
         /\ snapshots' = {} => \/ exec'[r].seq = 0 \/ exec'[r].pc = "dead"
                               \/ exec'[r].seq = 1 /\ exec'[r].pc = "save"
         /\ \A c \in snapshots' : Carries(c, exec'[r])
         /\ exec'[r].seq \in {0, 1}
<1>1. /\ PipelineInv /\ Progress(exec[r]) /\ PcOK(exec[r])
      /\ Prefix(exec[r].records, exec[r].files)
      /\ Executing(r) => exec[r].seq = 0 \/ (exec[r].seq = 1 /\ exec[r].pc = "save")
  BY RunFacts DEF ReplayInv, SequentialInv, Matching, Early
<1>2. \A files : Prefix(<<>>, files)
  BY DEF Prefix
<1>3. CASE Begin(r)
  BY <1>1, <1>2, <1>3, BeginMove DEF Begin
<1>4. CASE Discover(r)
  <2>1. exec[r].records = <<>>
    BY <1>1, <1>4, DiscoverMove DEF Progress
  <2> QED BY <1>1, <1>2, <1>4, <2>1, DiscoverMove
<1>5. CASE LookUp(r) \/ RecordStep(r)
  BY <1>1, <1>5, IngestMove DEF Executing
<1>6. CASE SaveArtifact(r) \/ MarkImported(r)
  BY <1>1, <1>6, ArchiveMove DEF Executing
<1>7. CASE EndStage(r)
  <2>1. exec[r].seq = 0
    BY <1>1, <1>7, EndStageMove DEF Executing
  <2> QED BY <1>1, <1>7, <2>1, EndStageMove
<1>8. CASE SaveSnapshot(r) \/ ReadSnapshots(r) \/ DeleteSnapshot(r)
  <2>1. exec[r].seq = 1 /\ exec[r].pc = "save"
    BY <1>1, <1>8, SnapshotMove DEF Executing
  <2> QED BY <1>1, <1>8, <2>1, SnapshotMove DEF Sequential, Carries
<1>9. CASE CutOff(r)
  BY <1>1, <1>2, <1>9, CutOffMove
<1> QED BY <1>3, <1>4, <1>5, <1>6, <1>7, <1>8, <1>9 DEF RunNext

\* From the first snapshot on.
LEMMA LateStep ==
  ASSUME ReplayInv, Sequential, Checkpointing, NEW d \in snapshots, NEW r \in Runs, RunNext(r)
  PROVE  /\ exec'[r].pc # "dead" => exec'[r].files = d.files
         /\ Prefix(exec'[r].records, exec'[r].files)
         /\ \A i \in Files : Recorded(i)' => i \in 1..Len(d.files) /\ outputs'[i] = d.files[i]
         /\ \A c \in snapshots' : c.files = d.files /\ Prefix(c.records, c.files)
<1>0. PICK F : F = d.files
  OBVIOUS
<1>1. /\ PipelineInv /\ Progress(exec[r]) /\ PcOK(exec[r]) /\ Settled(F)
      /\ Prefix(exec[r].records, exec[r].files)
      /\ \A c \in snapshots : c.files = F /\ Prefix(c.records, c.files)
      /\ Executing(r) => exec[r].files = F /\ exec[r].seq >= d.seq
      /\ d.seq \in 1..4 /\ exec[r].seq \in Nat
      /\ outputs \in [Files -> Files \cup {NoFile}]
  BY <1>0, RunFacts DEF ReplayInv, SequentialInv, Ahead, Matching, SameFiles, Settled,
     PipelineInv, TypeOK, SnapshotOK
<1>2. SUFFICES /\ exec'[r].pc # "dead" => exec'[r].files = F
               /\ Prefix(exec'[r].records, exec'[r].files)
               /\ \/ outputs' = outputs
                  \/ \E i \in 1..Len(F) :
                    outputs' = [outputs EXCEPT ![i] = IF @ = NoFile THEN F[i] ELSE @]
               /\ \A c \in snapshots' : c \in snapshots \/ (Carries(exec[r], c) /\ Executing(r))
  <2>1. ASSUME NEW i \in Files, Recorded(i)'
        PROVE  i \in 1..Len(F) /\ outputs'[i] = F[i]
    BY <1>1, <1>2, <2>1 DEF Settled, Recorded
  <2>2. \A c \in snapshots' : c.files = F /\ Prefix(c.records, c.files)
    BY <1>1, <1>2 DEF Carries
  <2> QED BY <1>0, <1>2, <2>1, <2>2
<1>3. CASE Begin(r)
  <2>1. Latest \in snapshots /\ UNCHANGED <<outputs, snapshots>>
    BY <1>1, <1>3, LatestFacts DEF Begin
  <2>2. Carries(Latest, exec'[r])
    BY <1>1, <1>3, BeginMove DEF Sequential
  <2> QED BY <1>1, <2>1, <2>2 DEF Carries
<1>4. CASE Discover(r)
  BY <1>1, <1>4, DiscoverMove DEF Executing
<1>5. CASE LookUp(r) \/ RecordStep(r)
  <2> DEFINE i == exec[r].at + 1
  <2>1. /\ exec[r].files = F /\ exec'[r].files = F /\ snapshots' = snapshots
        /\ i \in 1..Len(F) /\ i \in Files /\ Len(exec[r].records) + 1 = i
    BY <1>1, <1>5, IngestMove DEF Executing
  <2>2. CASE Carries(exec[r], exec'[r]) /\ UNCHANGED outputs
    BY <1>1, <2>1, <2>2 DEF Carries
  <2>3. ASSUME NEW x, x = F[i], exec'[r].records = Append(exec[r].records, x)
        PROVE  Prefix(exec'[r].records, exec'[r].files)
    <3>1. PICK s \in Seq(Files) : s = exec[r].records
      BY <1>1, RunFacts
    <3>2. x \in Files
      <4>1. F \in Seq(Files)
        BY <1>1, <2>1, RunFacts
      <4> QED BY <2>1, <2>3, <4>1
    <3>3. Len(s) \in Nat /\ Prefix(s, F)
      BY <1>1, <2>1, <3>1
    <3> HIDE DEF i
    <3>4. Prefix(Append(s, x), F)
      BY <2>1, <2>3, <3>1, <3>2, <3>3 DEF Prefix
    <3> QED BY <2>1, <2>3, <3>1, <3>4
  <2>4. CASE Recorded(i) /\ exec'[r].records = Append(exec[r].records, outputs[i])
             /\ UNCHANGED outputs
    <3>1. outputs[i] = F[i]
      BY <1>1, <2>1, <2>4 DEF Settled
    <3> QED BY <2>1, <2>3, <2>4, <3>1
  <2>5. CASE exec'[r].records = Append(exec[r].records, exec[r].files[i])
             /\ outputs' = [outputs EXCEPT ![i] = IF @ = NoFile THEN exec[r].files[i] ELSE @]
    BY <2>1, <2>3, <2>5
  <2> QED BY <1>1, <1>5, <2>2, <2>4, <2>5, IngestMove
<1>6. CASE SaveArtifact(r) \/ MarkImported(r)
  BY <1>1, <1>6, ArchiveMove DEF Executing, Carries
<1>7. CASE EndStage(r)
  BY <1>1, <1>7, EndStageMove DEF Executing
<1>8. CASE SaveSnapshot(r) \/ ReadSnapshots(r) \/ DeleteSnapshot(r)
  BY <1>1, <1>8, SnapshotMove DEF Executing, Carries
<1>9. CASE CutOff(r)
  BY <1>1, <1>9, CutOffMove DEF Prefix
<1> QED BY <1>3, <1>4, <1>5, <1>6, <1>7, <1>8, <1>9 DEF RunNext

LEMMA ReplayNext ==
  ASSUME Sequential, Checkpointing, ReplayInv, [Next]_vars
  PROVE  ReplayInv'
<1>1. SequentialInv /\ PipelineInv
  BY DEF ReplayInv, SequentialInv
<1>2. CASE OtherImport \/ UNCHANGED vars
  <2>1. UNCHANGED <<exec, snapshots, outputs>>
    BY <1>2 DEF OtherImport, vars
  <2>2. SequentialInv'
    BY <1>1, <1>2, <2>1, IdleStep DEF SequentialInv, Solo, Ahead, NoneSaved, Executing
  <2> QED BY <2>1, <2>2
       DEF ReplayInv, SameFiles, Settled, Early, Matching, Executing, Recorded, Prefix
<1>3. ASSUME NEW r \in Runs, RunNext(r)
      PROVE  ReplayInv'
  <2>1. SequentialInv' /\ \A q \in Runs \ {r} : exec'[q] = exec[q] /\ ~Executing(q)
    BY <1>1, <1>3, SequentialStep, OthersRest
  <2>2. ASSUME NEW q \in Runs, Executing(q)'
        PROVE  q = r /\ exec'[r].pc # "dead"
    BY <2>1, <2>2 DEF Executing
  <2>3. CASE snapshots = {}
    <3>1. /\ UNCHANGED outputs /\ \A i \in Files : ~Recorded(i)
          /\ Prefix(exec'[r].records, exec'[r].files)
          /\ snapshots' = {} => \/ exec'[r].seq = 0 \/ exec'[r].pc = "dead"
                                \/ exec'[r].seq = 1 /\ exec'[r].pc = "save"
          /\ \A c \in snapshots' : c.files = exec'[r].files /\ c.records = exec'[r].records
      BY <1>3, <2>3, EarlyStep DEF ReplayInv, Early, Carries
    <3>2. \A i \in Files : ~Recorded(i)'
      BY <3>1 DEF Recorded
    <3>3. SameFiles'
      BY <2>2, <3>1, <3>2 DEF SameFiles, Settled
    <3>4. Early'
      BY <2>2, <3>1, <3>2 DEF Early
    <3>5. Matching'
      BY <2>1, <3>1 DEF ReplayInv, Matching, Prefix
    <3> QED BY <2>1, <3>3, <3>4, <3>5 DEF ReplayInv
  <2>4. CASE snapshots # {}
    <3>1. PICK d \in snapshots : TRUE
      BY <2>4
    <3>2. PICK F : F = d.files
      OBVIOUS
    <3>3. /\ exec'[r].pc # "dead" => exec'[r].files = F
          /\ Prefix(exec'[r].records, exec'[r].files)
          /\ \A i \in Files : Recorded(i)' => i \in 1..Len(F) /\ outputs'[i] = F[i]
          /\ \A c \in snapshots' : c.files = F /\ Prefix(c.records, c.files)
      BY <1>3, <3>2, LateStep
    <3>4. SameFiles'
      BY <2>2, <3>3 DEF SameFiles, Settled
    <3>5. Early'
      BY <1>1, <2>4, SnapshotsStay DEF Early
    <3>6. Matching'
      BY <2>1, <3>3 DEF ReplayInv, Matching, Prefix
    <3> QED BY <2>1, <3>4, <3>5, <3>6 DEF ReplayInv
  <2> QED BY <2>3, <2>4
<1> QED BY <1>2, <1>3 DEF Next

LEMMA ReplayInductive ==
  ASSUME Sequential, Checkpointing
  PROVE  Spec => []ReplayInv
<1>1. Init => ReplayInv
  <2> SUFFICES ASSUME Init PROVE ReplayInv
    OBVIOUS
  <2>1. Fresh.pc = "idle" /\ Fresh.records = <<>>
    BY DEF Fresh
  <2>2. Solo /\ Ahead /\ NoneSaved /\ SameFiles /\ Early
    BY <2>1 DEF Init, Solo, Ahead, NoneSaved, SameFiles, Early, Executing, Recorded
  <2>3. Matching
    BY <2>1 DEF Init, Matching, Prefix
  <2> QED BY <2>2, <2>3, PipelineInit DEF ReplayInv, SequentialInv
<1>2. ReplayInv /\ [Next]_vars => ReplayInv'
  BY ReplayNext
<1> QED BY <1>1, <1>2, PTL DEF Spec

LEMMA WholePrefix ==
  ASSUME NEW s \in Seq(Files), NEW files \in Seq(Files), Prefix(s, files)
  PROVE  s = SubSeq(files, 1, Len(s)) /\ (Len(s) = Len(files) => s = files)
<1>1. Len(s) \in Nat /\ Len(files) \in Nat /\ s \in [1..Len(s) -> Files]
      /\ files \in [1..Len(files) -> Files]
  OBVIOUS
<1>2. SubSeq(files, 1, Len(s)) = [i \in 1..Len(s) |-> files[i]]
  <2>1. SubSeq(files, 1, Len(s)) = [i \in 1..((Len(s) - 1) + 1) |-> files[(i + 1) - 1]]
    BY <1>1
  <2> QED BY <1>1, <2>1
<1>3. s = [i \in 1..Len(s) |-> files[i]]
  BY <1>1 DEF Prefix
<1> QED BY <1>1, <1>2, <1>3

\* While runs follow one another, with checkpointing: the records of a run are those of
\* its files, in order, whether they were read or replayed (step.py 17-24,
\* daily_import.py 70-77).
THEOREM RecordsCorrect ==
  ASSUME Sequential, Checkpointing
  PROVE  Spec => []RecordsMatchFiles
<1>1. ReplayInv => RecordsMatchFiles
  <2> SUFFICES ASSUME ReplayInv, NEW r \in Runs
               PROVE  /\ exec[r].records = SubSeq(exec[r].files, 1, Len(exec[r].records))
                      /\ 2 \in exec[r].done => exec[r].records = exec[r].files
    BY DEF RecordsMatchFiles
  <2>1. /\ exec[r].records \in Seq(Files) /\ exec[r].files \in Seq(Files)
        /\ Prefix(exec[r].records, exec[r].files) /\ Progress(exec[r]) /\ exec[r].seq \in Nat
    BY RunFacts DEF ReplayInv, SequentialInv, Matching
  <2>2. 2 \in exec[r].done => Len(exec[r].records) = Len(exec[r].files)
    BY <2>1 DEF Progress, Backed
  <2> QED BY <2>1, <2>2, WholePrefix
<1> QED BY <1>1, ReplayInductive, PTL

-----------------------------------------------------------------------------
(* The report.                                                             *)

Reported ==
  /\ \A r \in Runs : Executing(r) /\ exec[r].seq = 3 /\ exec[r].at > 0 => artifact = exec[r].files
  /\ \A f \in Files : imported[f] = "ours" =>
       \E c \in snapshots : artifact = c.files /\ \E i \in 1..Len(c.files) : c.files[i] = f

ReportInv == ReplayInv /\ Reported

LEMMA ReportStep ==
  ASSUME Sequential, Checkpointing, ReportInv, NEW r \in Runs, RunNext(r)
  PROVE  Reported'
<1>1. /\ ReplayInv /\ PipelineInv /\ Progress(exec[r]) /\ Reported
      /\ exec[r].files \in Seq(Files) /\ exec[r].records \in Seq(Files)
      /\ Len(exec[r].files) \in Nat /\ imported \in [Files -> {"no", "ours", "others"}]
  BY RunFacts DEF ReportInv, ReplayInv, SequentialInv, PipelineInv, TypeOK
<1>2. \A q \in Runs \ {r} : exec'[q] = exec[q] /\ ~Executing(q)
  BY <1>1, OthersRest DEF ReplayInv
<1>3. CASE snapshots = {}
  <2>1. UNCHANGED imported /\ exec'[r].seq # 3
    BY <1>1, <1>3, EarlyStep
  <2>2. \A f \in Files : imported'[f] # "ours"
    BY <1>1, <1>3, <2>1 DEF Reported
  <2> QED BY <1>2, <2>1, <2>2 DEF Reported, Executing
<1>4. ASSUME NEW d \in snapshots
      PROVE  Reported'
  <2>1. PICK F \in Seq(Files) : F = d.files
    BY <1>1 DEF PipelineInv, TypeOK, Snapshot
  <2>2. PICK c \in snapshots' : c.files = F
    <3>1. snapshots' # {}
      BY <1>1, SnapshotsStay DEF Next
    <3> QED BY <1>1, <2>1, <3>1, LateStep
  <2>3. /\ Executing(r) => exec[r].files = F
        /\ \A f \in Files : imported[f] = "ours" => artifact = F /\ \E i \in 1..Len(F) : F[i] = f
    BY <1>1, <2>1 DEF ReplayInv, SameFiles, Settled, Reported
  <2>4. SUFFICES /\ exec'[r].pc # "dead" /\ exec'[r].seq = 3 /\ exec'[r].at > 0
                    => artifact' = exec'[r].files
                 /\ \A f \in Files : imported'[f] = "ours" =>
                      artifact' = F /\ \E i \in 1..Len(F) : F[i] = f
    BY <1>2, <2>2, <2>4 DEF Reported, Executing
  <2>5. CASE SaveArtifact(r) \/ MarkImported(r)
    <3>1. /\ exec[r].pc = "stage" /\ exec[r].seq = 3 /\ Carries(exec[r], exec'[r])
          /\ exec[r].at \in Nat /\ exec[r].files = F
      BY <1>1, <2>3, <2>5, ArchiveMove DEF Executing
    <3>2. CASE exec[r].at = 0 /\ artifact' = exec[r].records /\ UNCHANGED imported
      <4>1. Len(exec[r].records) = Len(exec[r].files) /\ Prefix(exec[r].records, exec[r].files)
        BY <1>1, <3>1 DEF Progress, Backed, ReplayInv, Matching
      <4>2. exec[r].records = exec[r].files
        BY <1>1, <4>1, WholePrefix
      <4> QED BY <2>3, <3>1, <3>2, <4>2 DEF Carries
    <3>3. CASE exec[r].at \in 1..Len(exec[r].files) /\ UNCHANGED artifact
      <4>1. artifact = F
        BY <1>1, <3>1, <3>3 DEF Reported, Executing
      <4>2. \A f \in Files : imported'[f] = "ours" => imported[f] = "ours" \/ f = F[exec[r].at]
        BY <1>1, <2>5, <3>1, <3>3, ArchiveMove
      <4> QED BY <2>3, <3>1, <3>3, <4>1, <4>2 DEF Carries
    <3> QED BY <1>1, <2>5, <3>2, <3>3, ArchiveMove
  <2>6. ASSUME UNCHANGED <<imported, artifact>>,
               exec'[r].pc = "dead" \/ exec'[r].seq # 3 \/ exec'[r].at = 0
        PROVE  /\ exec'[r].pc # "dead" /\ exec'[r].seq = 3 /\ exec'[r].at > 0
                    => artifact' = exec'[r].files
               /\ \A f \in Files : imported'[f] = "ours" =>
                    artifact' = F /\ \E i \in 1..Len(F) : F[i] = f
    BY <2>3, <2>6
  <2>7. CASE Begin(r)
    BY <1>1, <2>6, <2>7, BeginMove DEF Begin
  <2>8. CASE Discover(r)
    BY <1>1, <2>6, <2>8, DiscoverMove
  <2>9. CASE LookUp(r) \/ RecordStep(r)
    BY <1>1, <2>6, <2>9, IngestMove
  <2>10. CASE EndStage(r)
    BY <1>1, <2>6, <2>10, EndStageMove
  <2>11. CASE SaveSnapshot(r) \/ ReadSnapshots(r) \/ DeleteSnapshot(r)
    BY <1>1, <2>6, <2>11, SnapshotMove
  <2>12. CASE CutOff(r)
    BY <1>1, <2>6, <2>12, CutOffMove
  <2> QED BY <2>5, <2>7, <2>8, <2>9, <2>10, <2>11, <2>12 DEF RunNext
<1> QED BY <1>3, <1>4

LEMMA ReportInductive ==
  ASSUME Sequential, Checkpointing
  PROVE  Spec => []ReportInv
<1>1. Init => Reported
  BY DEF Init, Reported, Executing, Fresh
<1>2. ReportInv /\ [Next]_vars => Reported'
  <2>1. ASSUME ReportInv, OtherImport \/ UNCHANGED vars
        PROVE  Reported'
    <3>1. UNCHANGED <<exec, snapshots, artifact>>
          /\ \A f \in Files : imported'[f] = "ours" => imported[f] = "ours"
      BY <2>1 DEF OtherImport, vars, ReportInv, ReplayInv, SequentialInv, PipelineInv, TypeOK
    <3> QED BY <2>1, <3>1 DEF ReportInv, Reported, Executing
  <2> QED BY <2>1, ReportStep DEF Next
<1>3. ReportInv /\ [Next]_vars => ReplayInv'
  BY ReplayNext DEF ReportInv
<1> QED BY <1>1, <1>2, <1>3, ReplayInductive, PTL DEF Spec, ReportInv

\* While runs follow one another, with checkpointing: a file that the job has marked as
\* processed is in its report, although each run writes the report anew
\* (daily_import.py 187-205).
THEOREM ReportedCorrect ==
  ASSUME Sequential, Checkpointing
  PROVE  Spec => []ImportedIsReported
<1>1. ReportInv => ImportedIsReported
  <2> SUFFICES ASSUME ReportInv, NEW f \in Files, imported[f] = "ours"
               PROVE  \E i \in DOMAIN artifact : artifact[i] = f
    BY DEF ImportedIsReported
  <2>1. PICK c \in snapshots : artifact = c.files /\ \E i \in 1..Len(c.files) : c.files[i] = f
    BY DEF ReportInv, Reported
  <2>2. artifact \in Seq(Files)
    BY DEF ReportInv, ReplayInv, SequentialInv, PipelineInv, TypeOK
  <2> QED BY <2>1, <2>2
<1> QED BY <1>1, ReportInductive, PTL
=============================================================================
