----------------------------- MODULE EndureRows ------------------------------
(***************************************************************************)
(* Types and rows, for any jobs, workers, tenants, scheduler instances and *)
(* faults.  Every variable keeps its type; every step of the system changes *)
(* at most one row of the jobs table, in one of nine ways (RowStep), from  *)
(* which ownership and the life cycle are proved here, and the fencing of  *)
(* results, the attempts and the capacity in the modules above this one.   *)
(***************************************************************************)
EXTENDS Endure, TLAPS

(***************************************************************************)
(* Types.  The lemmas below say what each operator returns, so that the    *)
(* proof of an action need not open the records it builds.                 *)
(***************************************************************************)

\* Every update of a row leaves a row.
LEMMA RowUpdates ==
  ASSUME NEW row \in JobRow
  PROVE  /\ \A w \in Workers \cup {NoWorker} : Scheduled(row, w) \in JobRow
         /\ Running(row) \in JobRow
         /\ Completed(row) \in JobRow
         /\ TimedOut(row) \in JobRow
         /\ Cancelled(row) \in JobRow
         /\ \A a \in Nat : AfterFailure(row, a) \in JobRow
         /\ \A b \in BOOLEAN : [row EXCEPT !.delayed = b] \in JobRow
         /\ \A b \in BOOLEAN : [row EXCEPT !.overdue = b] \in JobRow
<1>1. \A w \in Workers \cup {NoWorker} : Scheduled(row, w) \in JobRow
  BY DEF JobRow, JobState, Scheduled
<1>2. Running(row) \in JobRow
  <2>1. row.attempt + 1 \in Nat
    BY DEF JobRow
  <2> QED BY <2>1 DEF JobRow, JobState, Running
<1>3. Completed(row) \in JobRow /\ TimedOut(row) \in JobRow /\ Cancelled(row) \in JobRow
  BY DEF JobRow, JobState, Completed, TimedOut, Cancelled
<1>4. Requeued(row) \in JobRow /\ Buried(row) \in JobRow
  BY DEF JobRow, JobState, Requeued, Buried
<1>5. \A a \in Nat : AfterFailure(row, a) \in JobRow
  BY <1>4 DEF AfterFailure
<1>6. \A b \in BOOLEAN : [row EXCEPT !.delayed = b] \in JobRow
  BY DEF JobRow
<1>7. \A b \in BOOLEAN : [row EXCEPT !.overdue = b] \in JobRow
  BY DEF JobRow
<1> QED BY <1>1, <1>2, <1>3, <1>5, <1>6, <1>7

\* The rows a submission and a retry write.
LEMMA NewRows == Unsubmitted \in JobRow /\ FreshRow \in JobRow
BY DEF Unsubmitted, FreshRow, JobRow, JobState

LEMMA WriteType ==
  ASSUME job \in [Jobs -> JobRow], NEW j, NEW row \in JobRow, Write(j, row)
  PROVE  job' \in [Jobs -> JobRow]
BY DEF Write

\* Every update of a scheduler's memory leaves a memory.
LEMMA LoopStates ==
  ASSUME NEW st \in LoopState
  PROVE  /\ \A p \in PC : [st EXCEPT !.pc = p] \in LoopState
         /\ \A p \in PC, j \in Jobs : [st EXCEPT !.pc = p, !.current = j] \in LoopState
         /\ \A p \in PC, w \in Workers : [st EXCEPT !.pc = p, !.target = w] \in LoopState
BY DEF LoopState, PC

LEMMA IdleType == Idle \in LoopState
BY NoJobAssumption DEF LoopState, Idle, PC

LEMMA BecomeType ==
  ASSUME loop \in [Schedulers -> LoopState], NEW s, NEW st \in LoopState, Become(s, st)
  PROVE  loop' \in [Schedulers -> LoopState]
BY DEF Become

LEMMA SightType ==
  ASSUME job \in [Jobs -> JobRow], NEW J \in SUBSET Jobs
  PROVE  Sight(J) \in SUBSET Sighting
BY DEF Sight, Sighting, JobRow

-----------------------------------------------------------------------------
(* One lemma per component: its actions keep every variable in its type.   *)

LEMMA ApiType ==
  ASSUME TypeOK, Request
  PROVE  TableTypeOK' /\ ApiTypeOK'
<1> SUFFICES ASSUME NEW j \in Jobs,
                    Submit(j) \/ Cancel(j) \/ RetryClaim(j) \/ RetryCleanup(j)
             PROVE  TableTypeOK' /\ ApiTypeOK'
  BY DEF Request
<1> USE DEF TypeOK, TableTypeOK, ApiTypeOK
<1>1. CASE Submit(j)
  BY <1>1, NewRows, WriteType DEF Submit
<1>2. CASE Cancel(j)
  BY <1>2, RowUpdates, WriteType DEF Cancel
<1>3. CASE RetryClaim(j)
  BY <1>3, NewRows, WriteType DEF RetryClaim
<1>4. CASE RetryCleanup(j)
  BY <1>4 DEF RetryCleanup
<1> QED BY <1>1, <1>2, <1>3, <1>4

LEMMA TimeType ==
  ASSUME TypeOK, TimeNext
  PROVE  TableTypeOK'
<1> SUFFICES ASSUME NEW j \in Jobs, BackoffElapses(j) \/ DeadlinePasses(j)
             PROVE  TableTypeOK'
  BY DEF TimeNext
<1> USE DEF TypeOK, TableTypeOK
<1>1. CASE BackoffElapses(j)
  BY <1>1, RowUpdates, WriteType DEF BackoffElapses
<1>2. CASE DeadlinePasses(j)
  BY <1>2, RowUpdates, WriteType DEF DeadlinePasses
<1> QED BY <1>1, <1>2

\* What the sweeps do to a row and to the sweeping instance's memory.
LEMMA AfterType ==
  ASSUME SchedulerTypeOK, NEW s \in Schedulers, NEW e, NEW back \in {"orphan", "late"}
  PROVE  After(s, e, back) \in LoopState
<1>1. loop[s] \in LoopState
  BY DEF SchedulerTypeOK
<1> DEFINE rest == loop[s].seen \ {e}
           p == CASE rest # {} -> back [] back = "orphan" -> "sweep" [] OTHER -> "dequeue"
<1>2. rest \in SUBSET Sighting
  BY <1>1 DEF LoopState
<1>3. p \in PC
  BY DEF PC
<1>4. After(s, e, back) = [loop[s] EXCEPT !.seen = rest, !.current = NoJob,
                                          !.back = "orphan", !.pc = p]
  BY DEF After
<1> HIDE DEF rest, p
<1> QED BY <1>1, <1>2, <1>3, <1>4 DEF LoopState

LEMMA FailureType ==
  ASSUME TypeOK, NEW s \in Schedulers, NEW e \in loop[s].seen, NEW pre,
         NEW back \in {"orphan", "late"}, HandleJobFailure(s, e, pre, back)
  PROVE  job' \in [Jobs -> JobRow] /\ loop' \in [Schedulers -> LoopState]
<1> USE DEF TypeOK, TableTypeOK, SchedulerTypeOK
<1>1. loop[s] \in LoopState /\ e \in Sighting
  BY DEF LoopState
<1>2. e.job \in Jobs /\ e.attempt \in Nat /\ job[e.job] \in JobRow
  BY <1>1 DEF Sighting
<1>3. After(s, e, back) \in LoopState
  BY AfterType
<1>4. [loop[s] EXCEPT !.pc = "bury", !.current = e.job, !.back = back] \in LoopState
  BY <1>1, <1>2 DEF LoopState, PC
<1>5. AfterFailure(job[e.job], e.attempt) \in JobRow
  BY <1>2, RowUpdates
<1>6. CASE Owns(e.owner, e.job, pre) /\ e.attempt < MaxRetries
  BY <1>3, <1>5, <1>6, WriteType, BecomeType DEF HandleJobFailure
<1>7. CASE Owns(e.owner, e.job, pre) /\ ~(e.attempt < MaxRetries)
  BY <1>4, <1>5, <1>7, WriteType, BecomeType DEF HandleJobFailure
<1>8. CASE ~Owns(e.owner, e.job, pre)
  BY <1>3, <1>8, BecomeType DEF HandleJobFailure
<1> QED BY <1>6, <1>7, <1>8

LEMMA ElectType ==
  ASSUME LeaseTypeOK, NEW s \in Schedulers,
         NoRowFound(s) \/ CreateLease(s) \/ ClaimLease(s) \/ RenewLease(s)
         \/ LeaseExpires \/ ForgetLease(s)
  PROVE  LeaseTypeOK'
<1> USE DEF LeaseTypeOK
<1>1. CASE NoRowFound(s)
  BY <1>1 DEF NoRowFound
<1>2. CASE CreateLease(s)
  BY <1>2 DEF CreateLease
<1>3. CASE ClaimLease(s)
  BY <1>3 DEF ClaimLease
<1>4. CASE RenewLease(s)
  BY <1>4 DEF RenewLease
<1>5. CASE LeaseExpires
  BY <1>5 DEF LeaseExpires
<1>6. CASE ForgetLease(s)
  BY <1>6 DEF ForgetLease
<1> QED BY <1>1, <1>2, <1>3, <1>4, <1>5, <1>6

LEMMA SweepType ==
  ASSUME TypeOK, NEW s \in Schedulers, Sweep(s)
  PROVE  TableTypeOK' /\ SchedulerTypeOK'
<1> USE DEF TypeOK, TableTypeOK, SchedulerTypeOK
<1>0. loop[s] \in LoopState
  OBVIOUS
<1>lease. LeaseTypeOK'
  <2>1. UNCHANGED leaseVars
    BY DEF Sweep, MarkOffline, ReadOrphans, FailOrphan, RecordDeadLetter, ReadLate,
           TimeOut, ResolveTimeout
  <2> QED BY <2>1 DEF LeaseTypeOK, leaseVars
<1>1. CASE MarkOffline(s)
  <2> PICK w \in loop[s].suspects :
        /\ node' = [node EXCEPT ![w] = "OFFLINE"]
        /\ Become(s, [loop[s] EXCEPT !.pc = "orphans", !.target = w, !.suspects = @ \ {w}])
    BY <1>1 DEF MarkOffline
  <2>1. w \in Workers
    BY <1>0 DEF LoopState
  <2>2. [loop[s] EXCEPT !.pc = "orphans", !.target = w, !.suspects = @ \ {w}] \in LoopState
    BY <1>0, <2>1 DEF LoopState, PC
  <2>3. node' \in [Workers -> WorkerState]
    BY <2>1 DEF WorkerState
  <2> QED BY <1>1, <1>lease, <2>2, <2>3, BecomeType DEF MarkOffline
<1>2. CASE ReadOrphans(s)
  <2> DEFINE found == Sight(InFlightOn(loop[s].target))
  <2>1. found \in SUBSET Sighting
    BY SightType DEF InFlightOn
  <2>2. [loop[s] EXCEPT !.seen = found, !.target = NoWorker,
           !.pc = IF found = {} THEN "sweep" ELSE "orphan"] \in LoopState
    <3> HIDE DEF found
    <3> QED BY <1>0, <2>1 DEF LoopState, PC
  <2> QED BY <1>2, <1>lease, <2>2, BecomeType DEF ReadOrphans, tableVars
<1>3. CASE FailOrphan(s)
  BY <1>3, <1>lease, FailureType DEF FailOrphan
<1>4. CASE RecordDeadLetter(s)
  <2> PICK e \in loop[s].seen :
        /\ Become(s, IF e.job \in deadLetters THEN Idle ELSE After(s, e, loop[s].back))
        /\ deadLetters' = deadLetters \cup {e.job}
    BY <1>4 DEF RecordDeadLetter
  <2>1. e.job \in Jobs /\ loop[s].back \in {"orphan", "late"}
    BY <1>0 DEF LoopState, Sighting
  <2>2. (IF e.job \in deadLetters THEN Idle ELSE After(s, e, loop[s].back)) \in LoopState
    BY <1>0, <2>1, IdleType, AfterType
  <2> QED BY <1>4, <1>lease, <2>1, <2>2, BecomeType DEF RecordDeadLetter
<1>5. CASE ReadLate(s)
  <2> DEFINE found == Sight({j \in Jobs : Late(j)})
  <2>1. found \in SUBSET Sighting
    BY SightType
  <2>2. [loop[s] EXCEPT !.seen = found,
           !.pc = IF found = {} THEN "dequeue" ELSE "late"] \in LoopState
    <3> HIDE DEF found
    <3> QED BY <1>0, <2>1 DEF LoopState, PC
  <2> QED BY <1>5, <1>lease, <2>2, BecomeType DEF ReadLate, tableVars
<1>6. CASE TimeOut(s)
  <2> PICK e \in loop[s].seen :
        IF Owns(e.owner, e.job, {"RUNNING"})
          THEN /\ Write(e.job, TimedOut(job[e.job]))
               /\ Become(s, [loop[s] EXCEPT !.pc = "resolve", !.current = e.job])
          ELSE Become(s, After(s, e, "late")) /\ UNCHANGED job
    BY <1>6 DEF TimeOut
  <2>1. e.job \in Jobs /\ job[e.job] \in JobRow
    BY <1>0 DEF LoopState, Sighting
  <2>2. [loop[s] EXCEPT !.pc = "resolve", !.current = e.job] \in LoopState
    BY <1>0, <2>1, LoopStates DEF PC
  <2>3. After(s, e, "late") \in LoopState
    BY AfterType
  <2>4. TimedOut(job[e.job]) \in JobRow
    BY <2>1, RowUpdates
  <2>5. job' \in [Jobs -> JobRow] /\ loop' \in [Schedulers -> LoopState]
    BY <2>2, <2>3, <2>4, WriteType, BecomeType
  <2> QED BY <1>6, <1>lease, <2>5 DEF TimeOut
<1>7. CASE ResolveTimeout(s)
  BY <1>7, <1>lease, FailureType DEF ResolveTimeout
<1> QED BY <1>1, <1>2, <1>3, <1>4, <1>5, <1>6, <1>7 DEF Sweep

LEMMA DispatchType ==
  ASSUME TypeOK, NEW s \in Schedulers, Dispatch(s)
  PROVE  TableTypeOK' /\ SchedulerTypeOK'
<1> USE DEF TypeOK, TableTypeOK, SchedulerTypeOK
<1>0. /\ loop[s] \in LoopState
      /\ Idle \in LoopState
      /\ [Idle EXCEPT !.pc = "dequeue"] \in LoopState
  BY IdleType, LoopStates DEF PC
<1>lease. LeaseTypeOK'
  <2>1. UNCHANGED leaseVars
    BY DEF Dispatch, Dequeue, Admit, CheckQuota, PickWorker, Assign
  <2> QED BY <2>1 DEF LeaseTypeOK, leaseVars
<1>1. CASE Dequeue(s)
  <2>1. Become(s, Idle) \/ \E j \in Jobs :
          Become(s, [loop[s] EXCEPT !.pc = "admit", !.current = j])
    BY <1>1 DEF Dequeue, Ready
  <2> QED BY <1>0, <1>1, <1>lease, <2>1, LoopStates, BecomeType DEF Dequeue, tableVars, PC
<1>2. CASE Admit(s)
  BY <1>0, <1>2, <1>lease, LoopStates, BecomeType DEF Admit, Goto, tableVars, PC
<1>3. CASE CheckQuota(s)
  BY <1>0, <1>3, <1>lease, LoopStates, BecomeType DEF CheckQuota, Goto, tableVars, PC
<1>4. CASE PickWorker(s)
  <2>1. Become(s, Idle) \/ \E w \in Workers :
          Become(s, [loop[s] EXCEPT !.pc = "assign", !.target = w])
    BY <1>4 DEF PickWorker, Available
  <2> QED BY <1>0, <1>4, <1>lease, <2>1, LoopStates, BecomeType DEF PickWorker, tableVars, PC
<1>5. CASE Assign(s)
  <2> DEFINE j == loop[s].current
  <2>1. loop' \in [Schedulers -> LoopState]
    BY <1>0, <1>5, BecomeType DEF Assign
  <2>2. j \in Jobs => Scheduled(job[j], loop[s].target) \in JobRow
    BY <1>0, RowUpdates DEF LoopState
  <2>3. Write(j, Scheduled(job[j], loop[s].target)) \/ UNCHANGED job
    BY <1>5 DEF Assign
  <2>4. job' \in [Jobs -> JobRow]
    BY <2>2, <2>3 DEF Write
  <2> QED BY <1>5, <1>lease, <2>1, <2>4 DEF Assign
<1> QED BY <1>1, <1>2, <1>3, <1>4, <1>5 DEF Dispatch

LEMMA SchedulerStepType ==
  ASSUME TypeOK, NEW s \in Schedulers,
         SchedulerStep(s) \/ AbortCycle(s) \/ RestartScheduler(s)
  PROVE  TableTypeOK' /\ SchedulerTypeOK'
<1> USE DEF TypeOK, SchedulerTypeOK
<1>0. Idle \in LoopState
  BY IdleType
<1>1. CASE Elect(s)
  BY <1>1, ElectType DEF Elect, tableVars, TableTypeOK
<1>2. CASE BeginCycle(s)
  <2> DEFINE dead == {w \in silent : node[w] = "ONLINE"}
  <2>1. [Idle EXCEPT !.pc = "sweep", !.suspects = dead] \in LoopState
    BY <1>0 DEF LoopState, PC, TableTypeOK
  <2>2. loop' \in [Schedulers -> LoopState]
    BY <1>2, <2>1, BecomeType DEF BeginCycle
  <2> QED BY <1>2, <2>2 DEF BeginCycle, tableVars, TableTypeOK, leaseVars, LeaseTypeOK
<1>3. CASE Sweep(s)
  BY <1>3, SweepType
<1>4. CASE Dispatch(s)
  BY <1>4, DispatchType
<1>5. CASE AbortCycle(s)
  BY <1>0, <1>5, BecomeType DEF AbortCycle, tableVars, TableTypeOK, leaseVars, LeaseTypeOK
<1>6. CASE RestartScheduler(s)
  BY <1>0, <1>6, BecomeType, ElectType DEF RestartScheduler, tableVars, TableTypeOK
<1> QED BY <1>1, <1>2, <1>3, <1>4, <1>5, <1>6 DEF SchedulerStep

-----------------------------------------------------------------------------
(* Worker processes and their tasks *)

LEMMA RunTypes ==
  /\ NoRun \in Run
  /\ \A r \in Run : Unwound(r) \in Run
  /\ \A r \in Run, p \in Phase : [r EXCEPT !.phase = p] \in Run
<1>1. NoRun \in Run
  BY DEF NoRun, Run, Phase
<1>2. \A r \in Run, p \in Phase : [r EXCEPT !.phase = p] \in Run
  BY DEF Run
<1>3. \A r \in Run : Unwound(r) \in Run
  BY <1>1, <1>2 DEF Unwound, Phase
<1> QED BY <1>1, <1>2, <1>3

\* The two ways a task's own step leaves the worker's memory.
LEMMA StepType ==
  ASSUME WorkerTypeOK, NEW w \in Workers, NEW j \in Jobs,
         End(w, j) \/ \E p \in Phase : Step(w, j, p)
  PROVE  /\ run' \in [Workers -> [Jobs -> Run]]
         /\ cancelled' \in [Workers -> SUBSET Jobs]
<1> USE DEF WorkerTypeOK
<1>1. CASE End(w, j)
  BY <1>1, RunTypes DEF End
<1>2. ASSUME NEW p \in Phase, Step(w, j, p)
      PROVE  run' \in [Workers -> [Jobs -> Run]] /\ cancelled' \in [Workers -> SUBSET Jobs]
  <2>1. run[w][j] \in Run /\ [run[w][j] EXCEPT !.phase = p] \in Run
    BY RunTypes
  <2> QED BY <1>2, <2>1 DEF Step
<1> QED BY <1>1, <1>2

LEMMA RunStepType ==
  ASSUME TypeOK, NEW w \in Workers, NEW j \in Jobs,
         RunStep(w, j) \/ (RunError(w, j) /\ UNCHANGED <<up, polled, beat>>)
  PROVE  TableTypeOK' /\ WorkerTypeOK'
<1> USE DEF TypeOK
<1>0. UNCHANGED <<up, polled, beat>>
  BY DEF RunStep
<1> SUFFICES /\ job' \in [Jobs -> JobRow]
             /\ deadLetters' \subseteq Jobs
             /\ UNCHANGED <<node, silent>>
             /\ run' \in [Workers -> [Jobs -> Run]]
             /\ cancelled' \in [Workers -> SUBSET Jobs]
  BY <1>0 DEF TableTypeOK, WorkerTypeOK
<1> USE DEF TableTypeOK
<1>1. job[j] \in JobRow /\ run[w][j].attempt \in Nat
  BY DEF WorkerTypeOK, Run
<1>2. CASE Begin(w, j)
  BY <1>2, StepType DEF Begin, tableVars, Phase
<1>3. CASE StartRun(w, j)
  <2>1. job' \in [Jobs -> JobRow]
    BY <1>1, <1>3, RowUpdates, WriteType DEF StartRun
  <2> QED BY <1>3, <2>1, StepType DEF StartRun, Phase
<1>4. CASE Refresh(w, j)
  <2>1. [phase |-> "executing", attempt |-> job[j].attempt] \in Run
    BY <1>1 DEF Run, Phase, JobRow
  <2> QED BY <1>4, <2>1 DEF Refresh, tableVars, WorkerTypeOK
<1>5. CASE Return(w, j)
  BY <1>5, StepType DEF Return, tableVars, Phase
<1>6. CASE Complete(w, j)
  <2>1. job' \in [Jobs -> JobRow]
    BY <1>1, <1>6, RowUpdates, WriteType DEF Complete
  <2> QED BY <1>6, <2>1, StepType DEF Complete, Phase
<1>7. CASE FailJob(w, j)
  <2>1. job' \in [Jobs -> JobRow]
    BY <1>1, <1>7, RowUpdates, WriteType DEF FailJob
  <2>2. (IF run[w][j].attempt < MaxRetries THEN "reporting" ELSE "burying") \in Phase
    BY DEF Phase
  <2> QED BY <1>7, <2>1, <2>2, StepType DEF FailJob
<1>8. CASE BuryJob(w, j)
  <2>1. (IF j \in deadLetters THEN "failed" ELSE "reporting") \in Phase
    BY DEF Phase
  <2> QED BY <1>8, <2>1, StepType DEF BuryJob
<1>9. CASE Report(w, j)
  BY <1>9, StepType DEF Report, tableVars
<1>10. CASE RunError(w, j)
  BY <1>10, StepType DEF RunError, tableVars, Phase
<1> QED BY <1>2, <1>3, <1>4, <1>5, <1>6, <1>7, <1>8, <1>9, <1>10 DEF RunStep

LEMMA WorkerType ==
  ASSUME TypeOK, NEW w \in Workers,
         \/ Register(w) \/ Heartbeat(w) \/ Poll(w) \/ FallSilent(w)
         \/ CrashWorker(w) \/ StopWorker(w) \/ LoopError(w)
  PROVE  TableTypeOK' /\ WorkerTypeOK'
<1> USE DEF TypeOK, TableTypeOK, WorkerTypeOK
<1>1. CASE Register(w)
  BY <1>1 DEF Register, WorkerState
<1>2. CASE ReadHeartbeat(w)
  <2>1. \/ run' = run /\ cancelled' = cancelled
        \/ /\ run' = [run EXCEPT ![w] = [j \in Jobs |-> Unwound(@[j])]]
           /\ cancelled' = [cancelled EXCEPT ![w] = {j \in @ : ~Unwinds(run[w][j])}]
    BY <1>2 DEF ReadHeartbeat
  <2>2. run' \in [Workers -> [Jobs -> Run]]
    <3>1. \A j \in Jobs : Unwound(run[w][j]) \in Run
      BY RunTypes
    <3> QED BY <2>1, <3>1
  <2>3. cancelled' \in [Workers -> SUBSET Jobs]
    BY <2>1
  <2>4. beat' \in [Workers -> {"idle", "alive", "rejoin"}]
    BY <1>2 DEF ReadHeartbeat
  <2> QED BY <1>2, <2>2, <2>3, <2>4 DEF ReadHeartbeat, tableVars
<1>3. CASE SaveHeartbeat(w)
  BY <1>3 DEF SaveHeartbeat, WorkerState
<1>4. CASE PollAssigned(w)
  <2>1. [NoRun EXCEPT !.phase = "created"] \in Run
    BY RunTypes DEF Phase
  <2>2. run' \in [Workers -> [Jobs -> Run]] /\ polled' \in [Workers -> SUBSET Jobs]
    BY <1>4, <2>1 DEF PollAssigned, Active
  <2> QED BY <1>4, <2>2 DEF PollAssigned, tableVars
<1>5. CASE PollOwnership(w)
  <2>1. run' \in [Workers -> [Jobs -> Run]] /\ cancelled' \in [Workers -> SUBSET Jobs]
    BY <1>5, RunTypes DEF PollOwnership
  <2> QED BY <1>5, <2>1 DEF PollOwnership, tableVars
<1>6. CASE FallSilent(w)
  BY <1>6 DEF FallSilent, workerVars
<1>7. CASE CrashWorker(w)
  BY <1>7, RunTypes DEF CrashWorker, Halt, tableVars
<1>8. CASE StopWorker(w)
  BY <1>8, RunTypes DEF StopWorker, Halt, WorkerState
<1>9. CASE LoopError(w)
  BY <1>9 DEF LoopError, tableVars
<1> QED BY <1>1, <1>2, <1>3, <1>4, <1>5, <1>6, <1>7, <1>8, <1>9 DEF Heartbeat, Poll

-----------------------------------------------------------------------------
(* Every variable keeps its type: the states TLC explores in any instance  *)
(* are records of the shape the component modules declare.                 *)

LEMMA TypeInit == Init => TypeOK
<1> SUFFICES ASSUME Init PROVE TypeOK
  OBVIOUS
<1> USE DEF Init, TypeOK
<1>1. TableTypeOK
  BY NewRows DEF TableInit, TableTypeOK, WorkerState
<1>2. ApiTypeOK
  BY DEF ApiInit, ApiTypeOK
<1>3. SchedulerTypeOK
  BY IdleType DEF SchedulerInit, SchedulerTypeOK, LeaseInit, LeaseTypeOK
<1>4. WorkerTypeOK
  BY RunTypes DEF WorkerInit, WorkerTypeOK
<1> QED BY <1>1, <1>2, <1>3, <1>4

LEMMA TypeStep == TypeOK /\ [Next]_vars => TypeOK'
<1> SUFFICES ASSUME TypeOK, [Next]_vars PROVE TypeOK'
  OBVIOUS
<1>api. UNCHANGED apiVars => ApiTypeOK'
  BY DEF TypeOK, ApiTypeOK, apiVars
<1>sch. UNCHANGED schedulerVars => SchedulerTypeOK'
  BY DEF TypeOK, SchedulerTypeOK, schedulerVars, LeaseTypeOK
<1>wrk. UNCHANGED workerVars => WorkerTypeOK'
  BY DEF TypeOK, WorkerTypeOK, workerVars
<1>tab. UNCHANGED tableVars => TableTypeOK'
  BY DEF TypeOK, TableTypeOK, tableVars
<1>1. CASE ApiAction
  BY <1>1, <1>sch, <1>wrk, ApiType DEF ApiAction, TypeOK
<1>2. CASE TimeAction
  BY <1>2, <1>api, <1>sch, <1>wrk, TimeType DEF TimeAction, TypeOK
<1>3. CASE LeaseAction
  <2>1. PICK s \in Schedulers : TRUE
    BY <1>3 DEF LeaseAction, LeaseExpires, TypeOK, SchedulerTypeOK, LeaseTypeOK
  <2>2. SchedulerTypeOK'
    BY <1>3, <2>1, ElectType DEF LeaseAction, TypeOK, SchedulerTypeOK
  <2> QED BY <1>3, <1>api, <1>wrk, <1>tab, <2>2 DEF LeaseAction, TypeOK
<1>4. ASSUME NEW s \in Schedulers, SchedulerAction(s) PROVE TypeOK'
  BY <1>4, <1>api, <1>wrk, SchedulerStepType DEF SchedulerAction, TypeOK
<1>5. ASSUME NEW w \in Workers, WorkerAction(w) \/ SilenceAction(w) PROVE TypeOK'
  BY <1>5, <1>api, <1>sch, WorkerType DEF WorkerAction, SilenceAction, TypeOK
<1>6. ASSUME NEW w \in Workers, NEW j \in Jobs, RunAction(w, j) PROVE TypeOK'
  BY <1>6, <1>api, <1>sch, RunStepType DEF RunAction, TypeOK
<1>7. CASE FaultAction
  <2>1. ASSUME NEW w \in Workers, CrashWorker(w) \/ StopWorker(w) \/ LoopError(w),
               UNCHANGED <<apiVars, schedulerVars>>
        PROVE  TypeOK'
    BY <2>1, <1>api, <1>sch, WorkerType DEF TypeOK
  <2>2. ASSUME NEW s \in Schedulers, AbortCycle(s) \/ RestartScheduler(s),
               UNCHANGED <<apiVars, workerVars>>
        PROVE  TypeOK'
    BY <2>2, <1>api, <1>wrk, SchedulerStepType DEF TypeOK
  <2>3. ASSUME NEW w \in Workers, NEW j \in Jobs, RunError(w, j),
               UNCHANGED <<apiVars, schedulerVars, up, polled, beat>>
        PROVE  TypeOK'
    BY <2>3, <1>api, <1>sch, RunStepType DEF TypeOK
  <2>4. ASSUME NEW j \in Jobs, RetryLost(j), UNCHANGED <<schedulerVars, workerVars>>
        PROVE  TypeOK'
    BY <2>4, <1>sch, <1>wrk, <1>tab DEF TypeOK, RetryLost, ApiTypeOK
  <2> QED BY <1>7, <2>1, <2>2, <2>3, <2>4 DEF FaultAction
<1>8. CASE UNCHANGED vars
  BY <1>8, <1>api, <1>sch, <1>wrk, <1>tab DEF vars, TypeOK
<1> QED BY <1>1, <1>2, <1>3, <1>4, <1>5, <1>6, <1>7, <1>8 DEF Next

\* In every behaviour every variable has its type.
THEOREM TypeCorrect == Spec => []TypeOK
BY TypeInit, TypeStep, PTL DEF Spec

-----------------------------------------------------------------------------
(* What a dispatching instance holds in memory has its type, too.          *)

LEMMA MemoryInit == Init => MemoryOK
BY DEF Init, SchedulerInit, MemoryOK, Idle

\* The memory of an instance changes by its own steps only.
LEMMA MemoryStep == TypeOK /\ MemoryOK /\ [Next]_vars => MemoryOK'
<1> SUFFICES ASSUME TypeOK, MemoryOK, [Next]_vars PROVE MemoryOK'
  OBVIOUS
<1>same. UNCHANGED loop => MemoryOK'
  BY DEF MemoryOK
<1>one. ASSUME NEW s \in Schedulers, NEW st, Become(s, st),
               st.pc \in {"admit", "quota", "pick", "assign"} => st.current \in Jobs,
               st.pc = "assign" => st.target \in Workers
        PROVE  MemoryOK'
  BY <1>one DEF MemoryOK, Become, TypeOK, SchedulerTypeOK
<1>typ. \A s \in Schedulers : loop[s] \in LoopState
  BY DEF TypeOK, SchedulerTypeOK
<1>idle. Idle.pc = "top" /\ [Idle EXCEPT !.pc = "dequeue"].pc = "dequeue"
  BY DEF Idle
<1>after. \A s \in Schedulers : \A e : \A back \in {"orphan", "late"} :
            After(s, e, back).pc \in {"orphan", "late", "sweep", "dequeue"}
  BY <1>typ DEF After, LoopState
<1>fail. ASSUME NEW s \in Schedulers, NEW e, NEW pre, NEW back \in {"orphan", "late"},
                HandleJobFailure(s, e, pre, back)
         PROVE  MemoryOK'
  <2>1. [loop[s] EXCEPT !.pc = "bury", !.current = e.job, !.back = back].pc = "bury"
    BY <1>typ DEF LoopState
  <2> QED BY <1>fail, <1>one, <1>after, <2>1 DEF HandleJobFailure
<1>1. ASSUME NEW s \in Schedulers, SchedulerStep(s) PROVE MemoryOK'
  <2>0. loop[s] \in LoopState
    BY <1>typ
  <2>1. CASE Elect(s)
    BY <2>1, <1>same DEF Elect
  <2>2. CASE BeginCycle(s)
    BY <2>2, <1>one DEF BeginCycle, Idle
  <2>3. CASE MarkOffline(s)
    BY <2>0, <2>3, <1>one DEF MarkOffline, LoopState
  <2>4. CASE ReadOrphans(s)
    BY <2>0, <2>4, <1>one DEF ReadOrphans, LoopState
  <2>5. CASE FailOrphan(s)
    BY <2>5, <1>fail DEF FailOrphan
  <2>6. CASE RecordDeadLetter(s)
    BY <2>0, <2>6, <1>one, <1>idle, <1>after DEF RecordDeadLetter, LoopState
  <2>7. CASE ReadLate(s)
    BY <2>0, <2>7, <1>one DEF ReadLate, LoopState
  <2>8. CASE TimeOut(s)
    <3>1. \A j : [loop[s] EXCEPT !.pc = "resolve", !.current = j].pc = "resolve"
      BY <2>0 DEF LoopState
    <3> QED BY <2>8, <3>1, <1>one, <1>after, <1>same DEF TimeOut
  <2>9. CASE ResolveTimeout(s)
    BY <2>9, <1>fail DEF ResolveTimeout
  <2>10. CASE Dequeue(s)
    BY <2>0, <2>10, <1>one, <1>idle DEF Dequeue, LoopState, Ready
  <2>11. CASE Admit(s)
    BY <2>0, <2>11, <1>one, <1>idle DEF Admit, At, Goto, LoopState, MemoryOK
  <2>12. CASE CheckQuota(s)
    BY <2>0, <2>12, <1>one, <1>idle DEF CheckQuota, At, Goto, LoopState, MemoryOK
  <2>13. CASE PickWorker(s)
    BY <2>0, <2>13, <1>one, <1>idle DEF PickWorker, At, LoopState, MemoryOK, Available
  <2>14. CASE Assign(s)
    BY <2>14, <1>one, <1>idle DEF Assign
  <2> QED BY <1>1, <2>1, <2>2, <2>3, <2>4, <2>5, <2>6, <2>7, <2>8, <2>9, <2>10,
             <2>11, <2>12, <2>13, <2>14 DEF SchedulerStep, Sweep, Dispatch
<1>2. ASSUME NEW s \in Schedulers, AbortCycle(s) \/ RestartScheduler(s) PROVE MemoryOK'
  BY <1>2, <1>one, <1>idle DEF AbortCycle, RestartScheduler
<1>3. \/ UNCHANGED loop
      \/ \E s \in Schedulers : SchedulerStep(s) \/ AbortCycle(s) \/ RestartScheduler(s)
  BY DEF Next, vars, schedulerVars, ApiAction, TimeAction, LeaseAction, SchedulerAction,
         WorkerAction, SilenceAction, RunAction, FaultAction
<1> QED BY <1>1, <1>2, <1>3, <1>same

(***************************************************************************)
(* The jobs table.  RowStep lists the compare-and-set writes of the program. *)
(***************************************************************************)

\* The compare-and-set writes of the program, each with what its filter tests.
RowStep(j) ==
  \/ job[j].state \in {"ABSENT", "DEAD_LETTER"} /\ Write(j, FreshRow)
  \/ job[j].state = "QUEUED" /\ Write(j, [job[j] EXCEPT !.delayed = FALSE])
  \/ job[j].state = "RUNNING" /\ Write(j, [job[j] EXCEPT !.overdue = TRUE])
  \/ job[j].state \in CANCELLABLE_STATES /\ Write(j, Cancelled(job[j]))
  \/ /\ job[j].state = "QUEUED"
     /\ \E s \in Schedulers :
          /\ Assign(s) /\ loop[s].current = j /\ loop[s].target \in Workers
          /\ Write(j, Scheduled(job[j], loop[s].target))
  \/ /\ job[j].state = "SCHEDULED"
     /\ run[job[j].owner][j].phase = "begun"
     /\ run'[job[j].owner][j].phase = "started"
     /\ Write(j, Running(job[j]))
  \/ /\ job[j].state = "RUNNING"
     /\ job[j].owner \in up
     /\ run[job[j].owner][j].phase = "succeeded"
     /\ Write(j, Completed(job[j]))
  \/ /\ job[j].state = "RUNNING"
     /\ \E s \in Schedulers : At(s, "late") /\ \E e \in loop[s].seen : e.job = j
     /\ Write(j, TimedOut(job[j]))
  \/ /\ job[j].state \in {"SCHEDULED", "RUNNING", "TIMED_OUT"}
     /\ \E a \in Nat : Write(j, AfterFailure(job[j], a))

LEMMA FailureRow ==
  ASSUME TypeOK, NEW s \in Schedulers, NEW e \in loop[s].seen, NEW back,
         NEW pre \in SUBSET {"SCHEDULED", "RUNNING", "TIMED_OUT"},
         HandleJobFailure(s, e, pre, back)
  PROVE  UNCHANGED job \/ \E j \in Jobs : RowStep(j)
<1>1. e.job \in Jobs /\ e.attempt \in Nat
  BY DEF TypeOK, SchedulerTypeOK, LoopState, Sighting
<1>2. CASE Owns(e.owner, e.job, pre)
  <2>1. Write(e.job, AfterFailure(job[e.job], e.attempt))
    BY <1>2 DEF HandleJobFailure
  <2>2. job[e.job].state \in {"SCHEDULED", "RUNNING", "TIMED_OUT"}
    BY <1>2 DEF Owns
  <2>3. RowStep(e.job)
    BY <1>1, <2>1, <2>2 DEF RowStep
  <2> QED BY <1>1, <2>3
<1>3. CASE ~Owns(e.owner, e.job, pre)
  BY <1>3 DEF HandleJobFailure
<1> QED BY <1>2, <1>3

\* The scheduler's part.
LEMMA SchedulerRow ==
  ASSUME TypeOK, MemoryOK, NEW s \in Schedulers, SchedulerStep(s)
  PROVE  UNCHANGED job \/ \E j \in Jobs : RowStep(j)
<1>1. CASE FailOrphan(s)
  BY <1>1, FailureRow DEF FailOrphan, InFlight
<1>2. CASE ResolveTimeout(s)
  BY <1>2, FailureRow DEF ResolveTimeout
<1>3. CASE TimeOut(s)
  <2> PICK e \in loop[s].seen :
        IF Owns(e.owner, e.job, {"RUNNING"}) THEN Write(e.job, TimedOut(job[e.job]))
                                             ELSE UNCHANGED job
    BY <1>3 DEF TimeOut
  <2>1. e.job \in Jobs
    BY DEF TypeOK, SchedulerTypeOK, LoopState, Sighting
  <2>2. At(s, "late")
    BY <1>3 DEF TimeOut
  <2> QED BY <2>1, <2>2 DEF Owns, RowStep
<1>4. CASE Assign(s)
  <2>1. loop[s].current \in Jobs /\ loop[s].target \in Workers
    BY <1>4 DEF Assign, At, MemoryOK
  <2> QED BY <1>4, <2>1 DEF Assign, RowStep
<1>5. CASE Elect(s) \/ BeginCycle(s) \/ MarkOffline(s) \/ ReadOrphans(s)
           \/ RecordDeadLetter(s) \/ ReadLate(s) \/ Dequeue(s) \/ Admit(s)
           \/ CheckQuota(s) \/ PickWorker(s)
  BY <1>5 DEF Elect, BeginCycle, MarkOffline, ReadOrphans, RecordDeadLetter, ReadLate,
              Dequeue, Admit, CheckQuota, PickWorker, tableVars
<1> QED BY <1>1, <1>2, <1>3, <1>4, <1>5 DEF SchedulerStep, Sweep, Dispatch

\* The worker's part.
LEMMA RunRow ==
  ASSUME TypeOK, NEW w \in Workers, NEW j \in Jobs, RunStep(w, j)
  PROVE  UNCHANGED job \/ RowStep(j)
<1> USE DEF In, Owns
<1>1. CASE StartRun(w, j)
  <2>1. CASE Owns(w, j, {"SCHEDULED"})
    <3>1. run'[w][j].phase = "started"
      BY <1>1, <2>1 DEF StartRun, Step, TypeOK, WorkerTypeOK, Run
    <3> QED BY <1>1, <2>1, <3>1 DEF StartRun, RowStep
  <2>2. CASE ~Owns(w, j, {"SCHEDULED"})
    BY <1>1, <2>2 DEF StartRun
  <2> QED BY <2>1, <2>2
<1>2. CASE Complete(w, j)
  BY <1>2 DEF Complete, RowStep
<1>3. CASE FailJob(w, j)
  <2>1. run[w][j].attempt \in Nat
    BY DEF TypeOK, WorkerTypeOK, Run
  <2> QED BY <1>3, <2>1 DEF FailJob, RowStep
<1>4. CASE Begin(w, j) \/ Refresh(w, j) \/ Return(w, j) \/ BuryJob(w, j) \/ Report(w, j)
  BY <1>4 DEF Begin, Refresh, Return, BuryJob, Report, tableVars
<1> QED BY <1>1, <1>2, <1>3, <1>4 DEF RunStep

LEMMA RowChange ==
  ASSUME TypeOK, MemoryOK, [Next]_vars
  PROVE  UNCHANGED job \/ \E j \in Jobs : RowStep(j)
<1>1. CASE ApiAction
  BY <1>1 DEF ApiAction, Request, Submit, Cancel, RetryClaim, RetryCleanup, RETRYABLE_STATES,
              RowStep
<1>2. CASE TimeAction
  BY <1>2 DEF TimeAction, TimeNext, BackoffElapses, DeadlinePasses, RowStep
<1>3. CASE LeaseAction
  BY <1>3 DEF LeaseAction, tableVars
<1>4. ASSUME NEW s \in Schedulers, SchedulerAction(s)
      PROVE  UNCHANGED job \/ \E j \in Jobs : RowStep(j)
  BY <1>4, SchedulerRow DEF SchedulerAction
<1>5. ASSUME NEW w \in Workers, WorkerAction(w) \/ SilenceAction(w) PROVE UNCHANGED job
  BY <1>5 DEF WorkerAction, SilenceAction, Register, Heartbeat, ReadHeartbeat, SaveHeartbeat,
              Poll, PollAssigned, PollOwnership, FallSilent, tableVars
<1>6. ASSUME NEW w \in Workers, NEW j \in Jobs, RunAction(w, j)
      PROVE  UNCHANGED job \/ \E i \in Jobs : RowStep(i)
  BY <1>6, RunRow DEF RunAction
<1>7. CASE FaultAction
  BY <1>7 DEF FaultAction, CrashWorker, StopWorker, LoopError, AbortCycle, RunError,
              RestartScheduler, RetryLost, tableVars
<1>8. CASE UNCHANGED vars
  BY <1>8 DEF vars, tableVars
<1> QED BY <1>1, <1>2, <1>3, <1>4, <1>5, <1>6, <1>7, <1>8 DEF Next

-----------------------------------------------------------------------------
(* What such a step does to the three fields a client can tell rows apart  *)
(* by.                                                                     *)

RowEffect(old, new) ==
  \/ old.state = "DEAD_LETTER" /\ new.state = "QUEUED" /\ new.owner = NoWorker /\ new.attempt = 0
  \/ old.state = "ABSENT" /\ new.state = "QUEUED" /\ new.owner = NoWorker /\ new.attempt = 0
  \/ new.state = old.state /\ new.owner = old.owner /\ new.attempt = old.attempt
  \/ /\ old.state \in CANCELLABLE_STATES
     /\ new.state = "CANCELLED" /\ new.owner = old.owner /\ new.attempt = old.attempt
  \/ /\ old.state = "QUEUED"
     /\ new.state = "SCHEDULED" /\ new.owner \in Workers /\ new.attempt = old.attempt
  \/ /\ old.state = "SCHEDULED"
     /\ new.state = "RUNNING" /\ new.owner = old.owner /\ new.attempt = old.attempt + 1
  \/ /\ old.state = "RUNNING"
     /\ new.state = "COMPLETED" /\ new.owner = old.owner /\ new.attempt = old.attempt
  \/ /\ old.state = "RUNNING"
     /\ new.state = "TIMED_OUT" /\ new.owner = old.owner /\ new.attempt = old.attempt
  \/ /\ old.state \in {"SCHEDULED", "RUNNING", "TIMED_OUT"}
     /\ new.state \in {"QUEUED", "DEAD_LETTER"} /\ new.owner = NoWorker
     /\ new.attempt = old.attempt

LEMMA RowStepEffect ==
  ASSUME TypeOK, NEW j \in Jobs, RowStep(j)
  PROVE  /\ RowEffect(job[j], job'[j])
         /\ \A i \in Jobs \ {j} : job'[i] = job[i]
<1>1. PICK new : Write(j, new)
  BY DEF RowStep
<1>2. \A i \in Jobs \ {j} : job'[i] = job[i]
  BY <1>1 DEF Write, TypeOK, TableTypeOK
<1>3. job[j] \in JobRow
  BY DEF TypeOK, TableTypeOK
<1>4. \A row : Write(j, row) => job'[j] = row
  BY DEF Write, TypeOK, TableTypeOK
<1>5. RowEffect(job[j], job'[j])
  <2>1. ASSUME job[j].state \in {"ABSENT", "DEAD_LETTER"}, job'[j] = FreshRow
        PROVE  RowEffect(job[j], job'[j])
    BY <2>1 DEF RowEffect, FreshRow, Unsubmitted
  <2>2. ASSUME \/ job'[j] = [job[j] EXCEPT !.delayed = FALSE]
               \/ job'[j] = [job[j] EXCEPT !.overdue = TRUE]
        PROVE  RowEffect(job[j], job'[j])
    BY <1>3, <2>2 DEF RowEffect, JobRow
  <2>3. ASSUME job[j].state \in CANCELLABLE_STATES, job'[j] = Cancelled(job[j])
        PROVE  RowEffect(job[j], job'[j])
    BY <1>3, <2>3 DEF RowEffect, JobRow, Cancelled
  <2>4. ASSUME job[j].state = "QUEUED", NEW w \in Workers, job'[j] = Scheduled(job[j], w)
        PROVE  RowEffect(job[j], job'[j])
    BY <1>3, <2>4 DEF RowEffect, JobRow, Scheduled
  <2>5. ASSUME job[j].state = "SCHEDULED", job'[j] = Running(job[j])
        PROVE  RowEffect(job[j], job'[j])
    BY <1>3, <2>5 DEF RowEffect, JobRow, Running
  <2>6. ASSUME job[j].state = "RUNNING",
               job'[j] = Completed(job[j]) \/ job'[j] = TimedOut(job[j])
        PROVE  RowEffect(job[j], job'[j])
    BY <1>3, <2>6 DEF RowEffect, JobRow, Completed, TimedOut
  <2>7. ASSUME job[j].state \in {"SCHEDULED", "RUNNING", "TIMED_OUT"},
               NEW a \in Nat, job'[j] = AfterFailure(job[j], a)
        PROVE  RowEffect(job[j], job'[j])
    <3>1. job'[j] = Requeued(job[j]) \/ job'[j] = Buried(job[j])
      BY <2>7 DEF AfterFailure
    <3> QED BY <1>3, <2>7, <3>1 DEF RowEffect, JobRow, Requeued, Buried
  <2> QED BY <1>4, <2>1, <2>2, <2>3, <2>4, <2>5, <2>6, <2>7 DEF RowStep
<1> QED BY <1>2, <1>5

-----------------------------------------------------------------------------
(* Ownership.                                                              *)

\* OwnerMatchesState, and an id that is not in the table has had no run.
OwnershipInv ==
  /\ TypeOK /\ MemoryOK
  /\ OwnerMatchesState
  /\ \A j \in Jobs : job[j].state = "ABSENT" => job[j].attempt = 0

LEMMA OwnershipInit == Init => OwnershipInv
<1> SUFFICES ASSUME Init PROVE OwnershipInv
  OBVIOUS
<1>1. \A j \in Jobs : job[j] = Unsubmitted
  BY DEF Init, TableInit
<1>2. OwnerMatchesState /\ \A j \in Jobs : job[j].state = "ABSENT" => job[j].attempt = 0
  BY <1>1 DEF OwnerMatchesState, Unsubmitted
<1> QED BY <1>2, TypeInit, MemoryInit DEF OwnershipInv

LEMMA OwnershipStep == OwnershipInv /\ [Next]_vars => OwnershipInv'
<1> SUFFICES ASSUME OwnershipInv, [Next]_vars PROVE OwnershipInv'
  OBVIOUS
<1> USE DEF OwnershipInv, OwnerMatchesState
<1>1. (TypeOK /\ MemoryOK)'
  BY TypeStep, MemoryStep
<1>2. CASE UNCHANGED job
  BY <1>1, <1>2
<1>3. ASSUME NEW j \in Jobs, RowStep(j) PROVE OwnershipInv'
  <2>1. RowEffect(job[j], job'[j])
    BY <1>3, RowStepEffect
  <2>2. \A i \in Jobs \ {j} : job'[i] = job[i]
    BY <1>3, RowStepEffect
  <2>3. /\ job'[j].state \in {"ABSENT", "QUEUED", "DEAD_LETTER"} => job'[j].owner = NoWorker
        /\ job'[j].state \in {"SCHEDULED", "RUNNING", "COMPLETED", "TIMED_OUT"}
             => job'[j].owner \in Workers
        /\ job'[j].state = "ABSENT" => job'[j].attempt = 0
    BY <2>1 DEF RowEffect, CANCELLABLE_STATES
  <2>4. OwnerMatchesState'
    BY <2>2, <2>3
  <2>5. (\A i \in Jobs : job[i].state = "ABSENT" => job[i].attempt = 0)'
    BY <2>2, <2>3
  <2> QED BY <1>1, <2>4, <2>5
<1> QED BY <1>2, <1>3, RowChange

\* A row names a worker exactly in the states in which one has the job.
THEOREM OwnershipCorrect == Spec => []OwnerMatchesState
<1>1. OwnershipInv => OwnerMatchesState
  BY DEF OwnershipInv
<1> QED BY OwnershipInit, OwnershipStep, <1>1, PTL DEF Spec

-----------------------------------------------------------------------------
(* The life cycle: Endure implements JobLifecycle.                         *)

LEMMA LifecycleInit == Init => Lifecycle!Init
BY DEF Init, TableInit, Lifecycle!Init, Unsubmitted

LEMMA LifecycleStep ==
  ASSUME OwnershipInv, [Next]_vars
  PROVE  [Lifecycle!Next]_(Lifecycle!vars)
<1>1. CASE UNCHANGED job
  BY <1>1 DEF Lifecycle!vars
<1>2. ASSUME NEW j \in Jobs, RowStep(j) PROVE [Lifecycle!Next]_(Lifecycle!vars)
  <2> DEFINE state   == [i \in Jobs |-> job[i].state]
             attempt == [i \in Jobs |-> job[i].attempt]
             owner   == [i \in Jobs |-> job[i].owner]
  <2>1. RowEffect(job[j], job'[j])
    BY <1>2, RowStepEffect DEF OwnershipInv
  <2>2. \A i \in Jobs \ {j} : job'[i] = job[i]
    BY <1>2, RowStepEffect DEF OwnershipInv
  <2>3. /\ state'   = [state EXCEPT ![j] = job'[j].state]
        /\ attempt' = [attempt EXCEPT ![j] = job'[j].attempt]
        /\ owner'   = [owner EXCEPT ![j] = job'[j].owner]
    BY <2>2
  <2>4. /\ job'[j].attempt = job[j].attempt => attempt' = attempt
        /\ job'[j].state = job[j].state => state' = state
        /\ job'[j].owner = job[j].owner => owner' = owner
    BY <2>2
  <2> USE DEF Lifecycle!Move
  <2>5. CASE job'[j].state = job[j].state
    BY <2>1, <2>4, <2>5 DEF RowEffect, CANCELLABLE_STATES, Lifecycle!vars
  <2>6. CASE job[j].state = "ABSENT" /\ job'[j].state # "ABSENT"
    <3>1. job[j].attempt = 0
      BY <2>6 DEF OwnershipInv
    <3> QED BY <2>1, <2>3, <2>4, <2>6, <3>1
            DEF RowEffect, CANCELLABLE_STATES, Lifecycle!Submit, Lifecycle!Next
  <2>7. CASE job[j].state = "DEAD_LETTER" /\ job'[j].state # "DEAD_LETTER"
    BY <2>1, <2>3, <2>7 DEF RowEffect, CANCELLABLE_STATES, Lifecycle!Revive, Lifecycle!Next
  <2>8. CASE job'[j].state = "CANCELLED" /\ job[j].state # "CANCELLED"
    BY <2>1, <2>3, <2>4, <2>8
       DEF RowEffect, CANCELLABLE_STATES, Lifecycle!Cancel, Lifecycle!Next
  <2>9. CASE job[j].state = "QUEUED" /\ job'[j].state = "SCHEDULED"
    <3>1. job'[j].owner \in Workers /\ attempt' = attempt
      BY <2>1, <2>4, <2>9 DEF RowEffect, CANCELLABLE_STATES
    <3>2. \E w \in Workers : Lifecycle!Move(j, "SCHEDULED", w)
      BY <2>3, <2>9, <3>1
    <3> QED BY <2>9, <3>1, <3>2 DEF Lifecycle!Assign, Lifecycle!Next
  <2>10. CASE job[j].state = "SCHEDULED" /\ job'[j].state = "RUNNING"
    BY <2>1, <2>3, <2>10 DEF RowEffect, CANCELLABLE_STATES, Lifecycle!Start, Lifecycle!Next
  <2>11. CASE job[j].state = "RUNNING" /\ job'[j].state = "COMPLETED"
    BY <2>1, <2>3, <2>4, <2>11
       DEF RowEffect, CANCELLABLE_STATES, Lifecycle!Complete, Lifecycle!Next
  <2>12. CASE job[j].state = "RUNNING" /\ job'[j].state = "TIMED_OUT"
    BY <2>1, <2>3, <2>4, <2>12
       DEF RowEffect, CANCELLABLE_STATES, Lifecycle!TimeOut, Lifecycle!Next
  <2>13. CASE /\ job[j].state \in {"SCHEDULED", "RUNNING", "TIMED_OUT"}
              /\ job'[j].state \in {"QUEUED", "DEAD_LETTER"}
    BY <2>1, <2>3, <2>4, <2>13
       DEF RowEffect, CANCELLABLE_STATES, Lifecycle!GiveUp, Lifecycle!Next
  <2> QED BY <2>1, <2>5, <2>6, <2>7, <2>8, <2>9, <2>10, <2>11, <2>12, <2>13
          DEF RowEffect, CANCELLABLE_STATES
<1> QED BY <1>1, <1>2, RowChange DEF OwnershipInv

\* Whatever schedulers, workers, clients and faults do, a client sees each job
\* go through the life cycle.
THEOREM LifecycleCorrect == Spec => LifecycleSpec
<1>1. Spec => [](OwnershipInv)
  BY OwnershipInit, OwnershipStep, PTL DEF Spec
<1> QED BY LifecycleInit, LifecycleStep, <1>1, PTL DEF Spec, LifecycleSpec, Lifecycle!Spec

-----------------------------------------------------------------------------
(* Leaders.                                                                *)

\* An instance in the middle of a cycle believes it leads: it asks at the top only.
CyclesLead == \A s \in Schedulers : At(s, "top") \/ s \in leading

\* No two instances lead at the same time; LeaderElectionSafety proves it of an
\* election whose turns are short enough.
SoleLeader == \A s, t \in leading : s = t

LEMMA CyclesLeadInit == Init => CyclesLead
BY DEF Init, SchedulerInit, Idle, CyclesLead, At

LEMMA CyclesLeadStep == TypeOK /\ CyclesLead /\ [Next]_vars => CyclesLead'
<1> SUFFICES ASSUME TypeOK, CyclesLead, [Next]_vars PROVE CyclesLead'
  OBVIOUS
<1>one. ASSUME NEW s \in Schedulers, NEW st, Become(s, st), ~At(s, "top"), UNCHANGED leaseVars
        PROVE  CyclesLead'
  BY <1>one DEF CyclesLead, Become, At, leaseVars, TypeOK, SchedulerTypeOK
<1>idle. ASSUME NEW s \in Schedulers, Become(s, Idle),
                leading' = leading \/ leading' = leading \ {s}
         PROVE  CyclesLead'
  BY <1>idle DEF CyclesLead, Become, At, Idle, TypeOK, SchedulerTypeOK
<1>1. ASSUME NEW s \in Schedulers, SchedulerStep(s) PROVE CyclesLead'
  <2>1. CASE Elect(s)
    <3>1. \A r \in Schedulers \ {s} : r \in leading => r \in leading'
      BY <2>1 DEF Elect, NoRowFound, CreateLease, ClaimLease, RenewLease
    <3> QED BY <2>1, <3>1 DEF Elect, CyclesLead, At
  <2>2. CASE BeginCycle(s)
    BY <2>2 DEF BeginCycle, Become, CyclesLead, At, leaseVars, TypeOK, SchedulerTypeOK
  <2>3. CASE MarkOffline(s) \/ ReadOrphans(s) \/ FailOrphan(s) \/ RecordDeadLetter(s)
             \/ ReadLate(s)
    BY <2>3, <1>one DEF MarkOffline, ReadOrphans, FailOrphan, HandleJobFailure,
                        RecordDeadLetter, ReadLate, At
  <2>4. CASE TimeOut(s) \/ ResolveTimeout(s)
    BY <2>4, <1>one DEF TimeOut, ResolveTimeout, HandleJobFailure, At
  <2>5. CASE Dequeue(s) \/ Admit(s) \/ CheckQuota(s) \/ PickWorker(s) \/ Assign(s)
    BY <2>5, <1>one DEF Dequeue, Admit, CheckQuota, PickWorker, Assign, Goto, At
  <2> QED BY <1>1, <2>1, <2>2, <2>3, <2>4, <2>5 DEF SchedulerStep, Sweep, Dispatch
<1>2. ASSUME NEW s \in Schedulers, AbortCycle(s) \/ RestartScheduler(s) PROVE CyclesLead'
  BY <1>2, <1>idle DEF AbortCycle, RestartScheduler, ForgetLease, leaseVars
<1>3. \/ UNCHANGED <<loop, leading>>
      \/ \E s \in Schedulers : SchedulerStep(s) \/ AbortCycle(s) \/ RestartScheduler(s)
  BY DEF Next, vars, schedulerVars, leaseVars, LeaseExpires, ApiAction, TimeAction, LeaseAction,
         SchedulerAction, WorkerAction, SilenceAction, RunAction, FaultAction
<1> QED BY <1>1, <1>2, <1>3 DEF CyclesLead, At

LEMMA CyclesLeadAlways == Spec => [](CyclesLead)
BY TypeInit, TypeStep, CyclesLeadInit, CyclesLeadStep, PTL DEF Spec
=============================================================================
