----------------------------- MODULE EndureRuns ------------------------------
(***************************************************************************)
(* The runs of a job.  Results are fenced: a write of a worker lets a task *)
(* report only for the attempt the row shows, although its filter tests    *)
(* state and owner alone.  And how often a job is started, and that a run  *)
(* which is timed out is late, follow from what the sweeps remember.       *)
(***************************************************************************)
EXTENDS EndureRows, FiniteSetTheorems

\* The phases in which a task knows its attempt number.
Knowing == {"executing", "succeeded", "failed", "burying", "reporting"}

\* RunMatchesRow says this of the phases that may still write; those that have
\* written can fall back to "failed" when a database call raises.
FenceInv ==
  /\ OwnershipInv
  /\ \A w \in Workers, j \in Jobs :
       run[w][j].phase \in Knowing /\ Owns(w, j, {"RUNNING"})
         => run[w][j].attempt = job[j].attempt

-----------------------------------------------------------------------------
(* Tasks.  A step changes a task in one of these ways.                     *)

TaskEffect(w, j) ==
  \/ run'[w][j].phase \notin Knowing
  \/ run[w][j].phase \in Knowing /\ run'[w][j].attempt = run[w][j].attempt
  \/ run'[w][j].attempt = job[j].attempt /\ UNCHANGED job

LEMMA TaskSame == UNCHANGED run => \A w \in Workers, j \in Jobs : TaskEffect(w, j)
BY DEF TaskEffect

\* A step of one task leaves the others alone.
LEMMA TaskOnly ==
  ASSUME TypeOK, NEW w \in Workers, NEW j \in Jobs, TaskEffect(w, j),
         NEW r, run' = [run EXCEPT ![w][j] = r]
  PROVE  \A v \in Workers, i \in Jobs : TaskEffect(v, i)
BY DEF TaskEffect, TypeOK, WorkerTypeOK

LEMMA TaskMoves ==
  ASSUME TypeOK, NEW w \in Workers, NEW j \in Jobs, NEW p, Step(w, j, p),
         p \in Knowing => run[w][j].phase \in Knowing
  PROVE  \A v \in Workers, i \in Jobs : TaskEffect(v, i)
<1>1. run[w][j] \in Run
  BY DEF TypeOK, WorkerTypeOK
<1>2. run' = [run EXCEPT ![w][j] = [run[w][j] EXCEPT !.phase = p]]
  BY DEF Step
<1>3. run'[w][j] = [run[w][j] EXCEPT !.phase = p]
  BY <1>2 DEF TypeOK, WorkerTypeOK
<1>4. TaskEffect(w, j)
  BY <1>1, <1>3 DEF TaskEffect, Run
<1> QED BY <1>2, <1>4, TaskOnly

LEMMA TaskEnds ==
  ASSUME TypeOK, NEW w \in Workers, NEW j \in Jobs, End(w, j)
  PROVE  \A v \in Workers, i \in Jobs : TaskEffect(v, i)
<1>1. run' = [run EXCEPT ![w][j] = NoRun]
  BY DEF End
<1>2. run'[w][j] = NoRun
  BY <1>1 DEF TypeOK, WorkerTypeOK
<1>3. TaskEffect(w, j)
  BY <1>2 DEF TaskEffect, NoRun, Knowing
<1> QED BY <1>1, <1>3, TaskOnly

\* task.cancel() never makes a task know more.
LEMMA TaskUnwinds ==
  ASSUME TypeOK, NEW w \in Workers, NEW j \in Jobs,
         run'[w][j] = run[w][j] \/ run'[w][j] = Unwound(run[w][j])
  PROVE  TaskEffect(w, j)
<1>1. run[w][j] \in Run
  BY DEF TypeOK, WorkerTypeOK
<1>2. CASE run'[w][j] = Unwound(run[w][j])
  <2>1. \/ Unwound(run[w][j]) = NoRun
        \/ Unwound(run[w][j]) = [run[w][j] EXCEPT !.phase = "lost"]
        \/ Unwound(run[w][j]) = run[w][j]
    BY DEF Unwound
  <2> QED BY <1>1, <1>2, <2>1 DEF TaskEffect, NoRun, Knowing, Run
<1> QED BY <1>2 DEF TaskEffect

LEMMA RunEffect ==
  ASSUME TypeOK, NEW w \in Workers, NEW j \in Jobs, RunStep(w, j) \/ RunError(w, j)
  PROVE  \A v \in Workers, i \in Jobs : TaskEffect(v, i)
<1> USE DEF In, Knowing
<1>1. CASE Begin(w, j)
  BY <1>1, TaskMoves DEF Begin
<1>2. CASE StartRun(w, j)
  BY <1>2, TaskMoves, TaskEnds DEF StartRun
<1>3. CASE Refresh(w, j)
  <2>1. run' = [run EXCEPT ![w][j] = [phase |-> "executing", attempt |-> job[j].attempt]]
    BY <1>3 DEF Refresh
  <2>2. run'[w][j].attempt = job[j].attempt
    BY <2>1 DEF TypeOK, WorkerTypeOK
  <2>3. TaskEffect(w, j)
    BY <1>3, <2>2 DEF TaskEffect, Refresh, tableVars
  <2> QED BY <2>1, <2>3, TaskOnly
<1>4. CASE Return(w, j)
  BY <1>4, TaskMoves, TaskEnds DEF Return
<1>5. CASE Complete(w, j)
  BY <1>5, TaskMoves, TaskEnds DEF Complete
<1>6. CASE FailJob(w, j)
  BY <1>6, TaskMoves, TaskEnds DEF FailJob
<1>7. CASE BuryJob(w, j)
  BY <1>7, TaskMoves DEF BuryJob
<1>8. CASE Report(w, j)
  BY <1>8, TaskEnds DEF Report
<1>9. CASE RunError(w, j)
  BY <1>9, TaskMoves, TaskEnds DEF RunError
<1> QED BY <1>1, <1>2, <1>3, <1>4, <1>5, <1>6, <1>7, <1>8, <1>9 DEF RunStep

\* The loops of a worker, and its end.
LEMMA LoopEffect ==
  ASSUME TypeOK, NEW w \in Workers,
         \/ Register(w) \/ Heartbeat(w) \/ Poll(w) \/ FallSilent(w)
         \/ CrashWorker(w) \/ StopWorker(w) \/ LoopError(w)
  PROVE  \A v \in Workers, i \in Jobs : TaskEffect(v, i)
<1>0. /\ run \in [Workers -> [Jobs -> Run]]
      /\ \A v \in Workers, i \in Jobs : run'[v][i] = run[v][i] => TaskEffect(v, i)
  BY DEF TypeOK, WorkerTypeOK, TaskEffect
<1>1. CASE Register(w) \/ SaveHeartbeat(w) \/ FallSilent(w) \/ LoopError(w)
  BY <1>1, TaskSame DEF Register, SaveHeartbeat, FallSilent, LoopError, workerVars
<1>2. CASE ReadHeartbeat(w)
  <2>1. \A v \in Workers, i \in Jobs :
          run'[v][i] = run[v][i] \/ run'[v][i] = Unwound(run[v][i])
    BY <1>0, <1>2 DEF ReadHeartbeat
  <2> QED BY <2>1, TaskUnwinds
<1>3. CASE PollAssigned(w)
  <2>1. \A v \in Workers, i \in Jobs :
          run'[v][i] = run[v][i] \/ run'[v][i] = [NoRun EXCEPT !.phase = "created"]
    BY <1>0, <1>3 DEF PollAssigned
  <2> QED BY <1>0, <2>1 DEF TaskEffect, NoRun, Knowing
<1>4. CASE PollOwnership(w)
  <2>1. \A v \in Workers, i \in Jobs :
          run'[v][i] = run[v][i] \/ run'[v][i] = Unwound(run[v][i])
    BY <1>0, <1>4 DEF PollOwnership
  <2> QED BY <2>1, TaskUnwinds
<1>5. CASE CrashWorker(w) \/ StopWorker(w)
  <2>1. \A v \in Workers, i \in Jobs : run'[v][i] = run[v][i] \/ run'[v][i] = NoRun
    BY <1>0, <1>5 DEF CrashWorker, StopWorker, Halt
  <2> QED BY <1>0, <2>1 DEF TaskEffect, NoRun, Knowing
<1> QED BY <1>1, <1>2, <1>3, <1>4, <1>5 DEF Heartbeat, Poll

LEMMA TaskChange ==
  ASSUME TypeOK, [Next]_vars
  PROVE  \A w \in Workers, j \in Jobs : TaskEffect(w, j)
<1>1. CASE UNCHANGED workerVars
  BY <1>1, TaskSame DEF workerVars
<1>2. CASE \E w \in Workers : \/ Register(w) \/ Heartbeat(w) \/ Poll(w) \/ FallSilent(w)
                              \/ CrashWorker(w) \/ StopWorker(w) \/ LoopError(w)
  BY <1>2, LoopEffect
<1>3. CASE \E w \in Workers, j \in Jobs : RunStep(w, j) \/ RunError(w, j)
  BY <1>3, RunEffect
<1> QED BY <1>1, <1>2, <1>3
        DEF Next, vars, ApiAction, TimeAction, LeaseAction, SchedulerAction, WorkerAction,
            SilenceAction, RunAction, FaultAction

-----------------------------------------------------------------------------
(* Fencing.                                                                *)

LEMMA FenceInit == Init => FenceInv
<1> SUFFICES ASSUME Init PROVE FenceInv
  OBVIOUS
<1>1. \A w \in Workers, j \in Jobs : run[w][j].phase = "none"
  BY DEF Init, WorkerInit, NoRun
<1> QED BY <1>1, OwnershipInit DEF FenceInv, Knowing

\* A row becomes RUNNING only together with the task that made it so.
LEMMA RunningRow ==
  ASSUME TypeOK, NEW j \in Jobs, RowStep(j), job'[j].state = "RUNNING"
  PROVE  \/ run'[job'[j].owner][j].phase = "started"
         \/ /\ job[j].state = "RUNNING"
            /\ job'[j].owner = job[j].owner /\ job'[j].attempt = job[j].attempt
<1>1. RowEffect(job[j], job'[j])
  BY RowStepEffect
<1>2. CASE job[j].state = "SCHEDULED"
  <2>1. run'[job[j].owner][j].phase = "started" \/ job'[j].state # "RUNNING"
    <3>1. \A row : Write(j, row) => job'[j] = row
      BY DEF Write, TypeOK, TableTypeOK
    <3>2. job[j] \in JobRow
      BY DEF TypeOK, TableTypeOK
    <3>3. /\ Cancelled(job[j]).state # "RUNNING"
          /\ \A a \in Nat : AfterFailure(job[j], a).state # "RUNNING"
      BY <3>2 DEF JobRow, Cancelled, AfterFailure, Requeued, Buried
    <3> QED BY <1>2, <3>1, <3>3 DEF RowStep
  <2>2. job'[j].owner = job[j].owner
    BY <1>1, <1>2 DEF RowEffect, CANCELLABLE_STATES
  <2> QED BY <2>1, <2>2
<1>3. CASE job[j].state # "SCHEDULED"
  BY <1>1, <1>3 DEF RowEffect, CANCELLABLE_STATES
<1> QED BY <1>2, <1>3

LEMMA FenceStep == FenceInv /\ [Next]_vars => FenceInv'
<1> SUFFICES ASSUME FenceInv, [Next]_vars PROVE FenceInv'
  OBVIOUS
<1>1. OwnershipInv /\ OwnershipInv' /\ TypeOK /\ MemoryOK
  BY OwnershipStep DEF FenceInv, OwnershipInv
<1> SUFFICES ASSUME NEW w \in Workers, NEW j \in Jobs,
                    run'[w][j].phase \in Knowing,
                    job'[j].state = "RUNNING", job'[j].owner = w
             PROVE  run'[w][j].attempt = job'[j].attempt
  BY <1>1 DEF FenceInv, Owns
<1>2. TaskEffect(w, j)
  BY <1>1, TaskChange
<1>3. CASE job'[j] = job[j]
  BY <1>2, <1>3 DEF TaskEffect, FenceInv, Owns
<1>4. CASE RowStep(j)
  <2>1. job[j].state = "RUNNING" /\ job[j].owner = w /\ job'[j].attempt = job[j].attempt
    BY <1>1, <1>4, RunningRow DEF Knowing
  <2> QED BY <1>2, <2>1 DEF TaskEffect, FenceInv, Owns
<1>5. job'[j] = job[j] \/ RowStep(j)
  <2>1. CASE UNCHANGED job
    BY <2>1
  <2>2. ASSUME NEW i \in Jobs, RowStep(i) PROVE job'[j] = job[j] \/ RowStep(j)
    BY <1>1, <2>2, RowStepEffect
  <2> QED BY <1>1, <2>1, <2>2, RowChange
<1> QED BY <1>3, <1>4, <1>5

LEMMA FenceAlways == Spec => []FenceInv
BY FenceInit, FenceStep, PTL DEF Spec

\* A task that the gate lets through reports for the attempt the row shows.
THEOREM FencingCorrect == Spec => []RunMatchesRow
<1>1. FenceInv => RunMatchesRow
  BY DEF FenceInv, RunMatchesRow, Knowing
<1> QED BY FenceAlways, <1>1, PTL

\* Only the worker that has the job, from the run the row shows, completes it.
THEOREM CompletionCorrect == Spec => CompletedByCurrentRun
<1>1. ASSUME FenceInv, [Next]_vars, NEW j \in Jobs,
             job[j].state # "COMPLETED", job'[j].state = "COMPLETED"
      PROVE  \E w \in up : /\ job[j].owner = w
                           /\ run[w][j] = [phase |-> "succeeded", attempt |-> job[j].attempt]
  <2>0. TypeOK /\ MemoryOK /\ up \subseteq Workers /\ job[j] \in JobRow
    BY <1>1 DEF FenceInv, OwnershipInv, TypeOK, TableTypeOK, WorkerTypeOK
  <2>1. RowStep(j)
    <3>1. ASSUME NEW i \in Jobs, RowStep(i) PROVE RowStep(j)
      BY <1>1, <2>0, <3>1, RowStepEffect
    <3> QED BY <1>1, <2>0, <3>1, RowChange
  <2>2. \A row : Write(j, row) => job'[j] = row
    BY <2>0 DEF Write, TypeOK, TableTypeOK
  <2>3. /\ FreshRow.state # "COMPLETED"
        /\ [job[j] EXCEPT !.delayed = FALSE].state # "COMPLETED"
        /\ [job[j] EXCEPT !.overdue = TRUE].state # "COMPLETED"
        /\ Cancelled(job[j]).state # "COMPLETED"
        /\ \A w \in Workers : Scheduled(job[j], w).state # "COMPLETED"
        /\ Running(job[j]).state # "COMPLETED"
        /\ TimedOut(job[j]).state # "COMPLETED"
        /\ \A a \in Nat : AfterFailure(job[j], a).state # "COMPLETED"
    BY <1>1, <2>0 DEF JobRow, FreshRow, Unsubmitted, Cancelled, Scheduled, Running, TimedOut,
                      AfterFailure, Requeued, Buried
  <2>4. /\ job[j].state = "RUNNING" /\ job[j].owner \in up
        /\ run[job[j].owner][j].phase = "succeeded"
    BY <1>1, <2>1, <2>2, <2>3 DEF RowStep
  <2>5. run[job[j].owner][j].attempt = job[j].attempt
    BY <1>1, <2>0, <2>4 DEF FenceInv, Owns, Knowing
  <2>6. run[job[j].owner][j] \in Run
    BY <2>0, <2>4 DEF TypeOK, WorkerTypeOK
  <2> QED BY <2>4, <2>5, <2>6 DEF Run
<1>2. FenceInv /\ [Next]_vars =>
        [\A j \in Jobs :
           job[j].state # "COMPLETED" /\ job'[j].state = "COMPLETED"
             => \E w \in up :
                  /\ job[j].owner = w
                  /\ run[w][j] = [phase |-> "succeeded", attempt |-> job[j].attempt]]_vars
  BY <1>1
<1> QED BY FenceAlways, <1>2, PTL DEF Spec, CompletedByCurrentRun

(***************************************************************************)
(* How often a job is started.  A run that fails is retried if the attempt *)
(* number its handler holds is below max_retries; the worker holds the     *)
(* row's own, a sweep the one it read, and the row may have been started   *)
(* again since.  Each row a sweep remembers with such a number is a grant  *)
(* of one start, which is used up when the row is handled.                 *)
(***************************************************************************)

\* Instances that would put j back into the queue.
Grants(j) == {s \in Schedulers : \E e \in loop[s].seen :
                e.job = j /\ e.attempt < MaxRetries}

\* Starts counted, and the one a row in the queue or on a worker is waiting for.
Potential(j) ==
  IF job[j].state \in {"QUEUED", "SCHEDULED"} THEN job[j].attempt + 1 ELSE job[j].attempt

\* A sweep remembers one row per job.
SeenOnce ==
  \A s \in Schedulers : \A e, f \in loop[s].seen : e.job = f.job => e = f

AttemptInv ==
  /\ FenceInv
  /\ SeenOnce
  /\ \A j \in Jobs :
       Potential(j) + Cardinality(Grants(j)) <= MaxRetries + Cardinality(Schedulers)

-----------------------------------------------------------------------------
(* What a sweep remembers.                                                 *)

\* A step of an instance forgets rows, or reads new ones as they are.
SeenEffect(s) ==
  \/ loop'[s].seen \subseteq loop[s].seen
  \/ UNCHANGED job /\ \E J \in SUBSET Jobs : loop'[s].seen = Sight(J)

LEMMA SeenForget ==
  ASSUME TypeOK, NEW s \in Schedulers, NEW st, Become(s, st), st.seen \subseteq loop[s].seen
  PROVE  \A r \in Schedulers : SeenEffect(r)
<1>1. loop'[s].seen = st.seen /\ \A r \in Schedulers \ {s} : loop'[r] = loop[r]
  BY DEF Become, TypeOK, SchedulerTypeOK
<1> QED BY <1>1 DEF SeenEffect

LEMMA SeenRead ==
  ASSUME TypeOK, NEW s \in Schedulers, NEW st, Become(s, st), UNCHANGED job,
         NEW J \in SUBSET Jobs, st.seen = Sight(J)
  PROVE  \A r \in Schedulers : SeenEffect(r)
<1>1. loop'[s].seen = st.seen /\ \A r \in Schedulers \ {s} : loop'[r] = loop[r]
  BY DEF Become, TypeOK, SchedulerTypeOK
<1> QED BY <1>1 DEF SeenEffect

LEMMA SchedulerSeen ==
  ASSUME TypeOK, NEW s \in Schedulers,
         SchedulerStep(s) \/ AbortCycle(s) \/ RestartScheduler(s)
  PROVE  \A r \in Schedulers : SeenEffect(r)
<1>typ. loop[s] \in LoopState
  BY DEF TypeOK, SchedulerTypeOK
<1>idle. Idle.seen = {} /\ \A p : [Idle EXCEPT !.pc = p].seen = {}
  BY DEF Idle
<1>after. \A e, back : After(s, e, back).seen \subseteq loop[s].seen
  BY <1>typ DEF After, LoopState
<1>fail. ASSUME NEW e, NEW pre, NEW back, HandleJobFailure(s, e, pre, back)
         PROVE  \A r \in Schedulers : SeenEffect(r)
  <2>1. [loop[s] EXCEPT !.pc = "bury", !.current = e.job, !.back = back].seen = loop[s].seen
    BY <1>typ DEF LoopState
  <2> QED BY <1>fail, <1>after, <2>1, SeenForget DEF HandleJobFailure
<1>1. CASE Elect(s)
  BY <1>1 DEF Elect, SeenEffect
<1>2. CASE BeginCycle(s) \/ MarkOffline(s)
  BY <1>typ, <1>2, SeenForget DEF BeginCycle, MarkOffline, LoopState, Idle
<1>3. CASE ReadOrphans(s)
  <2> DEFINE found == Sight(InFlightOn(loop[s].target))
             st    == [loop[s] EXCEPT !.seen = found, !.target = NoWorker,
                         !.pc = IF found = {} THEN "sweep" ELSE "orphan"]
  <2>1. Become(s, st) /\ UNCHANGED job
    BY <1>3 DEF ReadOrphans, tableVars
  <2>2. st.seen = found /\ InFlightOn(loop[s].target) \in SUBSET Jobs
    BY <1>typ DEF LoopState, InFlightOn
  <2> HIDE DEF found, st
  <2> QED BY <2>1, <2>2, SeenRead DEF found
<1>4. CASE ReadLate(s)
  <2> DEFINE found == Sight({j \in Jobs : Late(j)})
             st    == [loop[s] EXCEPT !.seen = found,
                         !.pc = IF found = {} THEN "dequeue" ELSE "late"]
  <2>1. Become(s, st) /\ UNCHANGED job
    BY <1>4 DEF ReadLate, tableVars
  <2>2. st.seen = found /\ {j \in Jobs : Late(j)} \in SUBSET Jobs
    BY <1>typ DEF LoopState
  <2> HIDE DEF found, st
  <2> QED BY <2>1, <2>2, SeenRead DEF found
<1>5. CASE FailOrphan(s) \/ ResolveTimeout(s)
  BY <1>5, <1>fail DEF FailOrphan, ResolveTimeout
<1>6. CASE RecordDeadLetter(s)
  BY <1>6, <1>idle, <1>after, SeenForget DEF RecordDeadLetter
<1>7. CASE TimeOut(s)
  <2>1. \A j : [loop[s] EXCEPT !.pc = "resolve", !.current = j].seen = loop[s].seen
    BY <1>typ DEF LoopState
  <2> QED BY <1>7, <2>1, <1>after, SeenForget DEF TimeOut
<1>8. CASE \/ Dequeue(s) \/ Admit(s) \/ CheckQuota(s) \/ PickWorker(s) \/ Assign(s)
           \/ AbortCycle(s) \/ RestartScheduler(s)
  <2>1. /\ \A p : [loop[s] EXCEPT !.pc = p].seen = loop[s].seen
        /\ \A p, j : [loop[s] EXCEPT !.pc = p, !.current = j].seen = loop[s].seen
        /\ \A p, w : [loop[s] EXCEPT !.pc = p, !.target = w].seen = loop[s].seen
    BY <1>typ DEF LoopState
  <2> QED BY <1>8, <1>idle, <2>1, SeenForget
          DEF Dequeue, Admit, CheckQuota, PickWorker, Assign, AbortCycle, RestartScheduler, Goto
<1> QED BY <1>1, <1>2, <1>3, <1>4, <1>5, <1>6, <1>7, <1>8 DEF SchedulerStep, Sweep, Dispatch

LEMMA SeenChange ==
  ASSUME TypeOK, [Next]_vars
  PROVE  \A s \in Schedulers : SeenEffect(s)
<1>1. CASE UNCHANGED loop
  BY <1>1 DEF SeenEffect
<1>2. CASE \E s \in Schedulers : SchedulerStep(s) \/ AbortCycle(s) \/ RestartScheduler(s)
  BY <1>2, SchedulerSeen
<1>3. \/ UNCHANGED loop
      \/ \E s \in Schedulers : SchedulerStep(s) \/ AbortCycle(s) \/ RestartScheduler(s)
  BY DEF Next, vars, schedulerVars, ApiAction, TimeAction, LeaseAction, SchedulerAction,
         WorkerAction, SilenceAction, RunAction, FaultAction
<1> QED BY <1>1, <1>2, <1>3

LEMMA SeenOnceStep ==
  ASSUME TypeOK, SeenOnce, [Next]_vars
  PROVE  SeenOnce'
<1> SUFFICES ASSUME NEW s \in Schedulers, NEW e \in loop'[s].seen, NEW f \in loop'[s].seen,
                    e.job = f.job
             PROVE  e = f
  BY DEF SeenOnce
<1>1. SeenEffect(s)
  BY SeenChange
<1>2. ASSUME NEW J \in SUBSET Jobs, loop'[s].seen = Sight(J) PROVE e = f
  BY <1>2 DEF Sight
<1> QED BY <1>1, <1>2 DEF SeenEffect, SeenOnce

-----------------------------------------------------------------------------
(* What puts a job back into the queue.                                    *)

LEMMA FailureCause ==
  ASSUME TypeOK, SeenOnce, NEW s \in Schedulers, NEW e \in loop[s].seen, NEW pre, NEW back,
         HandleJobFailure(s, e, pre, back),
         NEW j \in Jobs, job[j].state # "QUEUED", job'[j].state = "QUEUED"
  PROVE  s \in Grants(j) /\ s \notin Grants(j)'
<1>typ. loop[s] \in LoopState /\ job[j] \in JobRow
  BY DEF TypeOK, SchedulerTypeOK, TableTypeOK
<1>1. /\ Write(e.job, AfterFailure(job[e.job], e.attempt))
      /\ e.attempt < MaxRetries => Become(s, After(s, e, back))
  BY DEF HandleJobFailure
<1>2. e.job = j
  BY <1>1 DEF Write, TypeOK, TableTypeOK
<1>3. job'[j] = AfterFailure(job[j], e.attempt)
  BY <1>1, <1>2 DEF Write, TypeOK, TableTypeOK
<1>4. e.attempt < MaxRetries
  BY <1>typ, <1>3 DEF AfterFailure, Buried, JobRow
<1>5. loop'[s].seen = loop[s].seen \ {e}
  BY <1>typ, <1>1, <1>4 DEF Become, After, LoopState, TypeOK, SchedulerTypeOK
<1>6. s \in Grants(j)
  BY <1>2, <1>4 DEF Grants
<1>7. s \notin Grants(j)'
  BY <1>2, <1>5 DEF Grants, SeenOnce
<1> QED BY <1>6, <1>7

LEMMA RequeueCause ==
  ASSUME FenceInv, SeenOnce, [Next]_vars, NEW j \in Jobs,
         job[j].state \in {"SCHEDULED", "RUNNING", "TIMED_OUT"}, job'[j].state = "QUEUED"
  PROVE  \/ job[j].attempt < MaxRetries
         \/ \E s \in Schedulers : s \in Grants(j) /\ s \notin Grants(j)'
<1>typ. TypeOK /\ job \in [Jobs -> JobRow] /\ job[j] \in JobRow
  BY DEF FenceInv, OwnershipInv, TypeOK, TableTypeOK
<1>row. \A i, row : Write(i, row) => job'[j] = IF i = j THEN row ELSE job[j]
  BY <1>typ DEF Write
<1>new. /\ Cancelled(job[j]).state = "CANCELLED" /\ TimedOut(job[j]).state = "TIMED_OUT"
        /\ Running(job[j]).state = "RUNNING" /\ Completed(job[j]).state = "COMPLETED"
        /\ \A w : Scheduled(job[j], w).state = "SCHEDULED"
  BY <1>typ DEF JobRow, Cancelled, TimedOut, Running, Completed, Scheduled
<1>1. CASE ApiAction
  <2>1. ASSUME NEW i \in Jobs, Submit(i) \/ RetryClaim(i) PROVE FALSE
    BY <2>1, <1>row DEF Submit, RetryClaim, RETRYABLE_STATES
  <2>2. ASSUME NEW i \in Jobs, Cancel(i) PROVE FALSE
    BY <2>2, <1>row, <1>new DEF Cancel
  <2>3. ASSUME NEW i \in Jobs, RetryCleanup(i) PROVE FALSE
    BY <2>3 DEF RetryCleanup
  <2> QED BY <1>1, <2>1, <2>2, <2>3 DEF ApiAction, Request
<1>2. CASE TimeAction
  BY <1>2, <1>typ, <1>row DEF TimeAction, TimeNext, BackoffElapses, DeadlinePasses, JobRow
<1>3. CASE LeaseAction
  BY <1>3 DEF LeaseAction, tableVars
<1>4. ASSUME NEW s \in Schedulers, SchedulerStep(s)
      PROVE  \E r \in Schedulers : r \in Grants(j) /\ r \notin Grants(j)'
  <2>1. CASE FailOrphan(s) \/ ResolveTimeout(s)
    BY <2>1, <1>typ, FailureCause DEF FailOrphan, ResolveTimeout
  <2>2. CASE TimeOut(s)
    BY <2>2, <1>row, <1>new DEF TimeOut
  <2>3. CASE Assign(s)
    BY <2>3, <1>row, <1>new DEF Assign
  <2>4. CASE \/ Elect(s) \/ BeginCycle(s) \/ MarkOffline(s) \/ ReadOrphans(s)
             \/ RecordDeadLetter(s) \/ ReadLate(s) \/ Dequeue(s) \/ Admit(s)
             \/ CheckQuota(s) \/ PickWorker(s)
    BY <2>4 DEF Elect, BeginCycle, MarkOffline, ReadOrphans, RecordDeadLetter, ReadLate,
                Dequeue, Admit, CheckQuota, PickWorker, tableVars
  <2> QED BY <1>4, <2>1, <2>2, <2>3, <2>4 DEF SchedulerStep, Sweep, Dispatch
<1>5. ASSUME NEW w \in Workers, WorkerAction(w) \/ SilenceAction(w) PROVE UNCHANGED job
  BY <1>5 DEF WorkerAction, SilenceAction, Register, Heartbeat, ReadHeartbeat, SaveHeartbeat,
              Poll, PollAssigned, PollOwnership, FallSilent, tableVars
<1>6. ASSUME NEW w \in Workers, NEW i \in Jobs, RunStep(w, i)
      PROVE  job[j].attempt < MaxRetries
  <2>1. CASE StartRun(w, i)
    BY <2>1, <1>row, <1>new DEF StartRun
  <2>2. CASE Complete(w, i)
    BY <2>2, <1>row, <1>new DEF Complete
  <2>3. CASE FailJob(w, i)
    <3>1. /\ Owns(w, i, {"RUNNING"})
          /\ Write(i, AfterFailure(job[i], run[w][i].attempt))
      BY <2>3 DEF FailJob
    <3>2. i = j /\ job'[j] = AfterFailure(job[j], run[w][j].attempt)
      BY <1>row, <3>1
    <3>3. run[w][j].attempt < MaxRetries
      BY <1>typ, <3>2 DEF AfterFailure, Buried, JobRow
    <3>4. run[w][j].attempt = job[j].attempt
      BY <2>3, <3>1, <3>2 DEF FenceInv, Knowing, FailJob, In
    <3> QED BY <3>3, <3>4
  <2>4. CASE Begin(w, i) \/ Refresh(w, i) \/ Return(w, i) \/ BuryJob(w, i) \/ Report(w, i)
    BY <2>4 DEF Begin, Refresh, Return, BuryJob, Report, tableVars
  <2> QED BY <1>6, <2>1, <2>2, <2>3, <2>4 DEF RunStep
<1>7. CASE FaultAction
  BY <1>7 DEF FaultAction, CrashWorker, StopWorker, LoopError, AbortCycle, RunError,
              RestartScheduler, RetryLost, tableVars
<1>8. CASE UNCHANGED vars
  BY <1>8 DEF vars, tableVars
<1> QED BY <1>1, <1>2, <1>3, <1>4, <1>5, <1>6, <1>7, <1>8 DEF Next, SchedulerAction, RunAction

-----------------------------------------------------------------------------
(* The bound.                                                              *)

LEMMA GrantsFinite ==
  ASSUME NEW j
  PROVE  /\ IsFiniteSet(Grants(j))
         /\ Cardinality(Grants(j)) \in Nat
         /\ Cardinality(Grants(j)) <= Cardinality(Schedulers)
BY SchedulersAssumption, FS_Subset, FS_CardinalityType DEF Grants

LEMMA GrantsFiniteNext ==
  ASSUME NEW j
  PROVE  /\ IsFiniteSet(Grants(j)')
         /\ Cardinality(Grants(j)') \in Nat
         /\ Cardinality(Grants(j)') <= Cardinality(Schedulers)
BY SchedulersAssumption, FS_Subset, FS_CardinalityType DEF Grants

LEMMA InstancesCount == Cardinality(Schedulers) \in Nat \ {0}
BY SchedulersAssumption, FS_CardinalityType, FS_EmptySet

\* A new grant is one for a row that may be started once more anyway.
LEMMA GrantChange ==
  ASSUME TypeOK, [Next]_vars, NEW j \in Jobs
  PROVE  \/ Grants(j)' \subseteq Grants(j)
         \/ UNCHANGED job /\ job[j].attempt < MaxRetries
<1> SUFFICES ASSUME NEW s \in Grants(j)', s \notin Grants(j)
             PROVE  UNCHANGED job /\ job[j].attempt < MaxRetries
  OBVIOUS
<1>1. s \in Schedulers /\ SeenEffect(s)
  BY SeenChange DEF Grants
<1>2. PICK e \in loop'[s].seen : e.job = j /\ e.attempt < MaxRetries
  BY DEF Grants
<1>3. e \notin loop[s].seen
  BY <1>1, <1>2 DEF Grants
<1> QED BY <1>1, <1>2, <1>3 DEF SeenEffect, Sight

LEMMA AttemptInit == Init => AttemptInv
<1> SUFFICES ASSUME Init PROVE AttemptInv
  OBVIOUS
<1>1. \A s \in Schedulers : loop[s].seen = {}
  BY DEF Init, SchedulerInit, Idle
<1>2. \A j \in Jobs : Potential(j) = 0 /\ Grants(j) = {}
  BY <1>1 DEF Init, TableInit, Unsubmitted, Potential, Grants
<1> QED BY <1>1, <1>2, FenceInit, InstancesCount, FS_EmptySet, MaxRetriesAssumption
        DEF AttemptInv, SeenOnce

LEMMA AttemptStep == AttemptInv /\ [Next]_vars => AttemptInv'
<1> SUFFICES ASSUME AttemptInv, [Next]_vars PROVE AttemptInv'
  OBVIOUS
<1>1. FenceInv /\ FenceInv' /\ SeenOnce /\ TypeOK /\ TypeOK' /\ MemoryOK
  BY FenceStep DEF AttemptInv, FenceInv, OwnershipInv
<1>2. SeenOnce'
  BY <1>1, SeenOnceStep
<1>3. ASSUME NEW j \in Jobs
      PROVE  Potential(j)' + Cardinality(Grants(j)') <= MaxRetries + Cardinality(Schedulers)
  <2> DEFINE N == Cardinality(Schedulers)
             G == Cardinality(Grants(j))
             H == Cardinality(Grants(j)')
  <2>num. /\ MaxRetries \in Nat /\ N \in Nat \ {0} /\ G \in Nat /\ H \in Nat /\ H <= N
          /\ job[j].attempt \in Nat /\ job'[j].attempt \in Nat
    BY <1>1, MaxRetriesAssumption, InstancesCount, GrantsFinite, GrantsFiniteNext
       DEF TypeOK, TableTypeOK, JobRow
  <2>old. Potential(j) + G <= MaxRetries + N
    BY DEF AttemptInv
  <2>pot. /\ Potential(j) = IF job[j].state \in {"QUEUED", "SCHEDULED"}
                             THEN job[j].attempt + 1 ELSE job[j].attempt
          /\ Potential(j)' = IF job'[j].state \in {"QUEUED", "SCHEDULED"}
                              THEN job'[j].attempt + 1 ELSE job'[j].attempt
    BY DEF Potential
  <2>les. Grants(j)' \subseteq Grants(j) => H <= G
    BY GrantsFinite, FS_Subset
  <2> HIDE DEF N, G, H
  <2>1. CASE UNCHANGED job /\ job[j].attempt < MaxRetries
    BY <2>1, <2>num, <2>pot DEF N, H
  <2>2. CASE Grants(j)' \subseteq Grants(j)
    <3>1. job'[j] = job[j] \/ RowEffect(job[j], job'[j])
      <4>1. ASSUME NEW i \in Jobs, RowStep(i)
            PROVE  job'[j] = job[j] \/ RowEffect(job[j], job'[j])
        BY <1>1, <4>1, RowStepEffect
      <4> QED BY <1>1, <4>1, RowChange
    <3>2. CASE Potential(j)' <= Potential(j)
      BY <2>2, <2>num, <2>old, <2>pot, <2>les, <3>2 DEF N, H
    <3>3. CASE job'[j].attempt = 0 /\ job'[j].state = "QUEUED"
      <4>1. CASE MaxRetries = 0
        <5>1. \A s \in Schedulers : \A e \in loop'[s].seen : e.attempt \in Nat
          BY <1>1 DEF TypeOK, SchedulerTypeOK, LoopState, Sighting
        <5>2. Grants(j)' = {}
          BY <4>1, <5>1 DEF Grants
        <5>3. H = 0
          BY <5>2, FS_EmptySet DEF H
        <5> QED BY <2>num, <2>pot, <3>3, <5>3 DEF H, N
      <4>2. CASE MaxRetries # 0
        BY <2>num, <2>pot, <3>3, <4>2 DEF H, N
      <4> QED BY <4>1, <4>2
    <3>4. CASE /\ job[j].state \in {"SCHEDULED", "RUNNING", "TIMED_OUT"}
               /\ job'[j].state = "QUEUED" /\ job'[j].attempt = job[j].attempt
      <4>1. CASE job[j].attempt < MaxRetries
        BY <2>num, <2>pot, <3>4, <4>1 DEF H, N
      <4>2. CASE \E s \in Schedulers : s \in Grants(j) /\ s \notin Grants(j)'
        <5> PICK s : s \in Grants(j) /\ s \notin Grants(j)'
          BY <4>2
        <5>1. /\ IsFiniteSet(Grants(j) \ {s})
              /\ Cardinality(Grants(j) \ {s}) = G - 1
          BY GrantsFinite, FS_RemoveElement DEF G
        <5>2. H <= G - 1
          BY <2>2, <5>1, FS_Subset DEF H
        <5> QED BY <2>num, <2>old, <2>pot, <3>4, <5>2 DEF H, N
      <4> QED BY <1>1, <3>4, <4>1, <4>2, RequeueCause
    <3> QED BY <2>num, <2>pot, <3>1, <3>2, <3>3, <3>4 DEF RowEffect, CANCELLABLE_STATES
  <2> QED BY <1>1, <2>1, <2>2, GrantChange
<1> QED BY <1>1, <1>2, <1>3 DEF AttemptInv

LEMMA AttemptAlways == Spec => []AttemptInv
BY AttemptInit, AttemptStep, PTL DEF Spec

\* However many instances believe they lead, and whatever their sweeps have
\* read, a job is started at most max_retries times and once per instance.
THEOREM AttemptsCorrect == Spec => []AttemptsBounded
<1>1. AttemptInv => AttemptsBounded
  <2> SUFFICES ASSUME AttemptInv, NEW j \in Jobs
               PROVE  job[j].attempt <= MaxRetries + Cardinality(Schedulers)
    BY DEF AttemptsBounded
  <2>1. job[j].attempt \in Nat /\ MaxRetries \in Nat
    BY MaxRetriesAssumption
       DEF AttemptInv, FenceInv, OwnershipInv, TypeOK, TableTypeOK, JobRow
  <2> QED BY <2>1, GrantsFinite, InstancesCount DEF AttemptInv, Potential
<1> QED BY AttemptAlways, <1>1, PTL

(***************************************************************************)
(* Timeouts.  Between the query for late runs and the last write about one *)
(* of them the sweep awaits the database many times.  As long as nobody    *)
(* else leads, no job is assigned meanwhile, so a job it has read may end, *)
(* be cancelled or be queued again, but not be running anew.               *)
(***************************************************************************)

\* The sweep for late runs has rows to handle.
Timing(s) ==
  \/ loop[s].pc \in {"late", "resolve"}
  \/ loop[s].pc = "bury" /\ loop[s].back = "late"

StillLate(j) ==
  job[j].state # "SCHEDULED" /\ (job[j].state = "RUNNING" => job[j].overdue)

TimeoutInv ==
  /\ TypeOK /\ MemoryOK /\ CyclesLead
  /\ \A s \in Schedulers : Timing(s) => \A e \in loop[s].seen : StillLate(e.job)

\* What a step does to the rows an instance has found late.
TimingEffect(s) ==
  \/ ~Timing(s)'
  \/ Timing(s) /\ loop'[s].seen \subseteq loop[s].seen
  \/ UNCHANGED job /\ \A e \in loop'[s].seen : Late(e.job)

LEMMA TimingOnly ==
  ASSUME TypeOK, NEW s \in Schedulers, NEW st, Become(s, st),
         \/ st.pc \notin {"late", "resolve", "bury"}
         \/ st.pc = "bury" /\ st.back = "orphan"
         \/ Timing(s) /\ st.seen \subseteq loop[s].seen
         \/ UNCHANGED job /\ \A e \in st.seen : Late(e.job)
  PROVE  \A r \in Schedulers : TimingEffect(r)
<1>1. loop'[s] = st /\ \A r \in Schedulers \ {s} : loop'[r] = loop[r]
  BY DEF Become, TypeOK, SchedulerTypeOK
<1>2. TimingEffect(s)
  BY <1>1 DEF TimingEffect, Timing
<1>3. \A r \in Schedulers \ {s} : TimingEffect(r)
  BY <1>1 DEF TimingEffect, Timing
<1> QED BY <1>2, <1>3

LEMMA SchedulerTiming ==
  ASSUME TypeOK, NEW s \in Schedulers,
         SchedulerStep(s) \/ AbortCycle(s) \/ RestartScheduler(s)
  PROVE  \A r \in Schedulers : TimingEffect(r)
<1>typ. loop[s] \in LoopState
  BY DEF TypeOK, SchedulerTypeOK
<1>idle. Idle.pc = "top" /\ [Idle EXCEPT !.pc = "dequeue"].pc = "dequeue"
  BY DEF Idle
<1>after. \A e : /\ After(s, e, "orphan").pc \in {"orphan", "sweep"}
                 /\ \A back : After(s, e, back).seen \subseteq loop[s].seen
  BY <1>typ DEF After, LoopState
<1>bury. \A e, back :
           LET st == [loop[s] EXCEPT !.pc = "bury", !.current = e.job, !.back = back]
           IN st.pc = "bury" /\ st.back = back /\ st.seen = loop[s].seen
  BY <1>typ DEF LoopState
<1>1. CASE Elect(s)
  BY <1>1 DEF Elect, TimingEffect, Timing
<1>2. CASE BeginCycle(s) \/ MarkOffline(s) \/ ReadOrphans(s)
  BY <1>typ, <1>2, TimingOnly DEF BeginCycle, MarkOffline, ReadOrphans, LoopState, Idle
<1>3. CASE FailOrphan(s)
  <2>1. PICK e \in loop[s].seen : HandleJobFailure(s, e, InFlight, "orphan")
    BY <1>3 DEF FailOrphan
  <2>2. \/ Become(s, After(s, e, "orphan"))
        \/ Become(s, [loop[s] EXCEPT !.pc = "bury", !.current = e.job, !.back = "orphan"])
    BY <2>1 DEF HandleJobFailure
  <2> QED BY <1>after, <1>bury, <2>2, TimingOnly
<1>4. CASE RecordDeadLetter(s)
  <2>1. PICK e : Become(s, Idle) \/ Become(s, After(s, e, loop[s].back))
    BY <1>4 DEF RecordDeadLetter
  <2>2. CASE loop[s].back = "late"
    <3>1. Timing(s)
      BY <1>4, <2>2 DEF RecordDeadLetter, At, Timing
    <3> QED BY <1>idle, <1>after, <2>1, <3>1, TimingOnly
  <2>3. CASE loop[s].back = "orphan"
    BY <1>idle, <1>after, <2>1, <2>3, TimingOnly
  <2> QED BY <1>typ, <2>2, <2>3 DEF LoopState
<1>5. CASE ReadLate(s)
  <2> DEFINE found == Sight({j \in Jobs : Late(j)})
             st    == [loop[s] EXCEPT !.seen = found,
                         !.pc = IF found = {} THEN "dequeue" ELSE "late"]
  <2>1. Become(s, st) /\ UNCHANGED job
    BY <1>5 DEF ReadLate, tableVars
  <2>2. st.seen = found
    BY <1>typ DEF LoopState
  <2>3. \A e \in found : Late(e.job)
    BY DEF Sight
  <2> HIDE DEF found, st
  <2> QED BY <2>1, <2>2, <2>3, TimingOnly
<1>6. CASE TimeOut(s)
  <2>1. Timing(s)
    BY <1>6 DEF TimeOut, At, Timing
  <2>2. \A j : [loop[s] EXCEPT !.pc = "resolve", !.current = j].seen = loop[s].seen
    BY <1>typ DEF LoopState
  <2> QED BY <1>6, <1>after, <2>1, <2>2, TimingOnly DEF TimeOut
<1>7. CASE ResolveTimeout(s)
  <2>1. Timing(s)
    BY <1>7 DEF ResolveTimeout, At, Timing
  <2>2. PICK e \in loop[s].seen : HandleJobFailure(s, e, {"TIMED_OUT"}, "late")
    BY <1>7 DEF ResolveTimeout
  <2>3. \/ Become(s, After(s, e, "late"))
        \/ Become(s, [loop[s] EXCEPT !.pc = "bury", !.current = e.job, !.back = "late"])
    BY <2>2 DEF HandleJobFailure
  <2>4. CASE Become(s, After(s, e, "late"))
    BY <1>after, <2>1, <2>4, TimingOnly
  <2>5. CASE Become(s, [loop[s] EXCEPT !.pc = "bury", !.current = e.job, !.back = "late"])
    <3>1. [loop[s] EXCEPT !.pc = "bury", !.current = e.job, !.back = "late"].seen = loop[s].seen
      BY <1>bury
    <3> QED BY <2>1, <2>5, <3>1, TimingOnly
  <2> QED BY <2>3, <2>4, <2>5
<1>8. CASE Dequeue(s) \/ Admit(s) \/ CheckQuota(s)
  BY <1>typ, <1>8, <1>idle, TimingOnly DEF Dequeue, Admit, CheckQuota, Goto, LoopState
<1>9. CASE PickWorker(s) \/ Assign(s) \/ AbortCycle(s) \/ RestartScheduler(s)
  BY <1>typ, <1>9, <1>idle, TimingOnly
     DEF PickWorker, Assign, AbortCycle, RestartScheduler, LoopState
<1> QED BY <1>1, <1>2, <1>3, <1>4, <1>5, <1>6, <1>7, <1>8, <1>9
        DEF SchedulerStep, Sweep, Dispatch

LEMMA TimingChange ==
  ASSUME TypeOK, [Next]_vars
  PROVE  \A s \in Schedulers : TimingEffect(s)
<1>1. CASE UNCHANGED loop
  BY <1>1 DEF TimingEffect, Timing
<1>2. \/ UNCHANGED loop
      \/ \E s \in Schedulers : SchedulerStep(s) \/ AbortCycle(s) \/ RestartScheduler(s)
  BY DEF Next, vars, schedulerVars, ApiAction, TimeAction, LeaseAction, SchedulerAction,
         WorkerAction, SilenceAction, RunAction, FaultAction
<1> QED BY <1>1, <1>2, SchedulerTiming

\* Unless it is assigned, a job that was late does not run in time again.
LEMMA LateStays ==
  ASSUME TypeOK, NEW j \in Jobs, StillLate(j), NEW i \in Jobs, RowStep(i),
         \A s \in Schedulers : ~At(s, "assign")
  PROVE  StillLate(j)'
<1>1. CASE i # j
  BY <1>1, RowStepEffect DEF StillLate
<1>2. CASE i = j
  <2>1. job[j] \in JobRow /\ \A row : Write(j, row) => job'[j] = row
    BY DEF Write, TypeOK, TableTypeOK
  <2>2. CASE job[j].state = "RUNNING" /\ job'[j] = [job[j] EXCEPT !.overdue = TRUE]
    BY <2>1, <2>2 DEF StillLate, JobRow
  <2>3. CASE job[j].state = "QUEUED" /\ job'[j] = [job[j] EXCEPT !.delayed = FALSE]
    BY <2>1, <2>3 DEF StillLate, JobRow
  <2>4. CASE \/ job'[j] = FreshRow \/ job'[j] = Cancelled(job[j])
             \/ job'[j] = Completed(job[j]) \/ job'[j] = TimedOut(job[j])
    BY <2>1, <2>4 DEF StillLate, JobRow, FreshRow, Unsubmitted, Cancelled, Completed, TimedOut
  <2>5. CASE \E a \in Nat : job'[j] = AfterFailure(job[j], a)
    BY <2>1, <2>5 DEF StillLate, JobRow, AfterFailure, Requeued, Buried
  <2>6. job[j].state # "SCHEDULED"
    BY DEF StillLate
  <2>7. \A s \in Schedulers : ~Assign(s)
    BY DEF Assign
  <2>8. RowStep(j)
    BY <1>2
  <2>9. \/ job'[j] = FreshRow
        \/ job[j].state = "QUEUED" /\ job'[j] = [job[j] EXCEPT !.delayed = FALSE]
        \/ job[j].state = "RUNNING" /\ job'[j] = [job[j] EXCEPT !.overdue = TRUE]
        \/ job'[j] = Cancelled(job[j]) \/ job'[j] = Completed(job[j])
        \/ job'[j] = TimedOut(job[j])
        \/ \E a \in Nat : job'[j] = AfterFailure(job[j], a)
    <3> HIDE DEF Write
    <3> QED BY <2>1, <2>6, <2>7, <2>8 DEF RowStep
  <2> QED BY <2>2, <2>3, <2>4, <2>5, <2>9
<1> QED BY <1>1, <1>2

LEMMA TimeoutInit == Init => TimeoutInv
<1> SUFFICES ASSUME Init PROVE TimeoutInv
  OBVIOUS
<1>1. \A s \in Schedulers : loop[s].pc = "top"
  BY DEF Init, SchedulerInit, Idle
<1> QED BY <1>1, TypeInit, MemoryInit, CyclesLeadInit DEF TimeoutInv, Timing

LEMMA TimeoutStep == TimeoutInv /\ SoleLeader /\ [Next]_vars => TimeoutInv'
<1> SUFFICES ASSUME TimeoutInv, SoleLeader, [Next]_vars PROVE TimeoutInv'
  OBVIOUS
<1>1. TypeOK /\ MemoryOK /\ CyclesLead /\ (TypeOK /\ MemoryOK /\ CyclesLead)'
  BY TypeStep, MemoryStep, CyclesLeadStep DEF TimeoutInv
<1>2. ASSUME NEW s \in Schedulers, Timing(s)', NEW e \in loop'[s].seen
      PROVE  StillLate(e.job)'
  <2>1. CASE UNCHANGED job /\ Late(e.job)
    BY <2>1 DEF StillLate, Late
  <2>2. CASE Timing(s) /\ e \in loop[s].seen
    <3>1. StillLate(e.job) /\ e.job \in Jobs
      BY <1>1, <2>2 DEF TimeoutInv, TypeOK, SchedulerTypeOK, LoopState, Sighting
    <3>2. \A t \in Schedulers : ~At(t, "assign")
      BY <1>1, <2>2 DEF Timing, CyclesLead, SoleLeader, At
    <3>3. CASE UNCHANGED job
      BY <3>1, <3>3 DEF StillLate
    <3> QED BY <1>1, <3>1, <3>2, <3>3, LateStays, RowChange
  <2> QED BY <1>1, <1>2, <2>1, <2>2, TimingChange DEF TimingEffect
<1> QED BY <1>1, <1>2 DEF TimeoutInv

\* Whoever writes TIMED_OUT is handling a row it has found late.
LEMMA TimeoutCause ==
  ASSUME TimeoutInv, [Next]_vars, NEW j \in Jobs,
         job[j].state # "TIMED_OUT", job'[j].state = "TIMED_OUT"
  PROVE  job[j].state = "RUNNING" /\ job[j].overdue
<1>1. TypeOK /\ MemoryOK
  BY DEF TimeoutInv
<1>2. PICK i \in Jobs : RowStep(i)
  BY <1>1, RowChange
<1>3. i = j
  BY <1>1, <1>2, RowStepEffect
<1>4. job[j] \in JobRow /\ \A row : Write(j, row) => job'[j] = row
  BY <1>1 DEF Write, TypeOK, TableTypeOK
<1>5. /\ FreshRow.state # "TIMED_OUT" /\ Cancelled(job[j]).state # "TIMED_OUT"
      /\ [job[j] EXCEPT !.delayed = FALSE].state = job[j].state
      /\ [job[j] EXCEPT !.overdue = TRUE].state = job[j].state
      /\ \A w : Scheduled(job[j], w).state # "TIMED_OUT"
      /\ Running(job[j]).state # "TIMED_OUT" /\ Completed(job[j]).state # "TIMED_OUT"
      /\ \A a \in Nat : AfterFailure(job[j], a).state # "TIMED_OUT"
  BY <1>4 DEF JobRow, FreshRow, Unsubmitted, Cancelled, Scheduled, Running, Completed,
              AfterFailure, Requeued, Buried
<1>6. /\ job[j].state = "RUNNING"
      /\ \E s \in Schedulers : At(s, "late") /\ \E e \in loop[s].seen : e.job = j
  BY <1>2, <1>3, <1>4, <1>5 DEF RowStep
<1> QED BY <1>6 DEF TimeoutInv, Timing, StillLate, At

\* As long as no two instances lead at once -- however many there are, and whichever
\* of them restarts or takes over -- a run is timed out only if it is over its deadline
\* (scheduler.py 237-280).
THEOREM TimeoutCorrect == Spec /\ []SoleLeader => TimedOutOnlyIfLate
<1> DEFINE Cause == \A j \in Jobs :
             job[j].state # "TIMED_OUT" /\ job'[j].state = "TIMED_OUT"
               => job[j].state = "RUNNING" /\ job[j].overdue
<1>1. TimeoutInv /\ [Next]_vars => [Cause]_vars
  BY TimeoutCause
<1> QED BY TimeoutInit, TimeoutStep, <1>1, PTL DEF Spec, TimedOutOnlyIfLate

\* A single instance is its own only leader.
COROLLARY TimeoutAlone ==
  ASSUME \A s, t \in Schedulers : s = t
  PROVE  Spec => TimedOutOnlyIfLate
<1>1. TypeOK => SoleLeader
  BY DEF TypeOK, SchedulerTypeOK, LeaseTypeOK, SoleLeader
<1> QED BY <1>1, TypeCorrect, TimeoutCorrect, PTL
=============================================================================
