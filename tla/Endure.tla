------------------------------- MODULE Endure -------------------------------
(***************************************************************************)
(* The whole system: HTTP handlers, scheduler instances and workers over   *)
(* the shared tables.  Faults names what the environment does to it:       *)
(*                                                                         *)
(*   "worker_crash"    a worker process dies                               *)
(*   "stall"           a live worker misses its heartbeats                 *)
(*   "shutdown"        a worker process is stopped by its operator         *)
(*   "db_error"        a database call raises, in a scheduler or a worker  *)
(*   "restart"         a scheduler dies and comes back, an API request is  *)
(*                     cut off between its statements                      *)
(***************************************************************************)
EXTENDS JobApi, Scheduler, WorkerNode

CONSTANT Faults

ASSUME FaultsAssumption == Faults \subseteq
  {"worker_crash", "shutdown", "stall", "db_error", "restart"}

vars == <<tableVars, apiVars, schedulerVars, workerVars>>

Init == TableInit /\ ApiInit /\ SchedulerInit /\ WorkerInit

ApiAction       == Request /\ UNCHANGED <<schedulerVars, workerVars>>
TimeAction      == TimeNext /\ UNCHANGED <<apiVars, schedulerVars, workerVars>>
LeaseAction     == LeaseExpires /\ UNCHANGED <<tableVars, apiVars, loop, workerVars>>
SchedulerAction(s) == SchedulerStep(s) /\ UNCHANGED <<apiVars, workerVars>>
RunAction(w, j)    == RunStep(w, j) /\ UNCHANGED <<apiVars, schedulerVars>>
WorkerAction(w)    == (Register(w) \/ Heartbeat(w) \/ Poll(w))
                      /\ UNCHANGED <<apiVars, schedulerVars>>

SilenceAction(w) ==
  /\ w \in up => "stall" \in Faults
  /\ FallSilent(w)
  /\ UNCHANGED <<apiVars, schedulerVars>>

FaultAction ==
  \/ /\ \E w \in Workers : \/ "worker_crash" \in Faults /\ CrashWorker(w)
                           \/ "shutdown" \in Faults /\ StopWorker(w)
                           \/ "db_error" \in Faults /\ LoopError(w)
     /\ UNCHANGED <<apiVars, schedulerVars>>
  \/ /\ "db_error" \in Faults
     /\ \E s \in Schedulers : AbortCycle(s)
     /\ UNCHANGED <<apiVars, workerVars>>
  \/ /\ "db_error" \in Faults
     /\ \E w \in Workers, j \in Jobs : RunError(w, j)
     /\ UNCHANGED <<apiVars, schedulerVars, up, polled, beat>>
  \/ /\ "restart" \in Faults
     /\ \E s \in Schedulers : RestartScheduler(s)
     /\ UNCHANGED <<apiVars, workerVars>>
  \/ /\ "restart" \in Faults
     /\ \E j \in Jobs : RetryLost(j)
     /\ UNCHANGED <<schedulerVars, workerVars>>

Next ==
  \/ ApiAction
  \/ TimeAction
  \/ LeaseAction
  \/ \E s \in Schedulers : SchedulerAction(s)
  \/ \E w \in Workers : WorkerAction(w) \/ SilenceAction(w)
  \/ \E w \in Workers, j \in Jobs : RunAction(w, j)
  \/ FaultAction

Spec == Init /\ [][Next]_vars

TypeOK == TableTypeOK /\ ApiTypeOK /\ SchedulerTypeOK /\ WorkerTypeOK

-----------------------------------------------------------------------------
(* Safety *)

\* A row names a worker exactly while a worker has, or had, the run it shows:
\* a re-queued or buried row is free for any worker, any other submitted row
\* but a cancelled one belongs to one.  Every ownership-gated write relies on it.
OwnerMatchesState ==
  \A j \in Jobs :
    /\ job[j].state \in {"ABSENT", "QUEUED", "DEAD_LETTER"} => job[j].owner = NoWorker
    /\ job[j].state \in {"SCHEDULED", "RUNNING", "COMPLETED", "TIMED_OUT"}
         => job[j].owner \in Workers

\* A task that the gate (RUNNING, mine) lets through reports for the attempt
\* the row shows.  The gate does not test the attempt number: this rests on a
\* worker never having two tasks for one job.
RunMatchesRow ==
  \A w \in Workers, j \in Jobs :
    run[w][j].phase \in {"executing", "succeeded", "failed"} /\ Owns(w, j, {"RUNNING"})
      => run[w][j].attempt = job[j].attempt

\* The two checks of the dispatcher, worker load and tenant quota, are made
\* before the write they guard.  Each further instance that believes it leads
\* can overshoot by one job, and a single one never does.
Overshoot == Cardinality(Schedulers) - 1

LoadBounded  == \A w \in Workers : Load(w) <= MaxInflight + Overshoot
QuotaBounded == \A t \in Tenants : Cardinality(InFlightOf(t)) <= Quota[t] + Overshoot

\* A job is not started more often than max_retries says, but for one run per
\* instance: a sweep decides on the attempt number it read, not on the row's.
AttemptsBounded ==
  \A j \in Jobs : job[j].attempt <= MaxRetries + Cardinality(Schedulers)

\* COMPLETED is written by the worker the row names, from a task that ran the
\* attempt the row shows: a worker that lost the job never finishes it.
CompletedByCurrentRun ==
  [][\A j \in Jobs :
       job[j].state # "COMPLETED" /\ job'[j].state = "COMPLETED"
         => \E w \in up : /\ job[j].owner = w
                          /\ run[w][j] = [phase |-> "succeeded", attempt |-> job[j].attempt]]_vars

\* Only a run that is over its deadline is timed out, although the sweep writes after
\* other processes moved the row (scheduler.py 237-262; for one leader at a time: with two,
\* the row of a job that was re-queued and started again looks as it did when it was read).
TimedOutOnlyIfLate ==
  [][\A j \in Jobs :
       job[j].state # "TIMED_OUT" /\ job'[j].state = "TIMED_OUT"
         => job[j].state = "RUNNING" /\ job[j].overdue]_vars

\* The promise to clients, as an abstract specification.
Lifecycle == INSTANCE JobLifecycle WITH
  state   <- [j \in Jobs |-> job[j].state],
  attempt <- [j \in Jobs |-> job[j].attempt],
  worker  <- [j \in Jobs |-> job[j].owner]

LifecycleSpec == Lifecycle!Spec

-----------------------------------------------------------------------------
(* Liveness *)

\* What the event loops, the database and the clock keep doing.  Nothing is
\* assumed of clients, of faults, or of the pipeline: Return may never happen.
ProcessFairness ==
  /\ \A j \in Jobs :
       WF_vars((BackoffElapses(j) \/ DeadlinePasses(j))
               /\ UNCHANGED <<apiVars, schedulerVars, workerVars>>)
  /\ \A s \in Schedulers :
       /\ WF_vars(s \notin leading /\ Elect(s) /\ UNCHANGED <<apiVars, workerVars>>)
       /\ WF_vars(BeginCycle(s) /\ UNCHANGED <<apiVars, workerVars>>)
       /\ WF_vars((Sweep(s) \/ Dispatch(s)) /\ UNCHANGED <<apiVars, workerVars>>)
  /\ \A w \in Workers :
       /\ WF_vars(Register(w) /\ UNCHANGED <<apiVars, schedulerVars>>)
       /\ WF_vars(Heartbeat(w) /\ UNCHANGED <<apiVars, schedulerVars>>)
       /\ WF_vars(Poll(w) /\ UNCHANGED <<apiVars, schedulerVars>>)
       /\ WF_vars(w \notin up /\ SilenceAction(w))
       /\ \A j \in Jobs :
            WF_vars(run[w][j].phase # "executing" /\ RunAction(w, j))

\* Every execution of a pipeline ends, with a result or an exception.
PipelinesEnd ==
  \A w \in Workers, j \in Jobs : WF_vars(run[w][j].phase = "executing" /\ RunAction(w, j))

FairSpec == Spec /\ ProcessFairness /\ PipelinesEnd
HangSpec == Spec /\ ProcessFairness

Settled == {"COMPLETED", "CANCELLED", "DEAD_LETTER"}

\* Whatever happens to its runs -- worker crashes, pipelines that fail or run
\* late, results that get lost -- a queued job ends, provided one worker survives.
EveryJobSettles ==
  (\E w \in Workers : <>[](w \in up))
    => \A j \in Jobs : job[j].state = "QUEUED" ~> job[j].state \in Settled

\* Some instance is leader from some point on: the schedulers stop dying.
StableLeader == \E s \in Schedulers : <>[](s \in leading)

-----------------------------------------------------------------------------
(* What the documents say of the program *)

\* A run whose result the worker will drop as "cancelled during execution" no
\* longer owns its row.
DroppedRunLostRow ==
  \A w \in Workers : \A j \in cancelled[w] :
    run[w][j].phase = "executing" => ~Owns(w, j, {"RUNNING"})

\* A job in DEAD_LETTER has its record, or a process is about to create it.
DeadLetterRecorded ==
  \A j \in Jobs : job[j].state = "DEAD_LETTER" =>
    \/ j \in deadLetters
    \/ \E s \in Schedulers : At(s, "bury") /\ loop[s].current = j
    \/ \E w \in Workers : In(w, j, "burying")

\* A worker that was found dead loses the jobs it had been given.
DeadWorkersLoseJobs ==
  StableLeader =>
    \A w \in Workers, j \in Jobs :
      node[w] = "OFFLINE" /\ w \notin up /\ Owns(w, j, InFlight)
        ~> ~Owns(w, j, InFlight)

\* A timed-out job is retried or buried.
TimeoutsResolve ==
  StableLeader =>
    \A j \in Jobs : job[j].state = "TIMED_OUT" ~> job[j].state # "TIMED_OUT"

\* A task whose attempt is no longer the one the row shows as running here is
\* cancelled, even if its pipeline hangs.
GhostsAreCancelled ==
  \A w \in Workers, j \in Jobs :
    LET ghost == /\ run[w][j].phase = "executing"
                 /\ ~(Owns(w, j, {"RUNNING"}) /\ run[w][j].attempt = job[j].attempt)
    IN ghost ~> ~ghost
=============================================================================
