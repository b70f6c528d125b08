----------------------------- MODULE WorkerNode -----------------------------
(***************************************************************************)
(* A worker process (src/src/worker/worker.py and heartbeat.py): one       *)
(* asyncio event loop that runs the poll loop, the heartbeat loop and one  *)
(* task per job.  run[w][j] is the task of job j on worker w:              *)
(*                                                                         *)
(*   none       no entry in _active_jobs                                   *)
(*   created    entry made, the coroutine has not run its first step       *)
(*   begun      about to move the row SCHEDULED -> RUNNING                 *)
(*   started    it did; about to re-read the row for its attempt number    *)
(*   executing  JobExecutor.execute is running the pipeline                *)
(*   succeeded  about to write COMPLETED                                   *)
(*   failed     in _fail_job, about to write QUEUED or DEAD_LETTER         *)
(*   burying    about to create the dead-letter record                     *)
(*   reporting  about to record the final event                            *)
(*   lost       cancelled before its first step: the finally clause never  *)
(*              runs and the entry of _active_jobs stays                   *)
(***************************************************************************)
EXTENDS JobTable

VARIABLES
  up,         \* worker processes that are alive
  run,        \* their tasks
  cancelled,  \* their _cancelled_jobs
  polled,     \* active_ids of a poll that awaits its ownership query, or {}
  beat        \* the heartbeat loop: idle, or the row read and the save pending

workerVars == <<up, run, cancelled, polled, beat>>

Phase == {"none", "created", "begun", "started", "executing", "succeeded",
          "failed", "burying", "reporting", "lost"}

Run    == [phase : Phase, attempt : Nat]
NoRun  == [phase |-> "none", attempt |-> 0]

WorkerInit ==
  /\ up = {}
  /\ run = [w \in Workers |-> [j \in Jobs |-> NoRun]]
  /\ cancelled = [w \in Workers |-> {}]
  /\ polled = [w \in Workers |-> {}]
  /\ beat = [w \in Workers |-> "idle"]

WorkerTypeOK ==
  /\ up \subseteq Workers
  /\ run \in [Workers -> [Jobs -> Run]]
  /\ cancelled \in [Workers -> SUBSET Jobs]
  /\ polled \in [Workers -> SUBSET Jobs]
  /\ beat \in [Workers -> {"idle", "alive", "rejoin"}]

Active(w)   == {j \in Jobs : run[w][j].phase # "none"}   \* keys of _active_jobs
In(w, j, p) == w \in up /\ run[w][j].phase = p

\* task.cancel(): a task that has begun unwinds through its finally clause at
\* the await it is in; one that has not begun is lost.
Unwinds(r) == r.phase \notin {"none", "created", "lost"}
Unwound(r) == IF Unwinds(r) THEN NoRun
              ELSE IF r.phase = "created" THEN [r EXCEPT !.phase = "lost"] ELSE r

-----------------------------------------------------------------------------
(* Process *)

Register(w) ==
  /\ node[w] = "ABSENT"
  /\ node' = [node EXCEPT ![w] = "ONLINE"]
  /\ up' = up \cup {w}
  /\ UNCHANGED <<job, deadLetters, silent, run, cancelled, polled, beat>>

\* Everything in memory is gone; a restarted worker has a new uuid.
Halt(w) ==
  /\ w \in up
  /\ up' = up \ {w}
  /\ run' = [run EXCEPT ![w] = [j \in Jobs |-> NoRun]]
  /\ cancelled' = [cancelled EXCEPT ![w] = {}]
  /\ polled' = [polled EXCEPT ![w] = {}]
  /\ beat' = [beat EXCEPT ![w] = "idle"]

CrashWorker(w) == Halt(w) /\ UNCHANGED tableVars

\* stop: the tasks are cancelled and the row says OFFLINE; the job rows stay.
StopWorker(w) ==
  /\ Halt(w)
  /\ node' = [node EXCEPT ![w] = "OFFLINE"]
  /\ UNCHANGED <<job, deadLetters, silent>>

\* No heartbeat has been written for WORKER_HEARTBEAT_TIMEOUT.
FallSilent(w) ==
  /\ node[w] # "ABSENT"
  /\ w \notin silent
  /\ silent' = silent \cup {w}
  /\ UNCHANGED <<job, deadLetters, node, workerVars>>

-----------------------------------------------------------------------------
(* HeartbeatSender.start, 35-65 *)

\* Read the row.  A worker that finds itself OFFLINE cancels every task.
ReadHeartbeat(w) ==
  /\ w \in up
  /\ beat[w] = "idle"
  /\ IF node[w] = "OFFLINE"
       THEN /\ beat' = [beat EXCEPT ![w] = "rejoin"]
            /\ run' = [run EXCEPT ![w] = [j \in Jobs |-> Unwound(@[j])]]
            /\ cancelled' = [cancelled EXCEPT ![w] =
                 {j \in @ : ~Unwinds(run[w][j])}]
       ELSE /\ beat' = [beat EXCEPT ![w] = "alive"]
            /\ UNCHANGED <<run, cancelled>>
  /\ UNCHANGED <<tableVars, up, polled>>

\* Save it: last_heartbeat, and state = ONLINE only if it was read OFFLINE.
SaveHeartbeat(w) ==
  /\ w \in up
  /\ beat[w] # "idle"
  /\ beat' = [beat EXCEPT ![w] = "idle"]
  /\ silent' = silent \ {w}
  /\ node' = IF beat[w] = "rejoin" THEN [node EXCEPT ![w] = "ONLINE"] ELSE node
  /\ UNCHANGED <<job, deadLetters, up, run, cancelled, polled>>

-----------------------------------------------------------------------------
(* _poll_for_assigned_jobs, 77-112 *)

\* A task for each job SCHEDULED here that has none; then, if any task is
\* active, the ownership query over the ids of this moment.
PollAssigned(w) ==
  /\ w \in up
  /\ polled[w] = {}
  /\ LET new == {j \in Jobs : Owns(w, j, {"SCHEDULED"})} \ Active(w)
     IN /\ run' = [run EXCEPT ![w] = [j \in Jobs |->
                     IF j \in new THEN [NoRun EXCEPT !.phase = "created"] ELSE @[j]]]
        /\ polled' = [polled EXCEPT ![w] = Active(w) \cup new]
  /\ UNCHANGED <<tableVars, up, cancelled, beat>>

\* The query has answered: cancel the tasks of jobs this worker does not own.
\* Tasks created by the same poll have run their first step by then.
PollOwnership(w) ==
  /\ w \in up
  /\ polled[w] # {}
  /\ \A j \in Jobs : run[w][j].phase # "created"
  /\ LET stolen == {j \in polled[w] \ cancelled[w] : ~Owns(w, j, InFlight)}
     IN /\ run' = [run EXCEPT ![w] = [j \in Jobs |->
                     IF j \in stolen THEN Unwound(@[j]) ELSE @[j]]]
        /\ cancelled' = [cancelled EXCEPT ![w] = @ \cup {j \in stolen : ~Unwinds(run[w][j])}]
  /\ polled' = [polled EXCEPT ![w] = {}]
  /\ UNCHANGED <<tableVars, up, beat>>

-----------------------------------------------------------------------------
(* _execute_job, 121-224 *)

Step(w, j, p) == /\ run' = [run EXCEPT ![w][j].phase = p]
                 /\ UNCHANGED cancelled

\* The finally clause.
End(w, j) == /\ run' = [run EXCEPT ![w][j] = NoRun]
             /\ cancelled' = [cancelled EXCEPT ![w] = @ \ {j}]

Begin(w, j) ==
  /\ In(w, j, "created")
  /\ Step(w, j, "begun")
  /\ UNCHANGED tableVars

StartRun(w, j) ==
  /\ In(w, j, "begun")
  /\ IF Owns(w, j, {"SCHEDULED"})
       THEN Write(j, Running(job[j])) /\ Step(w, j, "started")
       ELSE End(w, j) /\ UNCHANGED job
  /\ UNCHANGED <<deadLetters, node, silent>>

\* Mutant: the row as it was before the attempt was counted.
RefreshFromOldRow(w, j) ==
  /\ In(w, j, "started")
  /\ run' = [run EXCEPT ![w][j] = [phase |-> "executing", attempt |-> job[j].attempt - 1]]
  /\ UNCHANGED <<tableVars, cancelled>>

\* job = the row as it is now, and the RUNNING event.
Refresh(w, j) ==
  /\ In(w, j, "started")
  /\ run' = [run EXCEPT ![w][j] = [phase |-> "executing", attempt |-> job[j].attempt]]
  /\ UNCHANGED <<tableVars, cancelled>>

\* The executor returns; a job found in _cancelled_jobs is dropped unreported.
Return(w, j) ==
  /\ In(w, j, "executing")
  /\ IF j \in cancelled[w] THEN End(w, j)
                           ELSE Step(w, j, "succeeded") \/ Step(w, j, "failed")
  /\ UNCHANGED tableVars

\* Mutant: COMPLETED is written whatever became of the row.
CompleteUngated(w, j) ==
  /\ In(w, j, "succeeded")
  /\ Write(j, Completed(job[j])) /\ Step(w, j, "reporting")
  /\ UNCHANGED <<deadLetters, node, silent>>

Complete(w, j) ==
  /\ In(w, j, "succeeded")
  /\ IF Owns(w, j, {"RUNNING"})
       THEN Write(j, Completed(job[j])) /\ Step(w, j, "reporting")
       ELSE End(w, j) /\ UNCHANGED job
  /\ UNCHANGED <<deadLetters, node, silent>>

\* _fail_job, 226-311.
FailJob(w, j) ==
  /\ In(w, j, "failed")
  /\ IF Owns(w, j, {"RUNNING"})
       THEN /\ Write(j, AfterFailure(job[j], run[w][j].attempt))
            /\ Step(w, j, IF run[w][j].attempt < MaxRetries THEN "reporting" ELSE "burying")
       ELSE End(w, j) /\ UNCHANGED job
  /\ UNCHANGED <<deadLetters, node, silent>>

\* An IntegrityError goes through the except clause back into _fail_job.
BuryJob(w, j) ==
  /\ In(w, j, "burying")
  /\ Step(w, j, IF j \in deadLetters THEN "failed" ELSE "reporting")
  /\ deadLetters' = deadLetters \cup {j}
  /\ UNCHANGED <<job, node, silent>>

Report(w, j) ==
  /\ In(w, j, "reporting")
  /\ End(w, j)
  /\ UNCHANGED tableVars

\* An exception out of a database call: before the row was re-read there is
\* nothing to fail (job is None); after it, _fail_job, whose own exceptions end
\* the task.
RunError(w, j) ==
  /\ w \in up
  /\ \/ /\ run[w][j].phase \in {"begun", "started", "failed"}
        /\ End(w, j)
     \/ /\ run[w][j].phase \in {"executing", "succeeded", "burying", "reporting"}
        /\ Step(w, j, "failed")
  /\ UNCHANGED tableVars

\* The same in one of the two loops: logged, and tried again at its next turn.
LoopError(w) ==
  /\ w \in up
  /\ \/ polled[w] # {} /\ polled' = [polled EXCEPT ![w] = {}] /\ UNCHANGED beat
     \/ beat[w] # "idle" /\ beat' = [beat EXCEPT ![w] = "idle"] /\ UNCHANGED polled
  /\ UNCHANGED <<tableVars, up, run, cancelled>>

RunStep(w, j) ==
  /\ \/ Begin(w, j) \/ StartRun(w, j) \/ Refresh(w, j) \/ Return(w, j)
     \/ Complete(w, j) \/ FailJob(w, j) \/ BuryJob(w, j) \/ Report(w, j)
  /\ UNCHANGED <<up, polled, beat>>

Heartbeat(w) == ReadHeartbeat(w) \/ SaveHeartbeat(w)
Poll(w)      == PollAssigned(w) \/ PollOwnership(w)
=============================================================================
