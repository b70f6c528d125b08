------------------------------ MODULE JobTable ------------------------------
(***************************************************************************)
(* The rows every process of the system shares: the jobs table, the        *)
(* dead_letter_jobs table and the workers table (src/src/models.py).       *)
(* PostgreSQL executes one statement at a time on a row, so a queryset     *)
(* aupdate with a filter -- a compare-and-set -- is one atomic step, and   *)
(* each await of a handler between two statements is a place where the     *)
(* other processes run.                                                    *)
(*                                                                         *)
(* Wall-clock columns are abstracted to what the code asks of them:        *)
(* run_after to "still in the future" (delayed), started_at to "longer ago *)
(* than timeout_seconds" (overdue), last_heartbeat to "older than          *)
(* WORKER_HEARTBEAT_TIMEOUT" (silent).                                     *)
(***************************************************************************)
EXTENDS Integers, FiniteSets

CONSTANTS
  Jobs,         \* job ids; naturals, numbered in the order of created_at
  Workers,      \* worker ids: one uuid per worker process ever started
  Tenants,      \* tenant ids
  TenantOf,     \* the tenant each job is submitted for
  MaxRetries,   \* Job.max_retries
  NoWorker      \* NULL in assigned_worker_id

ASSUME JobsAssumption       == Jobs \subseteq Nat /\ IsFiniteSet(Jobs)
ASSUME TenantAssumption     == TenantOf \in [Jobs -> Tenants]
ASSUME MaxRetriesAssumption == MaxRetries \in Nat
ASSUME NoWorkerAssumption   == NoWorker \notin Workers

VARIABLES
  job,          \* the jobs table: one row per id, ABSENT until it is submitted
  deadLetters,  \* ids with a row in dead_letter_jobs (OneToOne with the job)
  node,         \* workers.state per worker id, ABSENT until it registers
  silent        \* workers whose last_heartbeat is older than the timeout

tableVars == <<job, deadLetters, node, silent>>

JobState == {"ABSENT", "QUEUED", "SCHEDULED", "RUNNING", "COMPLETED",
             "TIMED_OUT", "CANCELLED", "DEAD_LETTER"}
WorkerState == {"ABSENT", "ONLINE", "OFFLINE"}

CANCELLABLE_STATES == {"QUEUED", "SCHEDULED", "RUNNING"}
RETRYABLE_STATES   == {"DEAD_LETTER"}

\* The states that count as load, on a worker and on a tenant's quota.
InFlight == {"SCHEDULED", "RUNNING"}

JobRow == [state   : JobState,
           attempt : Nat,
           owner   : Workers \cup {NoWorker},
           overdue : BOOLEAN,
           delayed : BOOLEAN]

Unsubmitted == [state |-> "ABSENT", attempt |-> 0, owner |-> NoWorker,
                overdue |-> FALSE, delayed |-> FALSE]
FreshRow == [Unsubmitted EXCEPT !.state = "QUEUED"]

TableInit ==
  /\ job = [j \in Jobs |-> Unsubmitted]
  /\ deadLetters = {}
  /\ node = [w \in Workers |-> "ABSENT"]
  /\ silent = {}

TableTypeOK ==
  /\ job \in [Jobs -> JobRow]
  /\ deadLetters \subseteq Jobs
  /\ node \in [Workers -> WorkerState]
  /\ silent \subseteq Workers

-----------------------------------------------------------------------------
(* Queries *)

\* The filter of every ownership-gated write.
Owns(w, j, states) == job[j].state \in states /\ job[j].owner = w

InFlightOn(w) == {j \in Jobs : Owns(w, j, InFlight)}
InFlightOf(t) == {j \in Jobs : job[j].state \in InFlight /\ TenantOf[j] = t}

Ready == {j \in Jobs : job[j].state = "QUEUED" /\ ~job[j].delayed}

-----------------------------------------------------------------------------
(* Updates: what each aupdate leaves in the row it matches *)

Write(j, row) == job' = [job EXCEPT ![j] = row]

Scheduled(row, w) == [row EXCEPT !.state = "SCHEDULED", !.owner = w]

Running(row)      == [row EXCEPT !.state = "RUNNING", !.attempt = @ + 1,
                                 !.overdue = FALSE]
Completed(row)    == [row EXCEPT !.state = "COMPLETED", !.overdue = FALSE]
TimedOut(row)     == [row EXCEPT !.state = "TIMED_OUT", !.overdue = FALSE]
Cancelled(row)    == [row EXCEPT !.state = "CANCELLED", !.overdue = FALSE]

\* Mutants: a re-queue that leaves assigned_worker_id set, and a dead letter that
\* gets a state of its own.
RequeuedKeepingOwner(row) == [row EXCEPT !.state = "QUEUED", !.overdue = FALSE,
                                         !.delayed = TRUE]
BuriedAsFailed(row)       == [row EXCEPT !.state = "FAILED", !.owner = NoWorker]

\* Both retry paths: the scheduler's _handle_job_failure, the worker's _fail_job.
Requeued(row) == [row EXCEPT !.state = "QUEUED", !.owner = NoWorker,
                             !.overdue = FALSE, !.delayed = TRUE]
Buried(row)   == [row EXCEPT !.state = "DEAD_LETTER", !.owner = NoWorker,
                             !.overdue = FALSE]

\* Mutant: retries without an end.
AlwaysRequeued(row, attempt) == Requeued(row)

\* What a failed run leaves behind, decided by the attempt number that the
\* process handling the failure holds in memory.
AfterFailure(row, attempt) ==
  IF attempt < MaxRetries THEN Requeued(row) ELSE Buried(row)

-----------------------------------------------------------------------------
(* Time *)

\* The back-off of a re-queued job elapses.
BackoffElapses(j) ==
  /\ job[j].state = "QUEUED"
  /\ job[j].delayed
  /\ Write(j, [job[j] EXCEPT !.delayed = FALSE])
  /\ UNCHANGED <<deadLetters, node, silent>>

\* A run outlives its timeout_seconds.
DeadlinePasses(j) ==
  /\ job[j].state = "RUNNING"
  /\ ~job[j].overdue
  /\ Write(j, [job[j] EXCEPT !.overdue = TRUE])
  /\ UNCHANGED <<deadLetters, node, silent>>

TimeNext == \E j \in Jobs : BackoffElapses(j) \/ DeadlinePasses(j)
=============================================================================
