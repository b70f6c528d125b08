# A TLA+ verification of endure

endure runs batch jobs for several tenants on a pool of workers. A PostgreSQL
database is the only thing the processes share: HTTP handlers write job rows, one
leading scheduler instance gives jobs to workers and looks after the ones that
fail, and workers run them. Nothing holds a lock for longer than one statement.
What keeps the system correct is that every change of a job's state is a
compare-and-set on the row (`Job.objects.filter(state=..., assigned_worker_id=...)
.aupdate(...)`), and what makes it hard is everything that happens between the read
a process decides on and the write it makes.

What a run does between its start and its result is a pipeline of stages that leaves
step outputs and snapshots in the same database, for the run that may have to
replace it.

Around this core are the election of the leading instance, by a lease in one row;
jobs that are created on a schedule; quotas of tenants, which the API changes while
the scheduler works by a copy; and the files of the daily import, on the disks of the
hosts, whose hashes tell an import what is new.

This directory holds models of all of these, the runs that model-check them on small
instances, and proofs of their main properties for any number of jobs, workers,
scheduler instances, executions, files, periodic tasks and seeds.

## Inventory

The core of the program is `src/src`; `evaluate/` is its test and measurement
harness, `endure/` its settings. Line numbers below are those of the files named.

| Component | State it keeps | Operations | Talks to |
|---|---|---|---|
| Tables (`models.py`, `constants.py`) | job, worker, dead-letter, checkpoint, step-output, periodic-task, tenant and leader rows | statements on them | everybody |
| Job API (`api/routes/jobs.py`) | nothing | submit, cancel, retry, queries | job and dead-letter rows |
| Leader election (`scheduler/leader.py`) | the `scheduler_leader` row; `is_leader` in memory | `try_acquire`, `renew_heartbeat` | the row |
| Scheduler (`scheduler/scheduler.py`) | the local variables of its one loop; cached tenant configurations | leader check, periodic tasks, dead-worker sweep, timeout sweep, failure handling, dispatch | election, queue, all rows |
| Queue (`queue/pg_queue.py`) | nothing: the QUEUED rows are the queue | `dequeue_job` | job rows |
| Worker (`worker/worker.py`) | `_active_jobs` (a task per job), `_cancelled_jobs` | register, poll for assigned jobs, check ownership, execute, complete, fail, stop | job, worker, dead-letter rows |
| Heartbeat (`worker/heartbeat.py`) | the row it has read | read, rejoin after an eviction, save | worker row, the worker's tasks |
| Executor, pipeline, steps, checkpoints (`worker/executor.py`, `framework/`, `checkpoint/`) | stage list, step counter, snapshots, step outputs | run the stages not yet completed, replay recorded steps, snapshot, clean up | checkpoint and step rows |
| Periodic tasks (`scheduler.py` 88-119, `api/routes/admin.py` 153-175, `management/commands/seed_periodic_reports.py`) | `next_run_at` | create a job per due task, advance; seed, create | periodic and job rows |
| Tenant administration (`api/routes/admin.py`) | tenant rows | create, update | read by the scheduler once per cycle |
| Reporting jobs (`reporting/`, `api/routes/reports.py`) | source-file rows; CSV files in a host's temporary directory; reports | generate, hash, discover, ingest, validate, transform, archive | source-file rows, the host's disk, a storage directory |
| Event log, metrics, read endpoints, commands | event rows | append, query | -- |

### Behaviours that are hard

* **Reads that are stale when acted on.** A sweep reads a list of rows and handles
  them one by one; the dispatcher checks load and quota and then assigns; the worker
  collects `active_ids` and then awaits the ownership query.
* **Two leaders.** `is_leader` is a flag in memory. An instance that stalls keeps it
  until its next renewal, and another may have taken the lease long before.
* **Ghost runs.** A run that is timed out, or whose worker is declared dead although
  it lives, goes on executing beside the run that replaces it.
* **Two statements where one is meant.** `DEAD_LETTER` and its record; `TIMED_OUT`
  and its resolution; the claim of a manual retry and the deletion of the record.
* **asyncio cancellation.** A task can be cancelled at any await, and one cancelled
  before its first step never reaches its `finally` clause.
* **State that is neither in the database nor in the process.** The files of an import
  are on the host that generated them, under a name made of the day; the run that
  continues it may be on another host, in a process with another hash seed, the day
  after.
* **Several statements without a constraint.** Look for a hash and record it; look for
  a periodic task and create it; create its job and save its next time.
* **Time.** Back-off, timeouts, heartbeats and the lease all race with the events
  they are about.

`PROJECT.json` lists each of them as a hazard, at the line where it bites, with the
properties that cover it.

### What makes each component correct

* Job rows: each goes through the life cycle; a row names a worker exactly when one
  has the job; starts are counted, and stay within the retry limit.
* Scheduler: dead workers lose their jobs, late runs are ended, both are retried or
  buried; no worker and no tenant gets more than its share; every job ends.
* Worker: only the run the row shows reports for it; runs that lost their row stop;
  a result is not dropped while the row waits for it.
* Dead letters: a dead job has its record.
* Pipelines: a resumed run repeats no stage that a snapshot covers, works on the
  files it discovered, and leaves none out; ghost runs, failed statements and
  concurrent clean-ups neither falsify a snapshot nor lose the latest.
* Election: what the other modules assume of the lease; at most one leader while
  nobody stalls and the lease outlives the turns between renewals; a dead leader is
  replaced in time.
* Periodic tasks: one job per due time, but for faults and races that can be counted;
  a row is set past a match of its schedule by nothing but a save that goes by an older
  cron expression; a leader gets through its turn and on to dispatching, if its schedules
  do not end (one that does stops it: `finite_schedule`).
* Tenants: jobs start within a quota of the current cycle; a tenant at its quota
  delays the others and does not starve them.
* Imports: what is marked as processed was read, is on a report, and is not imported
  again, whenever the import continues; a complete import has left no file out, and none
  reports with a file unread.

## Modules

```
JobTable      rows, queries and updates, back-off and deadlines
 +- JobApi        submit, cancel, retry
 +- Leadership    lease row and is_leader          (on its own)
 |   +- Scheduler     the loop, one pc per statement
 |   +- PeriodicTasks   jobs on a schedule          (on its own; MCPeriodic)
 +- WorkerNode    one event loop: poll, heartbeat, a task per job
      all composed by Endure: Init, Next, fairness, properties
JobLifecycle  abstract specification of one job's row; Endure implements it
MCEndure      constants for TLC

LeaderElection  the lease with clocks; implements Leadership    (MCElection)
TenantQuotas  several tenants, quotas that change   (on its own; MCQuotas)
ImportFiles   the files behind Pipeline's numbers   (on its own; MCImport)
Pipeline      the executions of one import job      (on its own)

EndureRows -- EndureRuns, EndureCapacity            theorems about Endure
LeaderElectionSafety, PeriodicSafety, QuotaSafety,
ImportSafety, PipelineSafety                        theorems about the others
```

**JobTable.** `job[j]` is the row of job j as a record; `Write` with `Scheduled`,
`Running`, `Requeued`... are the `aupdate` calls, and `Owns(w, j, states)` the
filter `state__in=..., assigned_worker_id=w` they carry. Both retry paths, the
scheduler's `_handle_job_failure` and the worker's `_fail_job`, write the same row:
`AfterFailure`. Wall-clock columns become flags that say what the code asks of them:
`delayed` (`run_after` is in the future), `overdue` (`started_at` is further back
than `timeout_seconds`), `silent` (`last_heartbeat` older than the timeout). They
become true, or false, at any moment; so every schedule of the clocks is covered,
possible or not.

**JobApi.** The three writing handlers. `retry_job` is two statements
(`RetryClaim`, `RetryCleanup`) and may die in between (`RetryLost`).

**Leadership.** `NoRowFound`/`CreateLease` are the two statements of a `try_acquire`
that reads no row, `ClaimLease` its conditional update (read and update as one step:
a row, once read, is never deleted), `RenewLease` the renewal. Between them
`LeaseExpires` may happen at any time, so two instances can lead at once.

**LeaderElection** has the clocks. Times are ages: `age` of `renewed_at`, and per
instance `stamp`, of the clock reading it will write or compare with, and `turn`, of
the round of the loop it is in. `Tick` lets all of them grow by one
`SCHEDULER_LOOP_INTERVAL`, if no instance is in the last moment of its turn -- unless
instances stall. `count` is `_heartbeat_counter`: a leader renews in every
`Renewals`-th turn. `Look` and `Create` or `Claim` are the statements of
`try_acquire`. The module implements `Leadership`: `expired` is `age > TTL`, and what
is written is as old as the reading, so that a lease may be late when it is written.

**Scheduler.** One action per statement of `_schedule_cycle` and of the functions it
calls; `loop[s]` holds `pc` and what earlier queries returned. A sweep remembers
rows as `Sighting`s: job, owner and attempt *as seen*. `HandleJobFailure` compares
state and owner with the row, and decides retry or burial on the attempt it
remembers, as the code does. A second dead-letter record for a job violates the
one-to-one constraint, and the exception ends the cycle. `Dequeue` may skip rows
locked by another instance's dequeue (`skip_locked`). A tenant at its quota ends the
cycle for everybody (`break`), a lost assignment does not (`continue`).

**WorkerNode.** `run[w][j]` is the entry of `_active_jobs` and the point its task
has reached. `PollAssigned` and `PollOwnership` are the two halves of the poll
around its await, with `polled` the ids the first half collected; `ReadHeartbeat`
and `SaveHeartbeat` the two halves of the heartbeat, of which the first cancels every
task when the row says OFFLINE. `Unwound` is `task.cancel()`: a task that has begun
goes through its `finally` clause, one that has not is `lost` -- its entry stays.

**Endure** composes them. `Faults` switches on what the environment does: worker
crash, operator shutdown, missed heartbeats of a live worker, exceptions out of any
database call, and restarts of schedulers or requests between two statements.

**JobLifecycle** is the promise to a client who watches the row: eight moves. The
refinement mapping reads state, attempt and worker off the row.

**Pipeline** is what `WorkerNode` calls `executing`: run r of one `DailyImportJob`,
from the executor that loads the latest snapshot (`Begin`) through the stages to
the return. `exec[r]` holds the instance's fields and the local variables: `done` is
`_completed_stages`, `seq` `_checkpoint_sequence`, `at` the file a stage has reached
(in `ingest` the step counter), `files` and `records` the shared `state`, `doomed`
the list a clean-up has read. `discover` asks for one file after the other
(`Discover`); `ingest` looks each step up (`LookUp`) and, if there is no output,
reads the file and inserts one (`RecordStep`, which drops a duplicate and keeps its
own result); `archive` replaces the artifact (`SaveArtifact`) and marks the files
(`MarkImported`); `validate`, `transform` and `report` touch nothing shared and are
one stage. After each stage come `SaveSnapshot`, which drops a duplicate number,
`ReadSnapshots` and `DeleteSnapshot`, one row at a time. `Faults` are runs cut off
at any point (exception, cancellation, crash), failing statements where the code
goes on after them, imports by other jobs, and `ghost`: a run may begin while
earlier ones execute, which `Endure` shows to happen after a missed heartbeat.

**PeriodicTasks.** A leader (by `Leadership`, so there may be several) reads its clock
(`BeginCycle`), queries the due rows (`QueryDue`) and for one after the other creates
the job (`CreateJob`) and saves the next time (`SaveNext`); `EndCycle` stands for
`_schedule_cycle`. A cron expression (`Crons`) stands for the times it matches
(`Fires`), which may end. A row carries one, and a leader remembers a row with the one
it had (`Seen`): the save computes the next time by that, and writes nothing else (but
`last_run_at`, which decides nothing). Clients are seeds (`Request`, `SeekRow`, `InsertRow`:
`update_or_create` locks a row it finds, and nothing keeps two of them from finding
none), which write the whole row, cron expression included, and requests to
`POST /periodic-tasks`, which only insert, under any name with any cron expression.
`made` and `updates` count what the properties are about. `CutOff` is an exception or a
restart.

**TenantQuotas.** The dispatch loop once more, for several tenants, with workers
reduced to the room they have: `LoadTenantConfigs` makes the copy, `CheckQuota` asks
it, with the default of tenants it does not have, and `CreateTenant` and
`UpdateTenant` change the rows meanwhile. Jobs are submitted, cancelled, finish and
are re-queued at any point; a re-queued one is `"delayed"`, and not dequeued, until the
clock has passed its `run_after` (`DelayOver`). `inForce` remembers the limits since the copy.

**ImportFiles** opens up what `Pipeline` takes for given, and leaves out its
snapshots: an import that is cut off continues in the stage it was in, elsewhere
(`Move`). A file is a `Content`, its number and its text; `"plain"` is the text of a
file without injected errors, a hash seed that of a file with them, `"cut"` that of a
file that is being rewritten. A directory belongs to a host and a day. `OpenFile` and
`WriteFile` are the generator, `HashFile` and `QueryHash` the filter in `discover`,
`ReadFile` the ingest, `SaveReport`, `HashFile` and `MarkFile`, `MarkFails` or
`PassOver` the archive. The date is not in the payload (neither the seeded task nor
the API puts it there).

Mutants -- a definition as a plausible bug would have it -- stand beside the
definitions they change, marked `Mutant:`. No run uses one; each property of a
passing run is violated when its mutant replaces the definition.

### Abstractions

* A statement takes effect at one moment. A statement in flight when its task is
  cancelled either has been committed (its action happened before) or never is.
* `stop()` of a worker is one step: the loops end, the tasks are cancelled, the row
  says OFFLINE.
* Events, logging, results and error texts are left out; that writing an event can
  raise is part of the `db_error` fault.
* Job ids are numbers in `created_at` order; all workers have the same
  `max_inflight_jobs`; quotas do not change (they do in `TenantQuotas`).
* In `WorkerNode` a run of a pipeline is the phase `executing`, which ends with a
  result or an exception, or hangs; `Pipeline` has the stages, and no worker.
* In `Pipeline` a file is its number and stands for its content and hash: it is
  regenerated unchanged and read whole; `ImportFiles` shows when it is not. A file
  missing in `archive` counts as a failed statement. In `ImportFiles` an import whose
  ingest has failed is not retried, and all imports have the same tenant and seed.
* The election and the periodic tasks have a clock each. In `LeaderElection` it is
  the same for all instances; ages beyond `Oldest`, TTL and three turns, are one. In
  `PeriodicTasks` the lease may be late at any time and the clock goes to `MaxTime`.
* Bound: at most one retry request per job is between its two statements. Attempts
  need no bound: the program bounds them, but for manual retries, which reset them.
  `MaxTime`, `MaxFaults`, `MaxMade` (above what the property allows), `MaxMoves`,
  `Days`, `MaxRequests` and `MaxFailures` bound the modules that have them; the theorems
  about them do not depend on their values.

## Runs

TLC runs on `MCEndure`, `Pipeline`, `MCElection`, `MCPeriodic`, `MCQuotas` and
`MCImport`. `Requests` and `Faults` name what is switched on.

| Run | Instance | Question |
|---|---|---|
| `one_worker_faults` | 1 job, 1 worker, 1 scheduler, 2 retries; cancel and retry; all faults | Do rows, tasks, owners and attempts stay consistent whatever fails? Is only a late run timed out, and COMPLETED written only by the current run? Does each row go through the life cycle of `JobLifecycle`? |
| `crashes_settle` | 1 job, 2 workers, 1 scheduler, 2 retries; cancel; crashes; fairness | Does the job end while one worker survives? Does a stale run, on the worker that lost the job, ever report? |
| `pipeline_resume` | 3 executions one after the other, 3 files; cut off anywhere; imports by other jobs | Is a stage with a snapshot ever repeated, a file read for another, left out, or marked without being in the report? |
| `pipeline_ghosts` | 2 executions at the same time, 2 files; all faults | Do snapshots stay true, and is the latest never lost? |
| `lease` | 2 instances, TTL 3, renewal in every second turn; three worlds: one instance may be killed for good; they may also restart; they may also stall and fail at any statement | Does the election with clocks do no more than `Leadership` allows? Does at most one lead while nobody stalls or fails? Is a dead leader's lease taken over within the TTL and two turns? |
| `periodic` | 1 row, 2 instances that may both lead, a client and a seed, one turn cut off, 3 clock times; the seed's cron expression matches at 1, 2 and 4, the client's at 1 and 4, or it is the seed's; fairness | How often can a due time be served? Does anything but a save by an older cron expression set the row past a match of its schedule? Does a due row get its job, and do the leaders go on dispatching? |
| `import` | 2 imports, 2 files, one with injected errors, 2 hash seeds, a run cut off; three worlds: one after the other on one host, over midnight; the same with errors while marking; at the same time, on 2 hosts, with such errors | In the first, is what was marked imported once? In the first two, was what is marked read, is it on a report, and does a complete import leave no file out? In all, has an import that reports read each file it found new? |
| `quotas` | 2 tenants, 4 jobs, quotas of 1 and 2, default 3; 2 requests, 1 failure; fairness | Does a job only start within a quota its tenant has had since the cycle began? Does every queued job get its turn, although a tenant at its quota stops the queue? |

A *world* is a set of the things that may go wrong, a variable chosen in the first
state and kept: a property that presumes that some of them do not happen says so
(`Timely`, `InTurn`, `Orderly`), and one run checks all of them. Each presumption is needed: two
imports in progress at once import the same content, both having looked for the hashes
before either has marked them (`daily_import.py` 61), and rewrite each other's files, so
that what is hashed and marked is not what was read (`daily_import.py` 49); and what could
not be marked is imported again (`daily_import.py` 206).

`DueTasksRun` excepts a row that an instance has read at an earlier due time. With two
leaders that case is real: the first saves the next time late, when it is due already,
and before anyone queries it the second saves too, by a later clock, and moves the row
past it. The bound of `JobsPerDueTime` is met: two leaders can serve a due time three
times.

Four runs look for, and find, a behaviour that a comment or a document of the
repository excludes.

| Run | What the code does | What is said of it |
|---|---|---|
| `stale_cancel_mark` | A task that ends while the poll awaits its ownership query leaves a mark in `_cancelled_jobs`; the next run of that job on this worker is dropped unreported although it owns its row, which then waits for its deadline. | `worker.py` 162: "Cancelled during execution - do not write any terminal state." |
| `missing_dead_letter` | The task that wrote DEAD_LETTER no longer owns the row, so the poll cancels it before it creates the record. | `evaluate/tier1/test_unhandled_failure.py` 11: retries exhausted means DEAD_LETTER and a record |
| `orphans_stranded` | A worker is marked OFFLINE by one instance and given a job by another after the first read its orphans, or its orphans are forgotten with a cycle; OFFLINE workers are not swept again. | `PLAN.md` 16: "detected failures trigger reassignment of incomplete work" |
| `timeout_stranded` | A scheduler dies between `TIMED_OUT` and the handler; nothing looks for TIMED_OUT rows, and they are neither cancellable nor retryable. | `PLAN.md` 18: "repeated failures converge to a terminal state" |

### Further configurations

These `.cfg` files stand beside the runs for the cases that need an instance of their
own. Three hold: `two_leaders` (`LifecycleSpec` with two instances that both lead, proved
for any number as `LifecycleCorrect`), `tenant_quota` (two jobs of a tenant with quota
1: `QuotaBounded`, proved as `QuotaCorrect`, and `EveryJobSettles`), and
`lease_long_turns` (`OneLeader` and `TakenOver` where turns take up to three intervals).
The others end in a counterexample; `MCEndure` is the module of the first and third,
`Pipeline` of the second, `MCElection`, `MCPeriodic` and `MCImport` of the rest.

| Configuration | What the code does | What is said of it |
|---|---|---|
| `hung_ghost` | A hung run's job comes back to the same worker: ownership is tested by job id, so the old task passes for the new one, is never cancelled, and keeps the new one from starting. | `worker.py` 94: tasks whose job was re-dispatched are cancelled |
| `memo_by_position` | A step is looked up by position; its name is stored and never compared. Without checkpoints, a run cut off while it marks its files is followed by one that discovers fewer, replays the content of file 1 for file 2, and marks file 2 as processed. (With checkpoints it takes a ghost run, or a snapshot that failed to be saved or loaded.) | `PLAN.md` 76-77: "Crash mid-ingest resumes from the next unprocessed file." |
| `same_job_twice` | `dequeue_job` locks a row until its own transaction ends; a second dispatcher that asks before the job is assigned gets it too. The compare-and-set of the assignment settles it. | `pg_queue.py` 39-40: two concurrent dispatchers "each see a distinct job and never return the same ID" |
| `lease_slow_turns` | A leader renews every so many turns; a turn takes the sleep and a whole cycle. | `docker-compose.evaluate.yml` 8: "5.0 s (leader renewal frequency)" |
| `finite_schedule` | The job of the last match of a schedule is created; then `get_next` raises, in every turn, before the leader dispatches. | `scheduler.py` 3: "Dequeues jobs from PostgreSQL and assigns them to available workers." |
| `seed_undone` | A leader reads a row when it is due; a seed gives it another cron expression and next time; the leader's save writes a next time by the old expression. The row keeps the new expression and misses its next match. | `seed_periodic_reports.py` 4-5: "Creates (or updates) the PeriodicTask row", "daily at 06:00 UTC" |
| `seeded_twice` | Two seeds look for the row before either creates it; both create one. | `seed_periodic_reports.py` 4: "Creates (or updates) the PeriodicTask row" |
| `hash_order` | The repeated id of an injected error is the first element of a set of strings: each process has its own, and generates another file. | `csv_data.py` 18: "deterministically from seed"; `PLAN.md` 129: a file "re-sent unchanged" is skipped |
| `other_host` | A resumed ingest does not find files that are on another host's disk. | `PLAN.md` 76-77: "Crash mid-ingest resumes from the next unprocessed file." |
| `past_midnight` | `discover` and `archive` both call `date.today()`: the report on one day's files is filed under the next day. | `PLAN.md` 115: "ISO-8601 date [default: today]", a field of the job |

### Why these bounds

The program treats jobs independently except for load and quota, so one job meets every
interleaving of its own row; what jobs compete for is in `TenantQuotas`, whose four give
a tenant one more than its largest quota. Two workers are the least for a job to be
re-dispatched away from a run that still executes; a worker id stands for one process,
since a restarted worker registers under a new id. A second scheduler instance changes
nothing for the properties `one_worker_faults` shares with the theorems, which hold for
any number; where it matters, in `lease` and `periodic`, there are two. With
`max_retries = 1` a failed run is buried at once, so runs about retries have 2.
`Pipeline` has four stages, so that clean-ups delete, twice; three executions, so that a
resumed one is resumed; two files where runs overlap, one to be marked and one not.
Every bound on numbers other than the constants is the program's own. What these
instances cannot show -- more jobs, workers, leaders at once -- is what the theorems are
for.

`LeaderElection` needs two instances, one to lead and one to take over, and a TTL of
a few turns, so that renewals, late readings and take-overs all fall within it; that more
instances, longer turns and other TTLs change nothing for one leader is proved. All
things that may go wrong in `lease` make more behaviours possible, so that the largest
world stands for those between. In `PeriodicTasks` the seed's schedule matches at two
times within the clock's range and rarely after, so that a leader can be early, on time,
late, and late by a whole period; the other cron expression leaves the second of them
out, so that a save by it can pass over it. Two imports and two files are the least for one to be sent
again, and for a mark to fall before and after a fault.

### Fairness

`ProcessFairness` asks weak fairness of what the processes do without being asked:
an instance that does not lead keeps trying to; a leader begins cycles and finishes
them; workers register, poll and send heartbeats; tasks go on with their next
statement; a dead worker's heartbeat grows old; back-offs and deadlines pass. This
is what `asyncio` loops with a `sleep` and a live database do: each of these steps,
once enabled, stays enabled until its process takes it. Nothing is asked of clients
or of faults. Renewals are left unfair: a leader may expire at any time.

`PipelinesEnd`, that an execution ends by itself, is assumed in `FairSpec` and not in
`HangSpec`: the configuration `hung_ghost` is about a pipeline that does not. In
`FairSpec` it may still outlive its deadline. `EveryJobSettles` presumes that some
worker stays up from some point on, the two properties about sweeps that some instance
stays leader (`StableLeader`).

`PeriodicTasks` asks that an instance goes on with its turn (`Turn`) and that one that
does not lead keeps asking for the lease (`Acquire`); clients and the clock need not
move. `TenantQuotas` asks that the scheduler goes on with its cycle, that runs end,
which `EveryJobSettles` shows of them, and that back-offs pass. `ImportFiles` has no
liveness property and no fairness. Cut-offs are bounded in these runs: a turn or a run
that is cut off every time gets nowhere.

Liveness runs of `Endure` leave these faults out, because with them the program really can
leave a job behind for ever: `stall` (a task lost before its first step keeps its
entry), `shutdown` (SCHEDULED jobs of a worker that says OFFLINE itself are not
swept), `db_error` and `restart` (see `timeout_stranded`). Manual retry is left out
too: a client that keeps retrying an older job keeps a younger one waiting.

## Theorems

All hold for every number of jobs, workers, instances, executions, files, tenants,
periodic tasks and seeds, all requests and all faults, from the named assumptions on the
constants only (sets of jobs, files and instances finite, the latter not empty, numbers
natural, null values outside the sets). What a theorem presumes besides is in its
statement, or in that of the property, and listed here. Every invariant and every action
property that a run checks is stated by one of them.

### Endure

* **EndureRows** has the types, and what one step can do to one row. `TypeCorrect` is
  `Spec => []TypeOK`. `TypeOK` alone is not inductive: a dispatch writes
  `loop[s].current` into a row, so one has to know that it is a job by then. `MemoryOK`
  says so and is the rest of the invariant. `RowStep` lists the nine ways in which a row
  changes, with the conditions the compare-and-set gives; every action is shown to do
  one of these to one row, or nothing. From it follow `OwnershipCorrect`
  (`OwnerMatchesState`) and `LifecycleCorrect`, `Spec => LifecycleSpec`: each step of the
  system is a step of the abstract specification or a stutter. The mapping needs
  `OwnershipInv`: that a completed row keeps its owner is only the abstract move if there
  was one.
* **EndureRuns** is about the runs of a job.
  * `FencingCorrect` (`RunMatchesRow`) and `CompletionCorrect` (`CompletedByCurrentRun`).
    The gate in `_execute_job` tests state and owner but not the attempt. `FenceInv`
    supplies it: if a row is RUNNING on a worker, a task there that has read its attempt
    has the row's. It is inductive because a row becomes RUNNING only in the step that
    takes its owner's own task from `begun` to `started`, before it reads, and a worker
    has one task per job.
  * `AttemptsCorrect` (`AttemptsBounded`). A sweep decides on the attempt it remembers,
    which may be out of date, and then grants a start too many. `AttemptInv` counts: a
    row's attempt, plus one if it waits to be started, plus the instances that remember
    it with an attempt below `max_retries`, stays within `max_retries` plus instances.
    Each such memory is used up when it is handled; a sweep takes no new one while it has
    any; a worker decides on the row's own attempt, which is where `FenceInv` comes in.
  * `TimeoutCorrect` (`TimedOutOnlyIfLate`), under `[]SoleLeader`: no two instances lead
    at once, of however many. `TimeoutInv` says of each job the timeout sweep
    remembers that it is not SCHEDULED, and late if it is RUNNING. It is kept because a
    row starts to run only out of SCHEDULED, where none but a leader puts it, and a
    leader in its sweep does not dispatch. `TimeoutAlone` is the case of one instance.
* **EndureCapacity**: `LoadCorrect` (`LoadBounded`) and `QuotaCorrect` (`QuotaBounded`),
  for any number of leaders at once. `CapacityInv` counts, beside the jobs in flight, the
  instances that have passed the check and not yet assigned: load plus those that hold
  this worker as their target never exceeds the limit plus the other instances. It rests
  on counting lemmas for finite sets. `CapacityCorrect` is the same with nothing to
  spare, under `[]SoleLeader`: as an instance only dispatches while it believes it leads
  (`CyclesLead`, from EndureRows), at most one has passed a check.

`SoleLeader` is what the election promises while nobody stalls and the TTL is long
enough: `OneLeader` and `ExclusionCorrect` below, over the same actions, of which
`LeaseCorrect` shows the lease of `Endure` to be the abstraction.

### The others

* **LeaderElectionSafety**: `ElectionTypeCorrect`; `LeaseCorrect`, that the election
  implements `Leadership` -- each step is one of the lease's or a stutter, whatever the
  age of the clock reading, since a lease may be late when it is written.
  * `ExclusionCorrect` (`OneLeader`, which presumes `Timely`: no stalls, no failing
    statements, and a TTL of at least the turns of a renewal period and one more). Its
    invariant bounds the age of the lease by the turns its holder has counted, so that
    nobody finds it late while its holder leads; who else believes it leads must have
    read before.
  * `TakeoverCorrect` (`TakenOver`), for such a TTL and instances that are killed while
    one is left. `TakeoverInv` bounds the age of the lease by the place in its turn of
    each instance that waits for it (`Patient`): one that has looked in vain has seen a
    lease that was not late by its clock reading, and looks again in its next turn.
* **PeriodicSafety**: `PeriodicTypeCorrect`; `NoMatchPassedOverCorrect`
  (`NoMatchPassedOver`, an action property): every write computes the next time from a
  clock reading of the past, so that it cannot lie beyond a match of the expression it
  goes by that is still to come; the expression a seed or a request goes by is the one it
  writes, and a save goes by the one it has read, so that only a save whose row has been
  seeded since can be the exception. That there is a least match,
  which `NextFire` chooses, is proved from the well-foundedness of finite sets.
  * `JobsCorrect` (`JobsPerDueTime`), for any number of leaders, presumes that no
    schedule ends within the clock's range (`Endless`): otherwise the save fails after
    the job is made, turn after turn. An instance is *early* for a due time if it has
    read its clock before it and is not through with the row: it may save late, and make
    the row due again. The others are *late*, and of these the ones that have found the
    row due, or may find it, are the creators. `CountInv` bounds the jobs made, plus the
    creators, by the triangle number of the late instances, plus the faults, plus one for
    each instance and seed: a late save turns one early instance into a late one, and
    gives all late ones their turn again, for which the triangle grows by their number; a
    cut-off gives one its turn again, a seed all.
* **QuotaSafety**: `QuotaTypeCorrect`; `QuotaCorrect` (`StartedWithinQuota`). `QuotaInv`
  says that the limit in the copy is one of those in force since the cycle began
  (`CopyInForce`), whatever the API does meanwhile, and that between the check and the
  assignment the tenant has a place within it (`HasPlace`), since nobody but the one
  scheduler puts a job in flight.
* **ImportSafety**: `ImportTypeCorrect`; `MarkedWasReadCorrect`,
  `MarkedIsReportedCorrect` and `NothingLeftOutCorrect`, whose properties presume
  `InTurn`: imports run one after the other, on one host; `ImportedOnceCorrect`
  (`ContentImportedOnce`) presumes `Orderly`: that no mark fails, besides. `OrderInv`
  says what an import that runs knows: its hash is that of the file as it is
  (`HashIsOfFile`, since nobody else writes there); a file found new is there, one that
  was not is marked, and, if marks do not fail (`Marking`), nobody else has the content
  of a new one (`FoundIsNew`, since whoever read it has marked it); the records are those
  of the files (`RecordsAreRead`); and marks follow the report (`MarksFollow`). Cut-offs,
  other hash seeds and midnight are in it: a run that goes on in another process keeps
  the directory it has, and a text written anew is another content. At the last step of
  archive these say of each file that it is marked, or at least read (`LeavesNothing`).
  * `EveryFileReadCorrect` (`EveryFileRead`) presumes nothing: imports may overlap, move
    to other hosts and find files missing. `ReadInv` says of an import in ingest that its
    records are those of the new files it is through with, one each; a missing file ends
    it, and what moves keeps files and records together.
* **PipelineSafety**: `PipelineTypeCorrect`, `PrefixesCorrect`
  (`SnapshotsArePrefixes`), `BackedCorrect` (`SnapshotsBacked`) and `NoRegressCorrect`
  (`NoRegress`), ghosts and failing statements included. `PipelineInv` says of every run
  what it will claim when it saves: the first `seq` stages, one record per file handled,
  each recorded as a step. That a clean-up cannot lose the latest snapshot although it
  acts on an old list needs that each row on such a list has a number below the latest,
  whoever deletes in the meantime.
  * `NothingLeftCorrect` (`NothingLeftBehind`) holds of runs that overlap too, but not if
    marking a file can fail (`db_error`): `CoverInv` says of each file that a run or
    snapshot either has it or need not have it.
  * `NotRepeatedCorrect` (`CompletedStagesNotRepeated`) presumes that runs follow one
    another and that snapshots are saved and loaded (`Sequential`): `SequentialInv` says
    that one run executes at a time, and is not behind any snapshot.
  * `RecordsCorrect` (`RecordsMatchFiles`) and `ReportedCorrect` (`ImportedIsReported`)
    need checkpointing besides (see `memo_by_position`): nothing is read before the first
    snapshot, and all snapshots and runs have the files of the first (`ReplayInv`), so
    that a report that is written anew is the same again (`ReportInv`).
  * How a step changes the run that takes it is in one lemma per kind of step
    (`BeginMove` to `CutOffMove`), which all of these rest on.

### What is not proved

`EveryJobSettles`, `DueTasksRun`, `KeepsDispatching` and `QueuedJobsStart` say that something happens in the end, by fairness: that is beyond the
prover, and model-checked only. `LoadBounded`, `QuotaBounded` and
`CapacityExact` are proved and not checked by a run that lists them: one job more than a
limit needs more jobs than the runs have.

## Not modelled, and why

* Events, metrics and read endpoints change nothing that is read back; that writing an
  event can fail is modelled.
* What `validate` and `transform` compute, the rows of a CSV file and the sheets of a
  report are contents, on which nothing modelled depends.
* `runscheduler` and `runworker` start the loops; migrations and settings are data; the
  evaluation harness measures, and was read for what it states.
* The Django admin site (`admin.py`) can edit any column of any row, past every
  compare-and-set; it is taken for the operator's tool, which nothing is promised about.
* `max_workers` of a tenant is stored and read by nothing. `update_tenant` ignores the
  name it is given.
* What a second import of the day does to the report of the first is in `ImportFiles`
  (`SaveReport` replaces it); nothing written says what it should do, so no property is
  about it.

## Plan

Done: tables, API, scheduler, worker and life cycle; `Pipeline`; `PeriodicTasks`;
`LeaderElection` and that it implements `Leadership`; `TenantQuotas`; `ImportFiles`;
the theorems above.

What is left: `Pipeline` under `Endure`, so that overlaps of executions come from the
scheduler instead of a fault; `SoleLeader` from `LeaderElection` in one composition,
instead of by the names of its actions; `StartedWithinQuota` for several leaders.
