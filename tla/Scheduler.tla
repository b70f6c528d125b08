----------------------------- MODULE Scheduler ------------------------------
(***************************************************************************)
(* The scheduler loop (src/src/scheduler/scheduler.py).  Every instance    *)
(* runs the same sequential program; pc names the statement it will        *)
(* execute next, and the other fields of loop[s] are the results of        *)
(* earlier queries it still holds in memory, which the rest of the system  *)
(* may have overtaken in the meantime.                                     *)
(*                                                                         *)
(*   top      leader check; then the read of the dead workers              *)
(*   sweep    mark the next dead worker, or go on to the deadlines         *)
(*   orphans  read the jobs of the worker just marked OFFLINE              *)
(*   orphan   fail the next of those jobs; bury: its dead-letter record    *)
(*   late     time out the next overdue job; resolve: fail it              *)
(*   dequeue, admit, quota, pick, assign      one turn of the dispatch     *)
(***************************************************************************)
EXTENDS JobTable, Leadership

CONSTANTS
  MaxInflight,  \* workers.max_inflight_jobs, the same for every worker
  Quota,        \* max_concurrent_jobs of each tenant
  NoJob

ASSUME MaxInflightAssumption == MaxInflight \in Nat \ {0}
ASSUME QuotaAssumption       == Quota \in [Tenants -> Nat \ {0}]
ASSUME NoJobAssumption       == NoJob \notin Jobs

VARIABLE loop   \* per instance: where it is and what it remembers

schedulerVars == <<loop, holder, expired, leading, creating>>

PC == {"top", "sweep", "orphans", "orphan", "bury", "late", "resolve",
       "dequeue", "admit", "quota", "pick", "assign"}

\* A job row as a sweep remembers it.
Sighting == [job : Jobs, owner : Workers \cup {NoWorker}, attempt : Nat]

LoopState == [pc       : PC,
              suspects : SUBSET Workers,    \* dead workers still to be marked
              seen     : SUBSET Sighting,   \* rows read by the current sweep
              current  : Jobs \cup {NoJob}, \* the job being handled
              target   : Workers \cup {NoWorker},
              back     : {"orphan", "late"}]  \* where "bury" returns to

Idle == [pc |-> "top", suspects |-> {}, seen |-> {}, current |-> NoJob,
         target |-> NoWorker, back |-> "orphan"]

SchedulerInit == LeaseInit /\ loop = [s \in Schedulers |-> Idle]

SchedulerTypeOK == LeaseTypeOK /\ loop \in [Schedulers -> LoopState]

\* A dispatch that has dequeued holds a job, and a worker once it has picked one.
MemoryOK ==
  \A s \in Schedulers :
    /\ loop[s].pc \in {"admit", "quota", "pick", "assign"} => loop[s].current \in Jobs
    /\ loop[s].pc = "assign" => loop[s].target \in Workers

At(s, pc)     == loop[s].pc = pc
Become(s, st) == loop' = [loop EXCEPT ![s] = st]
Goto(s, pc)   == Become(s, [loop[s] EXCEPT !.pc = pc])

Sight(J) == {[job |-> j, owner |-> job[j].owner, attempt |-> job[j].attempt] : j \in J}

-----------------------------------------------------------------------------
(* Leader check, 45-60 *)

Elect(s) ==
  /\ At(s, "top")
  /\ NoRowFound(s) \/ CreateLease(s) \/ ClaimLease(s) \/ RenewLease(s)
  /\ UNCHANGED <<tableVars, loop>>

\* A cycle of an instance that believes it leads starts with the query for
\* ONLINE workers whose heartbeat is too old.
BeginCycle(s) ==
  /\ At(s, "top")
  /\ s \in leading
  /\ Become(s, [Idle EXCEPT !.pc = "sweep",
       !.suspects = {w \in silent : node[w] = "ONLINE"}])
  /\ UNCHANGED <<tableVars, leaseVars>>

-----------------------------------------------------------------------------
(* _detect_dead_workers, 207-235 *)

MarkOffline(s) ==
  /\ At(s, "sweep")
  /\ \E w \in loop[s].suspects :
       /\ node' = [node EXCEPT ![w] = "OFFLINE"]
       /\ Become(s, [loop[s] EXCEPT !.pc = "orphans", !.target = w,
                                    !.suspects = @ \ {w}])
  /\ UNCHANGED <<job, deadLetters, silent, leaseVars>>

\* Mutant: the jobs the dead worker had not started are forgotten.
ReadRunningOrphans(s) ==
  /\ At(s, "orphans")
  /\ LET found == Sight({j \in Jobs : Owns(loop[s].target, j, {"RUNNING"})})
     IN Become(s, [loop[s] EXCEPT !.seen = found, !.target = NoWorker,
                     !.pc = IF found = {} THEN "sweep" ELSE "orphan"])
  /\ UNCHANGED <<tableVars, leaseVars>>

ReadOrphans(s) ==
  /\ At(s, "orphans")
  /\ LET found == Sight(InFlightOn(loop[s].target))
     IN Become(s, [loop[s] EXCEPT !.seen = found, !.target = NoWorker,
                     !.pc = IF found = {} THEN "sweep" ELSE "orphan"])
  /\ UNCHANGED <<tableVars, leaseVars>>

-----------------------------------------------------------------------------
(* _handle_job_failure, 282-363 *)

\* What the loop does next once it is through with the row it saw as e.
After(s, e, back) ==
  LET rest == loop[s].seen \ {e}
  IN [loop[s] EXCEPT !.seen = rest, !.current = NoJob, !.back = "orphan",
        !.pc = CASE rest # {}        -> back
                 [] back = "orphan"  -> "sweep"
                 [] OTHER            -> "dequeue"]

\* Re-queue or bury the row seen as e if its state is still one of pre and its
\* owner still the one seen.  The attempt number is the one seen: it is not
\* part of the compare-and-set.
HandleJobFailure(s, e, pre, back) ==
  IF Owns(e.owner, e.job, pre)
    THEN /\ Write(e.job, AfterFailure(job[e.job], e.attempt))
         /\ IF e.attempt < MaxRetries
              THEN Become(s, After(s, e, back))
              ELSE Become(s, [loop[s] EXCEPT !.pc = "bury", !.current = e.job,
                                             !.back = back])
    ELSE /\ Become(s, After(s, e, back))
         /\ UNCHANGED job

FailOrphan(s) ==
  /\ At(s, "orphan")
  /\ \E e \in loop[s].seen : HandleJobFailure(s, e, InFlight, "orphan")
  /\ UNCHANGED <<deadLetters, node, silent, leaseVars>>

\* DeadLetterJob.acreate; a second record for the job is an IntegrityError,
\* which ends the cycle.
RecordDeadLetter(s) ==
  /\ At(s, "bury")
  /\ \E e \in loop[s].seen :
       /\ e.job = loop[s].current
       /\ Become(s, IF e.job \in deadLetters THEN Idle
                                             ELSE After(s, e, loop[s].back))
       /\ deadLetters' = deadLetters \cup {e.job}
  /\ UNCHANGED <<job, node, silent, leaseVars>>

-----------------------------------------------------------------------------
(* _detect_timed_out_jobs, 237-280 *)

\* Mutant: started_at is not compared with the timeout.
LateOnceRunning(j) == job[j].state = "RUNNING"

Late(j) == job[j].state = "RUNNING" /\ job[j].overdue

ReadLate(s) ==
  /\ At(s, "sweep")
  /\ loop[s].suspects = {}
  /\ LET found == Sight({j \in Jobs : Late(j)})
     IN Become(s, [loop[s] EXCEPT !.seen = found,
                     !.pc = IF found = {} THEN "dequeue" ELSE "late"])
  /\ UNCHANGED <<tableVars, leaseVars>>

TimeOut(s) ==
  /\ At(s, "late")
  /\ \E e \in loop[s].seen :
       IF Owns(e.owner, e.job, {"RUNNING"})
         THEN /\ Write(e.job, TimedOut(job[e.job]))
              /\ Become(s, [loop[s] EXCEPT !.pc = "resolve", !.current = e.job])
         ELSE /\ Become(s, After(s, e, "late"))
              /\ UNCHANGED job
  /\ UNCHANGED <<deadLetters, node, silent, leaseVars>>

ResolveTimeout(s) ==
  /\ At(s, "resolve")
  /\ \E e \in loop[s].seen :
       /\ e.job = loop[s].current
       /\ HandleJobFailure(s, e, {"TIMED_OUT"}, "late")
  /\ UNCHANGED <<deadLetters, node, silent, leaseVars>>

-----------------------------------------------------------------------------
(* The dispatch loop, 130-180 *)

\* Rows another instance has locked by its own dequeue are skipped.
OthersDequeuing(s) == {t \in Schedulers \ {s} : At(t, "dequeue")}

Dequeue(s) ==
  /\ At(s, "dequeue")
  /\ \E locked \in SUBSET Ready :
       /\ Cardinality(locked) <= Cardinality(OthersDequeuing(s))
       /\ IF Ready \ locked = {}
            THEN Become(s, Idle)
            ELSE \E j \in Ready \ locked :
                   /\ \A i \in Ready \ locked : j <= i
                   /\ Become(s, [loop[s] EXCEPT !.pc = "admit", !.current = j])
  /\ UNCHANGED <<tableVars, leaseVars>>

Admit(s) ==
  /\ At(s, "admit")
  /\ IF job[loop[s].current].state = "QUEUED"
       THEN Goto(s, "quota")
       ELSE Become(s, [Idle EXCEPT !.pc = "dequeue"])
  /\ UNCHANGED <<tableVars, leaseVars>>

AtQuota(t) == Cardinality(InFlightOf(t)) >= Quota[t]

\* A tenant at its quota ends the cycle for every tenant.
CheckQuota(s) ==
  /\ At(s, "quota")
  /\ IF AtQuota(TenantOf[loop[s].current]) THEN Become(s, Idle) ELSE Goto(s, "pick")
  /\ UNCHANGED <<tableVars, leaseVars>>

Load(w) == Cardinality(InFlightOn(w))

Available == {w \in Workers : node[w] = "ONLINE" /\ Load(w) < MaxInflight}

PickWorker(s) ==
  /\ At(s, "pick")
  /\ \/ Available = {} /\ Become(s, Idle)
     \/ \E w \in Available :
          /\ \A v \in Available : Load(w) <= Load(v)
          /\ Become(s, [loop[s] EXCEPT !.pc = "assign", !.target = w])
  /\ UNCHANGED <<tableVars, leaseVars>>

\* Mutant: the assignment is not a compare-and-set.
AssignUngated(s) ==
  /\ At(s, "assign")
  /\ Write(loop[s].current, Scheduled(job[loop[s].current], loop[s].target))
  /\ Become(s, [Idle EXCEPT !.pc = "dequeue"])
  /\ UNCHANGED <<deadLetters, node, silent, leaseVars>>

Assign(s) ==
  /\ At(s, "assign")
  /\ LET j == loop[s].current
     IN IF job[j].state = "QUEUED"
          THEN Write(j, Scheduled(job[j], loop[s].target))
          ELSE UNCHANGED job
  /\ Become(s, [Idle EXCEPT !.pc = "dequeue"])
  /\ UNCHANGED <<deadLetters, node, silent, leaseVars>>

-----------------------------------------------------------------------------
(* Faults *)

\* An exception out of any statement: logged, and the loop starts over.
AbortCycle(s) ==
  /\ ~At(s, "top")
  /\ Become(s, Idle)
  /\ UNCHANGED <<tableVars, leaseVars>>

\* The process dies and is restarted under the same SCHEDULER_INSTANCE_ID.
RestartScheduler(s) ==
  /\ ~At(s, "top") \/ s \in leading \cup creating
  /\ Become(s, Idle)
  /\ ForgetLease(s)
  /\ UNCHANGED tableVars

Sweep(s) == MarkOffline(s) \/ ReadOrphans(s) \/ FailOrphan(s) \/ RecordDeadLetter(s)
            \/ ReadLate(s) \/ TimeOut(s) \/ ResolveTimeout(s)

Dispatch(s) == Dequeue(s) \/ Admit(s) \/ CheckQuota(s) \/ PickWorker(s) \/ Assign(s)

SchedulerStep(s) == Elect(s) \/ BeginCycle(s) \/ Sweep(s) \/ Dispatch(s)

-----------------------------------------------------------------------------
\* Dispatchers that work at the same time have dequeued different jobs: the promise of
\* dequeue_job (pg_queue.py 37-41), whose lock ends with its own transaction.
DistinctClaims ==
  \A s, t \in Schedulers : s # t /\ loop[s].pc \in {"admit", "quota", "pick", "assign"}
    /\ loop[t].pc \in {"admit", "quota", "pick", "assign"} => loop[s].current # loop[t].current
=============================================================================
