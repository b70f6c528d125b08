---------------------------- MODULE TenantQuotas ----------------------------
(***************************************************************************)
(* Quotas of several tenants (src/src/scheduler/scheduler.py,              *)
(* src/src/api/routes/admin.py), which the module Scheduler takes for      *)
(* constant and its runs for one tenant.  The API creates and changes the  *)
(* tenant rows; the scheduler holds a copy of them, loaded once per cycle, *)
(* while it dispatches the oldest queued job as long as there is one, its  *)
(* tenant is below its quota and some worker has room.  One instance       *)
(* leads; workers are the room they have between them.                     *)
(***************************************************************************)
EXTENDS Integers, FiniteSets

CONSTANTS
  Tenants,
  Jobs,         \* numbered in the order of created_at
  TenantOf,
  Quotas,       \* values of max_concurrent_jobs
  Default,      \* DEFAULT_MAX_CONCURRENT_JOBS
  Room,         \* inflight_jobs all the workers may have
  MaxRequests,  \* bound on the updates and cancellations
  MaxFailures   \* bound on the runs that are re-queued, and on the cycles cut off

ASSUME QuotasAssumption ==
  /\ Jobs \subseteq Nat \ {0} /\ IsFiniteSet(Jobs) /\ TenantOf \in [Jobs -> Tenants]
  /\ Quotas \subseteq Nat \ {0} /\ Default \in Nat \ {0}
  /\ Room \in Nat \ {0} /\ MaxRequests \in Nat /\ MaxFailures \in Nat

VARIABLES
  quota,     \* the rows; a tenant without one has None
  job,       \* a job in state QUEUED is "delayed" while its run_after is in the future
  sched,     \* the scheduler: where it is, the copy of the rows, the job it handles
  inForce,   \* history: the limits each tenant has had since the copy was made
  requests, failures

vars == <<quota, job, sched, inForce, requests, failures>>

None == 0
NoJob == 0

InFlightOf(t) == {j \in Jobs : job[j] = "inflight" /\ TenantOf[j] = t}
InFlight      == {j \in Jobs : job[j] = "inflight"}

\* Jobs in state QUEUED, and those of them that dequeue_job looks at.
IsQueued(j) == job[j] \in {"delayed", "queued"}
Queued      == {j \in Jobs : job[j] = "queued"}

\* _get_tenant_max_concurrent: what a tenant without a row may have.
Limit(config, t) == IF config[t] = None THEN Default ELSE config[t]

Pc == {"top", "dequeue", "admit", "quota", "pick", "assign"}

\* The rows there are when the scheduler starts are in its first copy.
Init ==
  /\ quota \in [Tenants -> Quotas \cup {None}]
  /\ job = [j \in Jobs |-> "none"]
  /\ sched = [pc |-> "top", config |-> quota, job |-> NoJob]
  /\ inForce = [t \in Tenants |-> {Limit(quota, t)}]
  /\ requests = 0 /\ failures = 0

-----------------------------------------------------------------------------
(* The API *)

SetQuota(t, q) ==
  /\ quota' = [quota EXCEPT ![t] = q]
  /\ inForce' = [inForce EXCEPT ![t] = @ \cup {q}]
  /\ UNCHANGED <<job, sched, failures>>

CreateTenant(t) ==
  /\ quota[t] = None
  /\ \E q \in Quotas : SetQuota(t, q)
  /\ UNCHANGED requests

UpdateTenant(t) ==
  /\ quota[t] # None /\ requests < MaxRequests
  /\ requests' = requests + 1
  /\ \E q \in Quotas : SetQuota(t, q)

\* A job needs a tenant.
SubmitJob(j) ==
  /\ job[j] = "none" /\ \A i \in Jobs : i < j => job[i] # "none"
  /\ quota[TenantOf[j]] # None
  /\ job' = [job EXCEPT ![j] = "queued"]
  /\ UNCHANGED <<quota, sched, inForce, requests, failures>>

CancelJob(j) ==
  /\ IsQueued(j) \/ job[j] = "inflight"
  /\ requests < MaxRequests
  /\ requests' = requests + 1
  /\ job' = [job EXCEPT ![j] = "over"]
  /\ UNCHANGED <<quota, sched, inForce, failures>>

-----------------------------------------------------------------------------
(* The workers: a run ends, or fails and is queued at its old place again, *)
(* where it is passed over until its back-off is over.                     *)

FinishJob(j) ==
  /\ job[j] = "inflight"
  /\ job' = [job EXCEPT ![j] = "over"]
  /\ UNCHANGED <<quota, sched, inForce, requests, failures>>

RequeueJob(j) ==
  /\ job[j] = "inflight" /\ failures < MaxFailures
  /\ failures' = failures + 1
  /\ job' = [job EXCEPT ![j] = "delayed"]
  /\ UNCHANGED <<quota, sched, inForce, requests>>

\* The clock passes run_after.
DelayOver(j) ==
  /\ job[j] = "delayed"
  /\ job' = [job EXCEPT ![j] = "queued"]
  /\ UNCHANGED <<quota, sched, inForce, requests, failures>>

-----------------------------------------------------------------------------
(* _schedule_cycle *)

At(pc)   == sched.pc = pc
Goto(pc) == sched' = [sched EXCEPT !.pc = pc]
EndCycle == sched' = [sched EXCEPT !.pc = "top", !.job = NoJob]
others   == <<quota, job, inForce, requests, failures>>

\* Mutant: only tenants the copy does not have are added to it.
AddTenantConfigs ==
  /\ At("top")
  /\ sched' = [sched EXCEPT !.pc = "dequeue",
       !.config = [t \in Tenants |-> IF @[t] = None THEN quota[t] ELSE @[t]]]
  /\ inForce' = [t \in Tenants |-> {Limit(quota, t)}]
  /\ UNCHANGED <<quota, job, requests, failures>>

\* After the sweeps, which are the module Scheduler's.
LoadTenantConfigs ==
  /\ At("top")
  /\ sched' = [sched EXCEPT !.pc = "dequeue", !.config = quota]
  /\ inForce' = [t \in Tenants |-> {Limit(quota, t)}]
  /\ UNCHANGED <<quota, job, requests, failures>>

\* Mutant: an empty queue is not told from a job.
DequeueUnchecked ==
  /\ At("dequeue")
  /\ \/ Queued = {} /\ Goto("admit")
     \/ \E j \in Queued :
          /\ \A i \in Queued : j <= i
          /\ sched' = [sched EXCEPT !.pc = "admit", !.job = j]
  /\ UNCHANGED others

Dequeue ==
  /\ At("dequeue")
  /\ \/ Queued = {} /\ EndCycle
     \/ \E j \in Queued :
          /\ \A i \in Queued : j <= i
          /\ sched' = [sched EXCEPT !.pc = "admit", !.job = j]
  /\ UNCHANGED others

Admit ==
  /\ At("admit")
  /\ sched' = IF IsQueued(sched.job) THEN [sched EXCEPT !.pc = "quota"]
              ELSE [sched EXCEPT !.pc = "dequeue", !.job = NoJob]
  /\ UNCHANGED others

\* Mutant: every run the tenant has had is counted.
RunningAndOver(t) == {j \in Jobs : job[j] \in {"inflight", "over"} /\ TenantOf[j] = t}

\* _get_tenant_running_count
Running(t) == InFlightOf(t)

\* A tenant at its quota ends the cycle for every tenant.
CheckQuota ==
  /\ At("quota")
  /\ LET t == TenantOf[sched.job]
     IN IF Cardinality(Running(t)) >= Limit(sched.config, t) THEN EndCycle ELSE Goto("pick")
  /\ UNCHANGED others

FindWorker ==
  /\ At("pick")
  /\ IF Cardinality(InFlight) < Room THEN Goto("assign") ELSE EndCycle
  /\ UNCHANGED others

Assign ==
  /\ At("assign")
  /\ job' = [job EXCEPT ![sched.job] = IF IsQueued(sched.job) THEN "inflight" ELSE @]
  /\ sched' = [sched EXCEPT !.pc = "dequeue", !.job = NoJob]
  /\ UNCHANGED <<quota, inForce, requests, failures>>

CutOff ==
  /\ ~At("top") /\ failures < MaxFailures
  /\ failures' = failures + 1
  /\ EndCycle
  /\ UNCHANGED <<quota, job, inForce, requests>>

Cycle == LoadTenantConfigs \/ Dequeue \/ Admit \/ CheckQuota \/ FindWorker \/ Assign

Next ==
  \/ \E t \in Tenants : CreateTenant(t) \/ UpdateTenant(t)
  \/ \E j \in Jobs : SubmitJob(j) \/ CancelJob(j)
  \/ \E j \in Jobs : FinishJob(j) \/ RequeueJob(j) \/ DelayOver(j)
  \/ Cycle \/ CutOff

Spec     == Init /\ [][Next]_vars
FairSpec == /\ Spec /\ WF_vars(Cycle)
            /\ \A j \in Jobs : WF_vars(FinishJob(j)) /\ WF_vars(DelayOver(j))

-----------------------------------------------------------------------------
TypeOK ==
  /\ quota \in [Tenants -> Quotas \cup {None}]
  /\ job \in [Jobs -> {"none", "delayed", "queued", "inflight", "over"}]
  /\ sched \in [pc : Pc, config : [Tenants -> Quotas \cup {None}], job : Jobs \cup {NoJob}]
  /\ sched.pc \in {"top", "dequeue"} <=> sched.job = NoJob
  /\ inForce \in [Tenants -> SUBSET (Quotas \cup {Default})]
  /\ requests \in 0..MaxRequests /\ failures \in 0..MaxFailures

\* A job is only started within a quota its tenant has had since the cycle began, the
\* default if it had no row then, whatever ends or changes between the count, the look
\* for a worker and the assignment (scheduler.py 126, 140-163; admin.py 108-118).
StartedWithinQuota ==
  [][\A t \in Tenants : Cardinality(InFlightOf(t)') > Cardinality(InFlightOf(t)) =>
       \E q \in inForce[t] : Cardinality(InFlightOf(t)') <= q]_vars

\* Every queued job, in its back-off or not, gets its turn, although a tenant at its quota holds up the jobs of
\* all the others behind its own: the jobs it has running end (scheduler.py 130-163).
QueuedJobsStart == \A j \in Jobs : IsQueued(j) ~> ~IsQueued(j)
=============================================================================
