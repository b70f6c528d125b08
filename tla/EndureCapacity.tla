--------------------------- MODULE EndureCapacity ---------------------------
(***************************************************************************)
(* How far the dispatcher can overshoot a worker's max_inflight_jobs and a *)
(* tenant's max_concurrent_jobs.  Its checks come before the write they    *)
(* guard, so the jobs in flight are counted together with the instances    *)
(* that have passed the check and have not written yet: there are never    *)
(* more of those than instances.                                           *)
(***************************************************************************)
EXTENDS EndureRows, FiniteSetTheorems

\* Instances about to assign a job to w; those past the quota check for t.
Committed(w) == {s \in Schedulers : At(s, "assign") /\ loop[s].target = w}
Admitted(t)  == {s \in Schedulers : /\ loop[s].pc \in {"pick", "assign"}
                                    /\ TenantOf[loop[s].current] = t}

\* The instances between a check and the write it guards.
Dispatching == {s \in Schedulers : loop[s].pc \in {"pick", "assign"}}

\* The bounds are missed by k at most as long as k + 1 instances dispatch at most.
CapacityInv(k) ==
  /\ OwnershipInv
  /\ \A w \in Workers :
       Load(w) + Cardinality(Committed(w)) <= MaxInflight + k
  /\ \A t \in Tenants :
       Cardinality(InFlightOf(t)) + Cardinality(Admitted(t)) <= Quota[t] + k

-----------------------------------------------------------------------------
(* Counting.                                                               *)

\* An element that leaves one set makes room for one in the other.
LEMMA Exchange ==
  ASSUME NEW X, NEW Y, IsFiniteSet(X), IsFiniteSet(Y), NEW X2, NEW Y2,
         \/ X2 \subseteq X /\ Y2 \subseteq Y
         \/ \E x, y : y \in Y /\ X2 \subseteq X \cup {x} /\ Y2 \subseteq Y \ {y}
  PROVE  Cardinality(X2) + Cardinality(Y2) <= Cardinality(X) + Cardinality(Y)
<1>1. CASE X2 \subseteq X /\ Y2 \subseteq Y
  <2>1. Cardinality(X2) <= Cardinality(X) /\ Cardinality(Y2) <= Cardinality(Y)
    BY <1>1, FS_Subset
  <2>2. IsFiniteSet(X2) /\ IsFiniteSet(Y2)
    BY <1>1, FS_Subset
  <2> QED BY <2>1, <2>2, FS_CardinalityType
<1>2. CASE \E x, y : y \in Y /\ X2 \subseteq X \cup {x} /\ Y2 \subseteq Y \ {y}
  <2> PICK x, y : y \in Y /\ X2 \subseteq X \cup {x} /\ Y2 \subseteq Y \ {y}
    BY <1>2
  <2>1. /\ IsFiniteSet(X \cup {x}) /\ IsFiniteSet(Y \ {y})
        /\ Cardinality(X \cup {x}) <= Cardinality(X) + 1
        /\ Cardinality(Y \ {y}) = Cardinality(Y) - 1
    BY FS_AddElement, FS_RemoveElement, FS_CardinalityType
  <2>2. /\ Cardinality(X2) <= Cardinality(X \cup {x})
        /\ Cardinality(Y2) <= Cardinality(Y \ {y})
        /\ IsFiniteSet(X2) /\ IsFiniteSet(Y2)
    BY <2>1, FS_Subset
  <2> QED BY <2>1, <2>2, FS_CardinalityType
<1> QED BY <1>1, <1>2

LEMMA Finiteness ==
  /\ \A w : IsFiniteSet(InFlightOn(w)) /\ IsFiniteSet(Committed(w))
            /\ Cardinality(Committed(w)) <= Cardinality(Schedulers)
  /\ \A t : IsFiniteSet(InFlightOf(t)) /\ IsFiniteSet(Admitted(t))
            /\ Cardinality(Admitted(t)) <= Cardinality(Schedulers)
<1>1. \A S : S \subseteq Jobs => IsFiniteSet(S)
  BY JobsAssumption, FS_Subset
<1>2. \A S : S \subseteq Schedulers =>
               IsFiniteSet(S) /\ Cardinality(S) <= Cardinality(Schedulers)
  BY SchedulersAssumption, FS_Subset
<1> QED BY <1>1, <1>2 DEF InFlightOn, InFlightOf, Committed, Admitted

-----------------------------------------------------------------------------
(* What the scheduler does between the check and the write.                *)

\* An instance enters "assign" only from a check that found room on the worker,
\* and "pick" only from one that found room in the tenant's quota.
LoopEffect(s) ==
  /\ loop'[s].pc = "assign" /\ loop'[s] # loop[s] =>
       /\ At(s, "pick") /\ loop'[s].current = loop[s].current
       /\ loop'[s].target \in Available
       /\ UNCHANGED job
  /\ loop'[s].pc = "pick" /\ loop'[s] # loop[s] =>
       /\ loop'[s].current = loop[s].current
       /\ LET t == TenantOf[loop[s].current] IN Cardinality(InFlightOf(t)) < Quota[t]
       /\ UNCHANGED job

LEMMA LoopOnly ==
  ASSUME TypeOK, NEW s \in Schedulers, NEW st, Become(s, st), LoopEffect(s)
  PROVE  \A r \in Schedulers : LoopEffect(r)
<1>1. \A r \in Schedulers \ {s} : loop'[r] = loop[r]
  BY DEF Become, TypeOK, SchedulerTypeOK
<1> QED BY <1>1 DEF LoopEffect

\* Every other step ends at another statement.
LEMMA LoopElsewhere ==
  ASSUME TypeOK, NEW s \in Schedulers, NEW st, Become(s, st), st.pc \notin {"pick", "assign"}
  PROVE  \A r \in Schedulers : LoopEffect(r)
<1>1. loop'[s] = st
  BY DEF Become, TypeOK, SchedulerTypeOK
<1> QED BY <1>1, LoopOnly DEF LoopEffect

LEMMA SchedulerLoop ==
  ASSUME TypeOK, MemoryOK, NEW s \in Schedulers,
         SchedulerStep(s) \/ AbortCycle(s) \/ RestartScheduler(s)
  PROVE  \A r \in Schedulers : LoopEffect(r)
<1>typ. loop[s] \in LoopState
  BY DEF TypeOK, SchedulerTypeOK
<1>idle. Idle.pc = "top" /\ [Idle EXCEPT !.pc = "dequeue"].pc = "dequeue"
  BY DEF Idle
<1>after. \A e : \A back \in {"orphan", "late"} :
            After(s, e, back).pc \in {"orphan", "late", "sweep", "dequeue"}
  BY <1>typ DEF After, LoopState
<1>fail. ASSUME NEW e, NEW pre, NEW back \in {"orphan", "late"},
                HandleJobFailure(s, e, pre, back)
         PROVE  \A r \in Schedulers : LoopEffect(r)
  <2>1. [loop[s] EXCEPT !.pc = "bury", !.current = e.job, !.back = back].pc = "bury"
    BY <1>typ DEF LoopState
  <2> QED BY <1>fail, <1>after, <2>1, LoopElsewhere DEF HandleJobFailure
<1>1. CASE Elect(s)
  BY <1>1 DEF Elect, LoopEffect
<1>2. CASE BeginCycle(s) \/ MarkOffline(s) \/ ReadOrphans(s) \/ ReadLate(s)
  BY <1>typ, <1>2, LoopElsewhere
     DEF BeginCycle, MarkOffline, ReadOrphans, ReadLate, LoopState, Idle
<1>3. CASE FailOrphan(s) \/ ResolveTimeout(s)
  BY <1>3, <1>fail DEF FailOrphan, ResolveTimeout
<1>4. CASE RecordDeadLetter(s)
  BY <1>typ, <1>4, <1>idle, <1>after, LoopElsewhere DEF RecordDeadLetter, LoopState
<1>5. CASE TimeOut(s)
  <2>1. \A j : [loop[s] EXCEPT !.pc = "resolve", !.current = j].pc = "resolve"
    BY <1>typ DEF LoopState
  <2> QED BY <1>5, <2>1, <1>after, LoopElsewhere DEF TimeOut
<1>6. CASE Dequeue(s) \/ Admit(s) \/ Assign(s) \/ AbortCycle(s) \/ RestartScheduler(s)
  BY <1>typ, <1>6, <1>idle, LoopElsewhere
     DEF Dequeue, Admit, Goto, Assign, AbortCycle, RestartScheduler, LoopState
<1>7. CASE CheckQuota(s)
  <2> DEFINE t == TenantOf[loop[s].current]
  <2>1. CASE Cardinality(InFlightOf(t)) >= Quota[t]
    BY <1>7, <2>1, <1>idle, LoopElsewhere DEF CheckQuota, AtQuota
  <2>2. CASE ~(Cardinality(InFlightOf(t)) >= Quota[t])
    <3>1. loop' = [loop EXCEPT ![s] = [loop[s] EXCEPT !.pc = "pick"]] /\ UNCHANGED job
      BY <1>7, <2>2 DEF CheckQuota, AtQuota, Goto, Become, tableVars
    <3>2. loop'[s].pc = "pick" /\ loop'[s].current = loop[s].current
      BY <1>typ, <3>1 DEF TypeOK, SchedulerTypeOK, LoopState
    <3>3. t \in Tenants
      BY <1>7, TenantAssumption DEF CheckQuota, At, MemoryOK
    <3>4. Cardinality(InFlightOf(t)) < Quota[t]
      BY <2>2, <3>3, QuotaAssumption, Finiteness, FS_CardinalityType
    <3>5. LoopEffect(s)
      BY <3>1, <3>2, <3>4 DEF LoopEffect
    <3> QED BY <3>1, <3>5, LoopOnly DEF Become
  <2> QED BY <2>1, <2>2
<1>8. CASE PickWorker(s)
  <2>1. CASE Become(s, Idle)
    BY <2>1, <1>idle, LoopElsewhere
  <2>2. ASSUME NEW w \in Available,
               Become(s, [loop[s] EXCEPT !.pc = "assign", !.target = w])
        PROVE  \A r \in Schedulers : LoopEffect(r)
    <3>1. /\ loop'[s].pc = "assign" /\ loop'[s].target = w
          /\ loop'[s].current = loop[s].current
      BY <1>typ, <2>2 DEF Become, TypeOK, SchedulerTypeOK, LoopState
    <3> QED BY <1>8, <2>2, <3>1, LoopOnly DEF LoopEffect, PickWorker, tableVars
  <2> QED BY <1>8, <2>1, <2>2 DEF PickWorker
<1> QED BY <1>1, <1>2, <1>3, <1>4, <1>5, <1>6, <1>7, <1>8 DEF SchedulerStep, Sweep, Dispatch

LEMMA LoopChange ==
  ASSUME TypeOK, MemoryOK, [Next]_vars
  PROVE  \A s \in Schedulers : LoopEffect(s)
<1>1. CASE UNCHANGED loop
  BY <1>1 DEF LoopEffect
<1>2. CASE \E s \in Schedulers : SchedulerStep(s) \/ AbortCycle(s) \/ RestartScheduler(s)
  BY <1>2, SchedulerLoop
<1>3. \/ UNCHANGED loop
      \/ \E s \in Schedulers : SchedulerStep(s) \/ AbortCycle(s) \/ RestartScheduler(s)
  BY DEF Next, vars, schedulerVars, ApiAction, TimeAction, LeaseAction, SchedulerAction,
         WorkerAction, SilenceAction, RunAction, FaultAction
<1> QED BY <1>1, <1>2, <1>3

\* Jobs come in flight one at a time, by an assignment.
LEMMA FlightChange ==
  ASSUME OwnershipInv, [Next]_vars
  PROVE  \/ \A j \in Jobs : job'[j].state \in InFlight =>
              job[j].state \in InFlight /\ job'[j].owner = job[j].owner
         \/ \E s \in Schedulers :
              /\ At(s, "assign") /\ loop[s].current \in Jobs
              /\ ~At(s, "assign")' /\ ~At(s, "pick")'
              /\ job'[loop[s].current].owner = loop[s].target
              /\ \A r \in Schedulers \ {s} : loop'[r] = loop[r]
              /\ \A i \in Jobs \ {loop[s].current} : job'[i] = job[i]
<1>1. CASE UNCHANGED job
  BY <1>1
<1>2. ASSUME NEW j \in Jobs, RowStep(j), NEW s \in Schedulers, Assign(s),
             loop[s].current = j, Write(j, Scheduled(job[j], loop[s].target))
      PROVE  /\ At(s, "assign")
             /\ ~At(s, "assign")' /\ ~At(s, "pick")'
             /\ job'[j].owner = loop[s].target
             /\ \A r \in Schedulers \ {s} : loop'[r] = loop[r]
             /\ \A i \in Jobs \ {j} : job'[i] = job[i]
  <2>1. loop' = [loop EXCEPT ![s] = [Idle EXCEPT !.pc = "dequeue"]]
    BY <1>2 DEF Assign, Become
  <2>2. loop'[s].pc = "dequeue" /\ \A r \in Schedulers \ {s} : loop'[r] = loop[r]
    BY <2>1 DEF OwnershipInv, TypeOK, SchedulerTypeOK, Idle
  <2>3. job'[j].owner = loop[s].target
    BY <1>2 DEF Write, Scheduled, OwnershipInv, TypeOK, TableTypeOK, JobRow
  <2> QED BY <1>2, <2>2, <2>3, RowStepEffect DEF Assign, At, OwnershipInv
<1>3. ASSUME NEW j \in Jobs, RowStep(j),
             ~\E s \in Schedulers : /\ Assign(s) /\ loop[s].current = j
                                   /\ Write(j, Scheduled(job[j], loop[s].target))
      PROVE  \A i \in Jobs : job'[i].state \in InFlight =>
               job[i].state \in InFlight /\ job'[i].owner = job[i].owner
  <2>1. RowEffect(job[j], job'[j]) /\ \A i \in Jobs \ {j} : job'[i] = job[i]
    BY <1>3, RowStepEffect DEF OwnershipInv
  <2>2. \A row : Write(j, row) => job'[j] = row
    BY DEF Write, OwnershipInv, TypeOK, TableTypeOK
  <2>3. CASE job[j].state = "QUEUED"
    <3>1. job[j] \in JobRow
      BY DEF OwnershipInv, TypeOK, TableTypeOK
    <3>2. job'[j] = [job[j] EXCEPT !.delayed = FALSE] \/ job'[j] = Cancelled(job[j])
      BY <1>3, <2>2, <2>3 DEF RowStep
    <3>3. job'[j].state \notin InFlight
      BY <2>3, <3>1, <3>2 DEF InFlight, Cancelled, JobRow
    <3> QED BY <2>1, <3>3
  <2>4. CASE job[j].state # "QUEUED"
    BY <2>1, <2>4 DEF RowEffect, CANCELLABLE_STATES, InFlight
  <2> QED BY <2>3, <2>4
<1> QED BY <1>1, <1>2, <1>3, RowChange DEF OwnershipInv

-----------------------------------------------------------------------------
(* The two bounds.                                                         *)

LEMMA CapacityInit ==
  ASSUME Init, NEW k \in Nat
  PROVE  CapacityInv(k)
<1>1. OwnershipInv
  BY OwnershipInit
<1>2. \A j \in Jobs : job[j].state \notin InFlight
  BY DEF Init, TableInit, Unsubmitted, InFlight
<1>3. \A s \in Schedulers : loop[s].pc = "top"
  BY DEF Init, SchedulerInit, Idle
<1>4. /\ \A w \in Workers : InFlightOn(w) = {} /\ Committed(w) = {}
      /\ \A t \in Tenants : InFlightOf(t) = {} /\ Admitted(t) = {}
  BY <1>2, <1>3 DEF InFlightOn, Owns, InFlightOf, Committed, Admitted, At
<1>5. Cardinality({}) = 0
  BY FS_EmptySet
<1>6. /\ MaxInflight \in Nat \ {0} /\ \A t \in Tenants : Quota[t] \in Nat \ {0}
      /\ \A n \in Nat \ {0} : 0 + 0 <= n + k
  BY MaxInflightAssumption, QuotaAssumption
<1>7. \A w \in Workers : Load(w) + Cardinality(Committed(w)) <= MaxInflight + k
  BY <1>4, <1>5, <1>6 DEF Load
<1>8. \A t \in Tenants :
        Cardinality(InFlightOf(t)) + Cardinality(Admitted(t)) <= Quota[t] + k
  BY <1>4, <1>5, <1>6
<1> QED BY <1>1, <1>7, <1>8 DEF CapacityInv

LEMMA CapacityStep ==
  ASSUME NEW k \in Nat, CapacityInv(k), [Next]_vars, Cardinality(Dispatching') <= k + 1
  PROVE  CapacityInv(k)'
<1>1. OwnershipInv /\ OwnershipInv' /\ TypeOK /\ MemoryOK /\ TypeOK'
  BY OwnershipStep DEF CapacityInv, OwnershipInv
<1>2. \A s \in Schedulers : LoopEffect(s)
  BY <1>1, LoopChange
<1>fin. /\ \A w : IsFiniteSet(InFlightOn(w)) /\ IsFiniteSet(Committed(w))
        /\ \A t : IsFiniteSet(InFlightOf(t)) /\ IsFiniteSet(Admitted(t))
  BY Finiteness
<1>fin2. /\ \A w : /\ Cardinality(Committed(w)') \in Nat
                   /\ Cardinality(Committed(w)') <= k + 1
         /\ \A t : /\ Cardinality(Admitted(t)') \in Nat
                   /\ Cardinality(Admitted(t)') <= k + 1
  <2>1. IsFiniteSet(Dispatching') /\ Cardinality(Dispatching') \in Nat
    BY SchedulersAssumption, FS_Subset, FS_CardinalityType DEF Dispatching
  <2>2. \A S : S \subseteq Dispatching' =>
               Cardinality(S) \in Nat /\ Cardinality(S) <= Cardinality(Dispatching')
    BY <2>1, FS_Subset, FS_CardinalityType
  <2>3. (\A w : Committed(w)' \subseteq Dispatching') /\ \A t : Admitted(t)' \subseteq Dispatching'
    BY DEF Committed, Admitted, Dispatching, At
  <2>4. \A n \in Nat : n <= Cardinality(Dispatching') => n <= k + 1
    BY <2>1
  <2> QED BY <2>2, <2>3, <2>4
<1>fin3. (\A w : IsFiniteSet(InFlightOn(w)')) /\ \A t : IsFiniteSet(InFlightOf(t)')
  <2>1. \A S : S \subseteq Jobs => IsFiniteSet(S)
    BY JobsAssumption, FS_Subset
  <2> QED BY <2>1 DEF InFlightOn, InFlightOf
<1>3. ASSUME NEW w \in Workers
      PROVE  Load(w)' + Cardinality(Committed(w)') <= MaxInflight + k
  <2>1. CASE Committed(w)' \subseteq Committed(w)
    <3>1. \/ InFlightOn(w)' \subseteq InFlightOn(w)
          \/ \E j, s : /\ s \in Committed(w)
                       /\ InFlightOn(w)' \subseteq InFlightOn(w) \cup {j}
                       /\ Committed(w)' \subseteq Committed(w) \ {s}
      <4>1. CASE \A j \in Jobs : job'[j].state \in InFlight =>
                   job[j].state \in InFlight /\ job'[j].owner = job[j].owner
        BY <4>1 DEF InFlightOn, Owns
      <4>2. ASSUME NEW s \in Schedulers, At(s, "assign"), ~At(s, "assign")',
                   loop[s].current \in Jobs, job'[loop[s].current].owner = loop[s].target,
                   \A i \in Jobs \ {loop[s].current} : job'[i] = job[i]
            PROVE  \/ InFlightOn(w)' \subseteq InFlightOn(w)
                   \/ /\ s \in Committed(w)
                      /\ InFlightOn(w)' \subseteq InFlightOn(w) \cup {loop[s].current}
                      /\ Committed(w)' \subseteq Committed(w) \ {s}
        <5>1. InFlightOn(w)' \subseteq InFlightOn(w) \cup {loop[s].current}
          BY <4>2 DEF InFlightOn, Owns
        <5>2. loop[s].target # w => InFlightOn(w)' \subseteq InFlightOn(w)
          BY <4>2 DEF InFlightOn, Owns
        <5>3. loop[s].target = w => s \in Committed(w) /\ s \notin Committed(w)'
          BY <4>2 DEF Committed
        <5> QED BY <2>1, <5>1, <5>2, <5>3
      <4> QED BY <1>1, <4>1, <4>2, FlightChange
    <3>2. Cardinality(InFlightOn(w)') + Cardinality(Committed(w)')
            <= Cardinality(InFlightOn(w)) + Cardinality(Committed(w))
      BY <1>fin, <2>1, <3>1, Exchange
    <3>3. /\ Cardinality(InFlightOn(w)) \in Nat /\ Cardinality(InFlightOn(w)') \in Nat
          /\ Cardinality(Committed(w)) \in Nat
      BY <1>fin, <1>fin3, FS_CardinalityType
    <3>4. Cardinality(InFlightOn(w)) + Cardinality(Committed(w)) <= MaxInflight + k
      BY DEF CapacityInv, Load
    <3> QED BY <1>fin2, <3>2, <3>3, <3>4, MaxInflightAssumption DEF Load
  <2>2. ASSUME NEW s \in Committed(w)', s \notin Committed(w)
        PROVE  Load(w)' + Cardinality(Committed(w)') <= MaxInflight + k
    <3>1. s \in Schedulers /\ loop'[s].pc = "assign" /\ loop'[s].target = w /\ loop'[s] # loop[s]
      BY <2>2 DEF Committed, At
    <3>2. w \in Available /\ UNCHANGED job
      BY <1>2, <3>1 DEF LoopEffect
    <3>3. Load(w)' = Load(w) /\ Load(w) < MaxInflight
      BY <3>2 DEF Available, Load, InFlightOn, Owns
    <3>4. Load(w) \in Nat
      BY <1>fin, FS_CardinalityType DEF Load
    <3> QED BY <1>fin2, <3>3, <3>4, MaxInflightAssumption
  <2> QED BY <2>1, <2>2
<1>4. ASSUME NEW t \in Tenants
      PROVE  Cardinality(InFlightOf(t)') + Cardinality(Admitted(t)') <= Quota[t] + k
  <2>1. CASE Admitted(t)' \subseteq Admitted(t)
    <3>1. \/ InFlightOf(t)' \subseteq InFlightOf(t)
          \/ \E j, s : /\ s \in Admitted(t)
                       /\ InFlightOf(t)' \subseteq InFlightOf(t) \cup {j}
                       /\ Admitted(t)' \subseteq Admitted(t) \ {s}
      <4>1. CASE \A j \in Jobs : job'[j].state \in InFlight =>
                   job[j].state \in InFlight /\ job'[j].owner = job[j].owner
        BY <4>1 DEF InFlightOf
      <4>2. ASSUME NEW s \in Schedulers, At(s, "assign"), ~At(s, "assign")', ~At(s, "pick")',
                   loop[s].current \in Jobs,
                   \A i \in Jobs \ {loop[s].current} : job'[i] = job[i]
            PROVE  \/ InFlightOf(t)' \subseteq InFlightOf(t)
                   \/ /\ s \in Admitted(t)
                      /\ InFlightOf(t)' \subseteq InFlightOf(t) \cup {loop[s].current}
                      /\ Admitted(t)' \subseteq Admitted(t) \ {s}
        <5>1. InFlightOf(t)' \subseteq InFlightOf(t) \cup {loop[s].current}
          BY <4>2 DEF InFlightOf
        <5>2. TenantOf[loop[s].current] # t => InFlightOf(t)' \subseteq InFlightOf(t)
          BY <4>2 DEF InFlightOf
        <5>3. TenantOf[loop[s].current] = t => s \in Admitted(t) /\ s \notin Admitted(t)'
          BY <4>2 DEF Admitted, At
        <5> QED BY <2>1, <5>1, <5>2, <5>3
      <4> QED BY <1>1, <4>1, <4>2, FlightChange
    <3>2. Cardinality(InFlightOf(t)') + Cardinality(Admitted(t)')
            <= Cardinality(InFlightOf(t)) + Cardinality(Admitted(t))
      BY <1>fin, <2>1, <3>1, Exchange
    <3>3. /\ Cardinality(InFlightOf(t)) \in Nat /\ Cardinality(InFlightOf(t)') \in Nat
          /\ Cardinality(Admitted(t)) \in Nat
      BY <1>fin, <1>fin3, FS_CardinalityType
    <3>4. Cardinality(InFlightOf(t)) + Cardinality(Admitted(t)) <= Quota[t] + k
      BY DEF CapacityInv
    <3> QED BY <1>fin2, <3>2, <3>3, <3>4, QuotaAssumption
  <2>2. ASSUME NEW s \in Admitted(t)', s \notin Admitted(t)
        PROVE  Cardinality(InFlightOf(t)') + Cardinality(Admitted(t)') <= Quota[t] + k
    <3>1. /\ s \in Schedulers /\ loop'[s].pc \in {"pick", "assign"}
          /\ TenantOf[loop'[s].current] = t
      BY <2>2 DEF Admitted
    <3>2. loop'[s].pc = "pick" /\ loop'[s] # loop[s]
      BY <1>2, <2>2, <3>1 DEF LoopEffect, Admitted, At
    <3>3. Cardinality(InFlightOf(t)) < Quota[t] /\ UNCHANGED job
      BY <1>2, <3>1, <3>2 DEF LoopEffect
    <3>4. InFlightOf(t)' = InFlightOf(t)
      BY <3>3 DEF InFlightOf
    <3>5. Cardinality(InFlightOf(t)) \in Nat
      BY <1>fin, FS_CardinalityType
    <3> QED BY <1>fin2, <3>3, <3>4, <3>5, QuotaAssumption
  <2> QED BY <2>1, <2>2
<1> QED BY <1>1, <1>3, <1>4 DEF CapacityInv

\* Within the bounds, the instances that have passed a check forgotten.
LEMMA CapacityBounds ==
  ASSUME NEW k \in Nat, CapacityInv(k)
  PROVE  /\ \A w \in Workers : Load(w) <= MaxInflight + k
         /\ \A t \in Tenants : Cardinality(InFlightOf(t)) <= Quota[t] + k
<1>1. ASSUME NEW w \in Workers PROVE Load(w) <= MaxInflight + k
  <2>1. Load(w) \in Nat /\ Cardinality(Committed(w)) \in Nat
    BY Finiteness, FS_CardinalityType DEF Load
  <2> QED BY <2>1, MaxInflightAssumption DEF CapacityInv
<1>2. ASSUME NEW t \in Tenants PROVE Cardinality(InFlightOf(t)) <= Quota[t] + k
  <2>1. Cardinality(InFlightOf(t)) \in Nat /\ Cardinality(Admitted(t)) \in Nat
    BY Finiteness, FS_CardinalityType
  <2> QED BY <2>1, QuotaAssumption DEF CapacityInv
<1> QED BY <1>1, <1>2

LEMMA OvershootType ==
  /\ Overshoot \in Nat
  /\ Cardinality(Dispatching') <= Overshoot + 1
<1>1. Cardinality(Schedulers) \in Nat
  BY SchedulersAssumption, FS_CardinalityType
<1>2. Cardinality(Schedulers) # 0
  BY SchedulersAssumption, FS_EmptySet
<1>3. /\ Cardinality(Dispatching') \in Nat
      /\ Cardinality(Dispatching') <= Cardinality(Schedulers)
  BY SchedulersAssumption, FS_Subset, FS_CardinalityType DEF Dispatching
<1> QED BY <1>1, <1>2, <1>3 DEF Overshoot

LEMMA CapacityAlways == Spec => []CapacityInv(Overshoot)
<1>1. Init => CapacityInv(Overshoot)
  BY OvershootType, CapacityInit
<1>2. CapacityInv(Overshoot) /\ [Next]_vars => CapacityInv(Overshoot)'
  <2> SUFFICES ASSUME CapacityInv(Overshoot), [Next]_vars PROVE CapacityInv(Overshoot)'
    OBVIOUS
  <2> QED BY OvershootType, CapacityStep
<1> QED BY <1>1, <1>2, PTL DEF Spec

\* A worker never has more jobs than max_inflight_jobs, but for one per further
\* instance that believes it leads.
THEOREM LoadCorrect == Spec => []LoadBounded
<1>1. CapacityInv(Overshoot) => LoadBounded
  BY OvershootType, CapacityBounds DEF LoadBounded
<1> QED BY CapacityAlways, <1>1, PTL

\* Nor has a tenant more jobs in flight than max_concurrent_jobs.
THEOREM QuotaCorrect == Spec => []QuotaBounded
<1>1. CapacityInv(Overshoot) => QuotaBounded
  BY OvershootType, CapacityBounds DEF QuotaBounded
<1> QED BY CapacityAlways, <1>1, PTL

-----------------------------------------------------------------------------
(* One leader at a time.                                                   *)

\* The bounds the configuration names, without an overshoot.
CapacityExact ==
  /\ \A w \in Workers : Load(w) <= MaxInflight
  /\ \A t \in Tenants : Cardinality(InFlightOf(t)) <= Quota[t]

LEMMA SoleDispatcher ==
  ASSUME CyclesLead', SoleLeader'
  PROVE  Cardinality(Dispatching') <= 0 + 1
<1>1. \A s, t \in Dispatching' : s = t
  BY DEF CyclesLead, SoleLeader, Dispatching, At
<1>2. Dispatching' = {} \/ \E s : Dispatching' = {s}
  BY <1>1
<1>3. Cardinality({}) = 0 /\ \A s : Cardinality({s}) = 1
  BY FS_EmptySet, FS_Singleton
<1>4. Cardinality(Dispatching') = 0 \/ Cardinality(Dispatching') = 1
  BY <1>2, <1>3, Zenon
<1> QED BY <1>4

\* However many instances there are, and whichever of them take over from each other:
\* while no two lead at once, neither bound is missed (scheduler.py 140-180).
THEOREM CapacityCorrect == Spec /\ []SoleLeader => []CapacityExact
<1>1. Init => CapacityInv(0)
  BY CapacityInit
<1>2. CyclesLead' /\ SoleLeader' /\ CapacityInv(0) /\ [Next]_vars => CapacityInv(0)'
  <2> SUFFICES ASSUME CyclesLead', SoleLeader', CapacityInv(0), [Next]_vars
               PROVE  CapacityInv(0)'
    OBVIOUS
  <2> QED BY SoleDispatcher, CapacityStep
<1>3. CapacityInv(0) => CapacityExact
  <2> SUFFICES ASSUME CapacityInv(0) PROVE CapacityExact
    OBVIOUS
  <2> QED BY CapacityBounds, MaxInflightAssumption, QuotaAssumption DEF CapacityExact
<1> QED BY <1>1, <1>2, <1>3, CyclesLeadAlways, PTL DEF Spec
=============================================================================
