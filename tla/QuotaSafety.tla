---------------------------- MODULE QuotaSafety ----------------------------
(***************************************************************************)
(* The scheduler starts no job beyond a limit its tenant has had since the *)
(* cycle began, for any number of tenants and jobs: while the copy of the  *)
(* rows is in use the API may change them, and between the count and the   *)
(* assignment jobs are submitted, cancelled, end and are queued again.     *)
(***************************************************************************)
EXTENDS TenantQuotas, FiniteSetTheorems, TLAPS

-----------------------------------------------------------------------------
(* Types.                                                                  *)

LEMMA InitType == Init => TypeOK
<1> SUFFICES ASSUME Init PROVE TypeOK
  OBVIOUS
<1>1. NoJob \notin Jobs /\ "top" \in Pc /\ 0 \in 0..MaxRequests /\ 0 \in 0..MaxFailures
  BY QuotasAssumption DEF NoJob, Pc
<1>2. \A t \in Tenants : Limit(quota, t) \in Quotas \cup {Default}
  BY DEF Init, Limit
<1> QED
  BY <1>1, <1>2 DEF Init, TypeOK

LEMMA LimitType ==
  ASSUME NEW config \in [Tenants -> Quotas \cup {None}], NEW t \in Tenants
  PROVE  Limit(config, t) \in Quotas \cup {Default} /\ Limit(config, t) \in Nat
<1>1. Limit(config, t) \in Quotas \cup {Default}
  BY DEF Limit
<1> QED
  BY <1>1, QuotasAssumption

LEMMA NextType == TypeOK /\ [Next]_vars => TypeOK'
<1> SUFFICES ASSUME TypeOK, [Next]_vars PROVE TypeOK'
  OBVIOUS
<1>j. NoJob \notin Jobs
  BY QuotasAssumption DEF NoJob
<1>1. ASSUME NEW t \in Tenants, NEW q \in Quotas, SetQuota(t, q)
      PROVE  /\ quota' \in [Tenants -> Quotas \cup {None}]
             /\ inForce' \in [Tenants -> SUBSET (Quotas \cup {Default})]
             /\ UNCHANGED <<job, sched, failures>>
  <2>1. inForce[t] \cup {q} \in SUBSET (Quotas \cup {Default})
    BY DEF TypeOK
  <2> QED
    BY <1>1, <2>1 DEF SetQuota, TypeOK
<1>2. ASSUME NEW t \in Tenants, CreateTenant(t) PROVE TypeOK'
  BY <1>1, <1>2 DEF CreateTenant, TypeOK
<1>3. ASSUME NEW t \in Tenants, UpdateTenant(t) PROVE TypeOK'
  <2>1. requests' \in 0..MaxRequests
    BY <1>3, QuotasAssumption DEF UpdateTenant, TypeOK
  <2> QED
    BY <1>1, <1>3, <2>1 DEF UpdateTenant, TypeOK
<1>4. ASSUME NEW j \in Jobs, SubmitJob(j) \/ FinishJob(j) \/ DelayOver(j) PROVE TypeOK'
  BY <1>4 DEF SubmitJob, FinishJob, DelayOver, TypeOK
<1>5. ASSUME NEW j \in Jobs, CancelJob(j) PROVE TypeOK'
  <2>1. requests' \in 0..MaxRequests
    BY <1>5, QuotasAssumption DEF CancelJob, TypeOK
  <2> QED
    BY <1>5, <2>1 DEF CancelJob, TypeOK
<1>6. ASSUME NEW j \in Jobs, RequeueJob(j) PROVE TypeOK'
  <2>1. failures' \in 0..MaxFailures
    BY <1>6, QuotasAssumption DEF RequeueJob, TypeOK
  <2> QED
    BY <1>6, <2>1 DEF RequeueJob, TypeOK
<1>7. CASE LoadTenantConfigs
  <2>1. inForce' \in [Tenants -> SUBSET (Quotas \cup {Default})]
    BY <1>7, LimitType DEF LoadTenantConfigs, TypeOK
  <2> QED
    BY <1>7, <2>1 DEF LoadTenantConfigs, At, TypeOK, Pc
<1>8. CASE Dequeue
  <2>1. CASE EndCycle
    BY <1>8, <1>j, <2>1 DEF Dequeue, EndCycle, others, TypeOK, Pc
  <2>2. CASE \E j \in Queued : sched' = [sched EXCEPT !.pc = "admit", !.job = j]
    BY <1>8, <1>j, <2>2 DEF Dequeue, Queued, others, TypeOK, Pc
  <2> QED
    BY <1>8, <2>1, <2>2 DEF Dequeue
<1>9. CASE Admit
  BY <1>9, <1>j DEF Admit, At, others, TypeOK, Pc
<1>10. CASE CheckQuota
  <2>1. EndCycle \/ Goto("pick")
    BY <1>10 DEF CheckQuota
  <2> QED
    BY <1>10, <1>j, <2>1 DEF CheckQuota, EndCycle, Goto, At, others, TypeOK, Pc
<1>11. CASE FindWorker
  <2>1. EndCycle \/ Goto("assign")
    BY <1>11 DEF FindWorker
  <2> QED
    BY <1>11, <1>j, <2>1 DEF FindWorker, EndCycle, Goto, At, others, TypeOK, Pc
<1>12. CASE Assign
  <2>1. job' \in [Jobs -> {"none", "delayed", "queued", "inflight", "over"}]
    BY <1>12 DEF Assign, TypeOK
  <2> QED
    BY <1>12, <2>1 DEF Assign, TypeOK, Pc
<1>13. CASE CutOff
  <2>1. failures' \in 0..MaxFailures
    BY <1>13, QuotasAssumption DEF CutOff, TypeOK
  <2> QED
    BY <1>13, <2>1 DEF CutOff, EndCycle, TypeOK, Pc
<1>14. CASE UNCHANGED vars
  BY <1>14 DEF vars, TypeOK
<1> QED
  BY <1>2, <1>3, <1>4, <1>5, <1>6, <1>7, <1>8, <1>9, <1>10, <1>11, <1>12, <1>13, <1>14
  DEF Next, Cycle

\* Every variable keeps its type, and the scheduler holds a job exactly between the
\* dequeue and the end of its handling (scheduler.py 124-170).
THEOREM QuotaTypeCorrect == Spec => []TypeOK
BY InitType, NextType, PTL DEF Spec

-----------------------------------------------------------------------------
(* Admission.                                                              *)

\* The limit in the copy has been in force, and the job that passed the check has a place
\* within it: only the scheduler starts jobs, the others only make room.
CopyInForce == \A t \in Tenants : Limit(sched.config, t) \in inForce[t]

HasPlace ==
  sched.pc \in {"pick", "assign"} =>
    LET t == TenantOf[sched.job]
    IN Cardinality(InFlightOf(t)) < Limit(sched.config, t)

QuotaInv == CopyInForce /\ HasPlace

LEMMA InFlightFinite == \A t : IsFiniteSet(InFlightOf(t)) /\ Cardinality(InFlightOf(t)) \in Nat
<1>1. \A t : InFlightOf(t) \subseteq Jobs
  BY DEF InFlightOf
<1> QED
  BY <1>1, QuotasAssumption, FS_Subset, FS_CardinalityType

\* Every step but an assignment leaves no more of a tenant's jobs in flight.
LEMMA OnlyAssignStarts ==
  ASSUME TypeOK, [Next]_vars, ~Assign
  PROVE  \A t : InFlightOf(t)' \subseteq InFlightOf(t)
<1>1. \A j \in Jobs : job'[j] = "inflight" => job[j] = "inflight"
  <2>1. CASE \E t \in Tenants : CreateTenant(t) \/ UpdateTenant(t)
    BY <2>1 DEF CreateTenant, UpdateTenant, SetQuota
  <2>2. ASSUME NEW j \in Jobs,
               \/ SubmitJob(j) \/ CancelJob(j) \/ FinishJob(j) \/ RequeueJob(j)
               \/ DelayOver(j)
        PROVE  \A i \in Jobs : job'[i] = "inflight" => job[i] = "inflight"
    BY <2>2 DEF SubmitJob, CancelJob, FinishJob, RequeueJob, DelayOver, TypeOK
  <2>3. CASE Cycle \/ CutOff
    BY <2>3 DEF Cycle, LoadTenantConfigs, Dequeue, Admit, CheckQuota, FindWorker, CutOff, others
  <2>4. CASE UNCHANGED vars
    BY <2>4 DEF vars
  <2> QED
    BY <2>1, <2>2, <2>3, <2>4 DEF Next
<1> QED
  BY <1>1 DEF InFlightOf

LEMMA CountShrinks ==
  ASSUME NEW t, InFlightOf(t)' \subseteq InFlightOf(t)
  PROVE  Cardinality(InFlightOf(t)') <= Cardinality(InFlightOf(t))
BY InFlightFinite, FS_Subset

\* An assignment starts one job, of the tenant whose quota was checked.
LEMMA AssignStartsOne ==
  ASSUME TypeOK, Assign, NEW t \in Tenants
  PROVE  IF t = TenantOf[sched.job]
         THEN Cardinality(InFlightOf(t)') <= Cardinality(InFlightOf(t)) + 1
         ELSE InFlightOf(t)' \subseteq InFlightOf(t)
<1>1. \A j \in Jobs : job'[j] = "inflight" => job[j] = "inflight" \/ j = sched.job
  BY DEF Assign, TypeOK
<1>2. InFlightOf(t)' \subseteq InFlightOf(t) \cup {sched.job}
  BY <1>1 DEF InFlightOf
<1>3. CASE t = TenantOf[sched.job]
  <2> DEFINE S == InFlightOf(t) \cup {sched.job}
  <2>1. IsFiniteSet(S) /\ Cardinality(S) <= Cardinality(InFlightOf(t)) + 1
    BY InFlightFinite, FS_AddElement
  <2>2. Cardinality(InFlightOf(t)') <= Cardinality(S)
    BY <1>2, <2>1, FS_Subset
  <2>3. IsFiniteSet(InFlightOf(t)')
    BY <1>2, <2>1, FS_Subset
  <2>4. /\ Cardinality(InFlightOf(t)') \in Nat /\ Cardinality(S) \in Nat
        /\ Cardinality(InFlightOf(t)) \in Nat
    BY <2>1, <2>3, InFlightFinite, FS_CardinalityType
  <2> HIDE DEF S
  <2> QED
    BY <1>3, <2>1, <2>2, <2>4
<1>4. CASE t # TenantOf[sched.job]
  BY <1>1, <1>4 DEF InFlightOf
<1> QED
  BY <1>3, <1>4

LEMMA InitQuota == Init => QuotaInv
BY DEF Init, QuotaInv, CopyInForce, HasPlace

LEMMA NextQuota == TypeOK /\ QuotaInv /\ [Next]_vars => QuotaInv'
<1> SUFFICES ASSUME TypeOK, QuotaInv, [Next]_vars PROVE QuotaInv'
  OBVIOUS
<1>t. \A t \in Tenants : Limit(sched.config, t) \in Nat /\ Cardinality(InFlightOf(t)) \in Nat
  BY LimitType, InFlightFinite DEF TypeOK
<1>k. ASSUME \A t : InFlightOf(t)' \subseteq InFlightOf(t),
             sched'.config = sched.config, sched'.job = sched.job,
             sched'.pc \in {"pick", "assign"}, HasPlace,
             sched.pc \in {"pick", "assign"}
      PROVE  HasPlace'
  <2> DEFINE t == TenantOf[sched.job]
  <2>1. t \in Tenants
    BY <1>k, QuotasAssumption DEF TypeOK
  <2>2. Cardinality(InFlightOf(t)') <= Cardinality(InFlightOf(t))
    BY <1>k, CountShrinks
  <2>3. Cardinality(InFlightOf(t)') \in Nat
    <3>1. IsFiniteSet(InFlightOf(t)')
      BY <1>k, InFlightFinite, FS_Subset
    <3> QED
      BY <3>1, FS_CardinalityType
  <2>4. Cardinality(InFlightOf(t)) < Limit(sched.config, t)
    BY <1>k DEF HasPlace
  <2>5. Cardinality(InFlightOf(t)') < Limit(sched.config, t)
    BY <1>t, <2>1, <2>2, <2>3, <2>4
  <2> QED
    BY <1>k, <2>5 DEF HasPlace, Limit, InFlightOf
<1>1. ASSUME UNCHANGED sched, \A t : InFlightOf(t)' \subseteq InFlightOf(t) PROVE HasPlace'
  BY <1>1, <1>k DEF QuotaInv, HasPlace
<1>2. ASSUME NEW t \in Tenants, CreateTenant(t) \/ UpdateTenant(t) PROVE QuotaInv'
  <2>1. UNCHANGED <<sched, job>> /\ \A u \in Tenants : inForce[u] \subseteq inForce'[u]
    BY <1>2 DEF CreateTenant, UpdateTenant, SetQuota, TypeOK
  <2>2. \A u : InFlightOf(u)' = InFlightOf(u)
    BY <2>1 DEF InFlightOf
  <2> QED
    BY <1>1, <2>1, <2>2 DEF QuotaInv, CopyInForce, Limit
<1>3. ASSUME NEW j \in Jobs,
             \/ SubmitJob(j) \/ CancelJob(j) \/ FinishJob(j) \/ RequeueJob(j)
             \/ DelayOver(j)
      PROVE  QuotaInv'
  <2>1. UNCHANGED <<sched, inForce>> /\ ~Assign
    BY <1>3 DEF SubmitJob, CancelJob, FinishJob, RequeueJob, DelayOver, Assign, TypeOK
  <2> QED
    BY <1>1, <2>1, OnlyAssignStarts DEF QuotaInv, CopyInForce, Limit
<1>4. CASE LoadTenantConfigs
  <2>1. /\ sched'.config = quota /\ sched'.pc = "dequeue"
        /\ \A t \in Tenants : inForce'[t] = {Limit(quota, t)}
    BY <1>4 DEF LoadTenantConfigs, TypeOK
  <2> QED
    BY <2>1 DEF QuotaInv, CopyInForce, HasPlace, Limit
<1>5. ASSUME UNCHANGED inForce, sched'.config = sched.config PROVE CopyInForce'
  BY <1>5 DEF QuotaInv, CopyInForce, Limit
<1>6. CASE Dequeue \/ Admit \/ Assign \/ CutOff
  <2>1. UNCHANGED inForce /\ sched'.config = sched.config /\ sched'.pc \notin {"pick", "assign"}
    <3>1. CASE Dequeue
      BY <3>1 DEF Dequeue, EndCycle, others, TypeOK
    <3>2. CASE Admit
      BY <3>2 DEF Admit, others, TypeOK
    <3>3. CASE Assign
      BY <3>3 DEF Assign, TypeOK
    <3>4. CASE CutOff
      BY <3>4 DEF CutOff, EndCycle, TypeOK
    <3> QED
      BY <1>6, <3>1, <3>2, <3>3, <3>4
  <2> QED
    BY <1>5, <2>1 DEF QuotaInv, HasPlace
<1>7. CASE CheckQuota
  <2> DEFINE t == TenantOf[sched.job]
  <2>1. /\ UNCHANGED <<inForce, job>>
        /\ sched'.config = sched.config
        /\ sched'.pc = "pick" =>
             /\ sched'.job = sched.job
             /\ ~(Cardinality(InFlightOf(t)) >= Limit(sched.config, t))
        /\ sched'.pc # "assign"
    BY <1>7 DEF CheckQuota, EndCycle, Goto, Running, others, TypeOK
  <2>2. t \in Tenants
    BY <1>7, QuotasAssumption DEF CheckQuota, At, TypeOK
  <2>3. sched'.pc = "pick" => Cardinality(InFlightOf(t)) < Limit(sched.config, t)
    BY <1>t, <2>1, <2>2
  <2>4. HasPlace'
    <3>1. CASE sched'.pc = "pick"
      <4>1. sched'.job = sched.job /\ UNCHANGED job /\ sched'.config = sched.config
        BY <2>1, <3>1
      <4>2. InFlightOf(t)' = InFlightOf(t)
        BY <4>1 DEF InFlightOf
      <4>3. Cardinality(InFlightOf(t)') < Limit(sched.config, t)
        BY <2>3, <3>1, <4>2
      <4> QED
        BY <4>1, <4>3 DEF HasPlace, Limit, InFlightOf
    <3> QED
      BY <2>1, <3>1 DEF HasPlace
  <2> QED
    BY <1>5, <2>1, <2>4 DEF QuotaInv
<1>8. CASE FindWorker
  <2>1. /\ UNCHANGED <<inForce, job>> /\ sched.pc = "pick" /\ sched'.config = sched.config
        /\ \/ sched'.pc = "top"
           \/ sched'.pc = "assign" /\ sched'.job = sched.job
    BY <1>8 DEF FindWorker, At, EndCycle, Goto, others, TypeOK
  <2>2. \A t : InFlightOf(t)' = InFlightOf(t)
    BY <2>1 DEF InFlightOf
  <2>3. CASE sched'.pc = "top"
    BY <1>5, <2>1, <2>3 DEF QuotaInv, HasPlace
  <2>4. CASE sched'.pc = "assign" /\ sched'.job = sched.job
    BY <1>5, <1>k, <2>1, <2>2, <2>4 DEF QuotaInv
  <2> QED
    BY <2>1, <2>3, <2>4
<1>9. CASE UNCHANGED vars
  <2>1. UNCHANGED <<sched, job, inForce>>
    BY <1>9 DEF vars
  <2>2. \A t : InFlightOf(t)' = InFlightOf(t)
    BY <2>1 DEF InFlightOf
  <2> QED
    BY <1>1, <1>5, <2>1, <2>2 DEF QuotaInv
<1> QED
  BY <1>2, <1>3, <1>4, <1>6, <1>7, <1>8, <1>9 DEF Next, Cycle

LEMMA QuotaAlways == Spec => [](TypeOK /\ QuotaInv)
<1>1. Init => TypeOK /\ QuotaInv
  BY InitType, InitQuota
<1>2. TypeOK /\ QuotaInv /\ [Next]_vars => (TypeOK /\ QuotaInv)'
  BY NextType, NextQuota
<1> QED
  BY <1>1, <1>2, PTL DEF Spec

\* A job is only started within a limit its tenant has had since the cycle began
\* (scheduler.py 126, 140-163; admin.py 108-118).
THEOREM QuotaCorrect == Spec => StartedWithinQuota
<1> DEFINE A == \A t \in Tenants : Cardinality(InFlightOf(t)') > Cardinality(InFlightOf(t)) =>
                  \E q \in inForce[t] : Cardinality(InFlightOf(t)') <= q
<1>1. TypeOK /\ QuotaInv /\ [Next]_vars => [A]_vars
  <2> SUFFICES ASSUME TypeOK, QuotaInv, [Next]_vars, NEW t \in Tenants,
                      Cardinality(InFlightOf(t)') > Cardinality(InFlightOf(t))
               PROVE  \E q \in inForce[t] : Cardinality(InFlightOf(t)') <= q
    OBVIOUS
  <2>1. ~(InFlightOf(t)' \subseteq InFlightOf(t))
    <3>1. SUFFICES ASSUME InFlightOf(t)' \subseteq InFlightOf(t) PROVE FALSE
      OBVIOUS
    <3>2. IsFiniteSet(InFlightOf(t)') /\ Cardinality(InFlightOf(t)') <= Cardinality(InFlightOf(t))
      BY <3>1, InFlightFinite, FS_Subset
    <3> QED
      BY <3>2, InFlightFinite, FS_CardinalityType
  <2>2. Assign
    BY <2>1, OnlyAssignStarts
  <2>3. t = TenantOf[sched.job] /\ Cardinality(InFlightOf(t)') <= Cardinality(InFlightOf(t)) + 1
    BY <2>1, <2>2, AssignStartsOne
  <2>4. Cardinality(InFlightOf(t)) < Limit(sched.config, t)
    BY <2>2, <2>3 DEF Assign, At, QuotaInv, HasPlace
  <2>5. Limit(sched.config, t) \in inForce[t] /\ Limit(sched.config, t) \in Nat
    BY LimitType DEF QuotaInv, CopyInForce, TypeOK
  <2>6. Cardinality(InFlightOf(t)) \in Nat /\ Cardinality(InFlightOf(t)') \in Nat
    <3>1. InFlightOf(t)' \subseteq Jobs
      BY DEF InFlightOf
    <3>2. IsFiniteSet(InFlightOf(t)')
      BY <3>1, QuotasAssumption, FS_Subset
    <3> QED
      BY <3>2, InFlightFinite, FS_CardinalityType
  <2>7. Cardinality(InFlightOf(t)') <= Limit(sched.config, t)
    BY <2>3, <2>4, <2>5, <2>6
  <2> QED
    BY <2>5, <2>7
<1> QED
  BY <1>1, QuotaAlways, PTL DEF Spec, StartedWithinQuota
============================================================================
