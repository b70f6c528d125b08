----------------------- MODULE LeaderElectionSafety -----------------------
(***************************************************************************)
(* The clocked election implements the lease the other modules rely on,    *)
(* and keeps two instances from leading at once if turns are short.        *)
(***************************************************************************)
EXTENDS LeaderElection, FiniteSetTheorems, TLAPS

Acquiring(s) == inst[s].pc \in {"look", "create", "claim"}

\* What the place of an instance in its turn says of leading and of the row.
PlaceOf(s) ==
  /\ Acquiring(s) \/ At(s, "killed") => s \notin leading
  /\ At(s, "renew") => s \in leading
  /\ At(s, "claim") => holder # NoHolder

PlaceInv == TypeOK /\ \A s \in Schedulers : PlaceOf(s)

-----------------------------------------------------------------------------
LEMMA InitPlace == Init => PlaceInv
  BY ElectionAssumption DEF Init, PlaceInv, PlaceOf, Acquiring, At, TypeOK, Instance, Pc, Fresh

LEMMA OlderNat == \A a \in Nat : Older(a) \in Nat /\ Older(a) >= a /\ Older(a) <= a + 1
  BY DEF Older

\* Every action leaves the types and the places right.
LEMMA NextPlace == PlaceInv /\ [Next]_vars => PlaceInv'
<1> SUFFICES ASSUME PlaceInv, [Next]_vars PROVE PlaceInv'
  OBVIOUS
<1>0. faults' = faults
  BY DEF Next, vars
<1> USE <1>0, ElectionAssumption DEF PlaceInv, PlaceOf, Acquiring, At, TypeOK, Instance, Pc
<1>1. CASE Tick
  BY <1>1, OlderNat DEF Tick
<1>2. ASSUME NEW s \in Schedulers, BeginAcquire(s) PROVE PlaceInv'
  BY <1>2 DEF BeginAcquire, ReadClock
<1>3. ASSUME NEW s \in Schedulers, Look(s) PROVE PlaceInv'
  BY <1>3 DEF Look, Goto
<1>4. ASSUME NEW s \in Schedulers, Create(s) PROVE PlaceInv'
  <2>1. CASE Take(s)
    BY <1>4, <2>1 DEF Create, Take, Goto
  <2>2. CASE Fail(s)
    BY <1>4, <2>2 DEF Create, Fail, Goto
  <2> QED
    BY <1>4, <2>1, <2>2 DEF Create
<1>5. ASSUME NEW s \in Schedulers, Claim(s) PROVE PlaceInv'
  <2>1. CASE Take(s)
    BY <1>5, <2>1 DEF Claim, Take, Goto
  <2>2. CASE Fail(s)
    BY <1>5, <2>2 DEF Claim, Fail, Goto
  <2> QED
    BY <1>5, <2>1, <2>2 DEF Claim
<1>6. ASSUME NEW s \in Schedulers, BeginRenewal(s) PROVE PlaceInv'
  BY <1>6 DEF BeginRenewal
<1>7. ASSUME NEW s \in Schedulers, Renew(s) PROVE PlaceInv'
  BY <1>7 DEF Renew, Goto
<1>8. ASSUME NEW s \in Schedulers, BeginCycle(s) PROVE PlaceInv'
  BY <1>8 DEF BeginCycle
<1>9. ASSUME NEW s \in Schedulers, EndCycle(s) PROVE PlaceInv'
  BY <1>9 DEF EndCycle, Fail, Goto
<1>10. ASSUME NEW s \in Schedulers, Wake(s) PROVE PlaceInv'
  BY <1>10 DEF Wake
<1>11. ASSUME NEW s \in Schedulers, Error(s) PROVE PlaceInv'
  BY <1>11 DEF Error, Fail, Goto
<1>12. ASSUME NEW s \in Schedulers, Die(s) PROVE PlaceInv'
  BY <1>12 DEF Die, Fresh
<1>13. CASE UNCHANGED vars
  BY <1>13 DEF vars
<1> QED
  BY <1>1, <1>2, <1>3, <1>4, <1>5, <1>6, <1>7, <1>8, <1>9, <1>10, <1>11, <1>12, <1>13
  DEF Next, Step

LEMMA PlaceAlways == Spec => []PlaceInv
  BY InitPlace, NextPlace, PTL DEF Spec

\* Every variable of the election keeps its type (leader.py, scheduler.py 44-68).
THEOREM ElectionTypeCorrect == Spec => []TypeOK
  BY PlaceAlways, PTL DEF PlaceInv

-----------------------------------------------------------------------------
(* The refinement.                                                         *)

LEMMA StepIsLeaseStep == PlaceInv /\ [Next]_vars => [Lease!LeaseNext]_(Lease!leaseVars)
<1> SUFFICES ASSUME PlaceInv, [Next]_vars PROVE [Lease!LeaseNext]_(Lease!leaseVars)
  OBVIOUS
<1> DEFINE Abs == Lease!LeaseNext \/ UNCHANGED Lease!leaseVars
<1> USE ElectionAssumption DEF PlaceInv, PlaceOf, Acquiring, At, TypeOK, Instance, Pc, Lease!leaseVars
<1>1. CASE Tick
  <2>1. UNCHANGED <<holder, leading>> /\ \A s \in Schedulers : inst'[s].pc = inst[s].pc
    BY <1>1 DEF Tick
  <2> HIDE DEF PlaceInv, PlaceOf
  <2>0. age \in Nat
    BY DEF PlaceInv
  <2>6. age' = IF holder = NoHolder THEN age ELSE Older(age)
    BY <1>1 DEF Tick
  <2>2. age' \in Nat /\ age' >= age /\ (holder = NoHolder => age' = age)
    BY <2>0, <2>6, OlderNat
  <2>3. (age > TTL) => (age' > TTL)
    BY <2>0, <2>2
  <2>4. CASE (age' > TTL) = (age > TTL)
    BY <2>1, <2>4
  <2>5. CASE ~(age > TTL) /\ age' > TTL
    BY <2>1, <2>2, <2>5 DEF Lease!LeaseNext, Lease!LeaseExpires
  <2> QED
    BY <2>3, <2>4, <2>5
<1>2. ASSUME NEW s \in Schedulers, BeginAcquire(s) PROVE Abs
  BY <1>2 DEF BeginAcquire, ReadClock
<1>3. ASSUME NEW s \in Schedulers, Look(s) PROVE Abs
  <2>1. CASE holder = NoHolder
    <3>1. {t \in Schedulers : inst'[t].pc = "create"}
            = {t \in Schedulers : inst[t].pc = "create"} \cup {s}
      BY <1>3, <2>1 DEF Look, Goto
    <3>2. Lease!NoRowFound(s)
      BY <1>3, <2>1, <3>1 DEF Look, Lease!NoRowFound
    <3> QED
      BY <3>2 DEF Lease!LeaseNext
  <2>2. CASE holder # NoHolder
    BY <1>3, <2>2 DEF Look, Goto
  <2> QED
    BY <2>1, <2>2
<1>4. ASSUME NEW s \in Schedulers, Create(s) PROVE Abs
  <2>1. {t \in Schedulers : inst'[t].pc = "create"}
          = {t \in Schedulers : inst[t].pc = "create"} \ {s}
    BY <1>4 DEF Create, Take, Fail, Goto
  <2>2. Lease!CreateLease(s)
    BY <1>4, <2>1 DEF Create, Take, Fail, Lease!CreateLease
  <2> QED
    BY <2>2 DEF Lease!LeaseNext
<1>5. ASSUME NEW s \in Schedulers, Claim(s) PROVE Abs
  <2>1. {t \in Schedulers : inst'[t].pc = "create"} = {t \in Schedulers : inst[t].pc = "create"}
    BY <1>5 DEF Claim, Take, Fail, Goto
  <2>2. CASE holder = s \/ Late(s)
    <3>1. holder = s \/ age > TTL
      BY <2>2 DEF Late
    <3>2. Lease!ClaimLease(s)
      BY <1>5, <2>1, <2>2, <3>1 DEF Claim, Take, Lease!ClaimLease
    <3> QED
      BY <3>2 DEF Lease!LeaseNext
  <2>3. CASE ~(holder = s \/ Late(s))
    BY <1>5, <2>1, <2>3 DEF Claim, Fail
  <2> QED
    BY <2>2, <2>3
<1>6. ASSUME NEW s \in Schedulers, BeginRenewal(s) PROVE Abs
  BY <1>6 DEF BeginRenewal
<1>7. ASSUME NEW s \in Schedulers, Renew(s) PROVE Abs
  <2>1. {t \in Schedulers : inst'[t].pc = "create"} = {t \in Schedulers : inst[t].pc = "create"}
    BY <1>7 DEF Renew, Goto
  <2>2. Lease!RenewLease(s)
    BY <1>7, <2>1 DEF Renew, Lease!RenewLease
  <2> QED
    BY <2>2 DEF Lease!LeaseNext
<1>8. ASSUME NEW s \in Schedulers, BeginCycle(s) PROVE Abs
  BY <1>8 DEF BeginCycle
<1>9. ASSUME NEW s \in Schedulers, EndCycle(s) PROVE Abs
  BY <1>9 DEF EndCycle, Fail, Goto
<1>10. ASSUME NEW s \in Schedulers, Wake(s) PROVE Abs
  BY <1>10 DEF Wake
<1>11. ASSUME NEW s \in Schedulers, Error(s) PROVE Abs
  BY <1>11 DEF Error, Fail, Goto
<1>12. ASSUME NEW s \in Schedulers, Die(s) PROVE Abs
  <2>1. {t \in Schedulers : inst'[t].pc = "create"}
          = {t \in Schedulers : inst[t].pc = "create"} \ {s}
    BY <1>12 DEF Die, Fresh
  <2>2. Lease!ForgetLease(s)
    BY <1>12, <2>1 DEF Die, Lease!ForgetLease
  <2> QED
    BY <2>2 DEF Lease!LeaseNext
<1>13. CASE UNCHANGED vars
  BY <1>13 DEF vars
<1> QED
  BY <1>1, <1>2, <1>3, <1>4, <1>5, <1>6, <1>7, <1>8, <1>9, <1>10, <1>11, <1>12, <1>13
  DEF Next, Step

\* The election is an implementation of Leadership: creating, claiming, renewing and
\* losing the lease as Scheduler and PeriodicTasks assume it, whatever the clocks and
\* the faults do (leader.py 35-91).
THEOREM LeaseCorrect == Spec => LeaseSpec
<1>1. Init => Lease!LeaseInit
  BY ElectionAssumption DEF Init, Fresh, At, Lease!LeaseInit
<1> QED
  BY <1>1, StepIsLeaseStep, PlaceAlways, PTL DEF Spec, LeaseSpec, Lease!LeaseSpec

-----------------------------------------------------------------------------
(* One leader.                                                             *)

\* How old the lease of a leader can be, as it has counted c turns since.
AgeBound(s, c) == age <= c * Turn + inst[s].turn

Punctual(s) ==
  /\ ~At(s, "killed") => inst[s].turn <= Turn
  /\ inst[s].pc \in {"look", "create", "claim", "renew"} => inst[s].stamp <= inst[s].turn
  /\ inst[s].count < Renewals
  /\ s \in leading /\ inst[s].pc \in {"cycle", "sleep"} => AgeBound(s, inst[s].count)
  /\ s \in leading /\ At(s, "top") => AgeBound(s, inst[s].count + 1)
  /\ At(s, "renew") => AgeBound(s, Renewals)

ExclusiveInv ==
  /\ PlaceInv
  /\ leading \subseteq {holder}
  /\ \A s \in Schedulers : Punctual(s)

LEMMA Times ==
  ASSUME NEW a \in Nat, NEW b \in Nat
  PROVE  /\ a * Turn \in Nat /\ (a + 1) * Turn = a * Turn + Turn
         /\ a <= b => a * Turn <= b * Turn
  BY ElectionAssumption

LEMMA InitExclusive == Init => ExclusiveInv
  BY InitPlace, ElectionAssumption DEF Init, ExclusiveInv, Punctual, At, Fresh

\* A leader's lease has not run out.
LEMMA LeaseAlive ==
  ASSUME Timely, ExclusiveInv, NEW s \in leading
  PROVE  age <= TTL
<1>1. s \in Schedulers /\ age \in Nat /\ inst[s] \in Instance /\ PlaceOf(s) /\ Punctual(s)
  BY DEF ExclusiveInv, PlaceInv, TypeOK
<1>2. inst[s].pc \in {"cycle", "sleep", "top", "renew"} /\ inst[s].turn <= Turn
  BY <1>1 DEF Instance, Pc, PlaceOf, Acquiring, At, Punctual
<1>3. \E c \in Nat : c <= Renewals /\ AgeBound(s, c)
  BY <1>1, <1>2, ElectionAssumption DEF Punctual, At, Instance
<1>4. PICK c \in Nat : c <= Renewals /\ AgeBound(s, c)
  BY <1>3
<1>5. age <= c * Turn + Turn
  BY <1>1, <1>2, <1>4, Times, ElectionAssumption DEF AgeBound, Instance
<1>6. c * Turn + Turn <= (Renewals + 1) * Turn
  BY <1>4, Times, ElectionAssumption
<1> QED
  BY <1>1, <1>4, <1>5, <1>6, Times, ElectionAssumption DEF Timely

\* An instance that takes no step stays punctual if its lease, where it has one, is
\* left alone.
LEMMA OthersPunctual ==
  ASSUME NEW t \in Schedulers, Punctual(t), inst'[t] = inst[t],
         t \in leading' \/ At(t, "renew") => t \in leading /\ age' = age
  PROVE  Punctual(t)'
  BY DEF Punctual, At, AgeBound

LEMMA TickPunctual ==
  ASSUME Timely, ExclusiveInv, Tick, NEW s \in Schedulers
  PROVE  Punctual(s)'
<1>1. inst[s] \in Instance /\ Punctual(s) /\ age \in Nat
  BY DEF ExclusiveInv, PlaceInv, TypeOK
<1>2. age' = age \/ age' = Older(age)
  BY DEF Tick
<1>3. /\ inst'[s].pc = inst[s].pc /\ inst'[s].count = inst[s].count
      /\ inst'[s].turn = Older(inst[s].turn) /\ inst'[s].stamp = Older(inst[s].stamp)
  BY <1>1 DEF Tick, Instance
<1>4. ~At(s, "killed") => inst[s].turn < Turn
  BY DEF Tick, Timely
<1>5. ~At(s, "killed") => inst'[s].turn = inst[s].turn + 1
  BY <1>1, <1>3, <1>4, ElectionAssumption DEF Older, Oldest, Instance
<1>6. age' <= age + 1 /\ age' \in Nat
  BY <1>1, <1>2, OlderNat
<1>7. inst[s].stamp <= inst[s].turn => inst'[s].stamp <= inst'[s].turn
  BY <1>1, <1>3, ElectionAssumption DEF Older, Oldest, Instance
<1>8. ASSUME NEW c \in Nat, AgeBound(s, c), ~At(s, "killed") PROVE AgeBound(s, c)'
  BY <1>1, <1>5, <1>6, <1>8, Times DEF AgeBound, Instance
<1>9. inst[s].count \in Nat /\ inst[s].count + 1 \in Nat /\ Renewals \in Nat
  BY <1>1, ElectionAssumption DEF Instance
<1>10. leading' = leading
  BY DEF Tick
<1>11. ~At(s, "killed") => inst'[s].turn <= Turn
  <2>1. inst[s].turn \in Nat /\ Turn \in Nat
    BY <1>1, ElectionAssumption DEF Instance
  <2> QED
    BY <2>1, <1>4, <1>5
<1> QED
  BY <1>1, <1>3, <1>7, <1>8, <1>9, <1>10, <1>11 DEF Punctual, At, Instance

\* Who takes the lease finds nobody else in the lead.
LEMMA TakePunctual ==
  ASSUME ExclusiveInv, NEW s \in Schedulers, Take(s), leading \subseteq {s},
         inst[s].pc \in {"create", "claim"}
  PROVE  leading' \subseteq {holder'} /\ \A t \in Schedulers : Punctual(t)'
<1> USE DEF ExclusiveInv
<1>1. inst[s] \in Instance /\ Punctual(s) /\ inst \in [Schedulers -> Instance]
  BY DEF PlaceInv, TypeOK
<1>2. /\ leading' = {s} /\ holder' = s /\ age' = inst[s].stamp
      /\ inst' = [inst EXCEPT ![s].pc = "cycle"]
  BY DEF Take, Goto
<1>3. inst[s].count * Turn \in Nat
  BY <1>1, Times DEF Instance
<1>4. /\ inst'[s].pc = "cycle" /\ inst'[s].turn = inst[s].turn /\ inst'[s].stamp = inst[s].stamp
      /\ inst'[s].count = inst[s].count
  BY <1>1, <1>2 DEF Instance
<1>5. Punctual(s)'
  BY <1>1, <1>2, <1>3, <1>4 DEF Punctual, At, AgeBound, Instance
<1>6. ASSUME NEW t \in Schedulers \ {s} PROVE Punctual(t)'
  <2>1. inst'[t] = inst[t] /\ Punctual(t) /\ PlaceOf(t)
    BY <1>1, <1>2 DEF PlaceInv
  <2>2. t \notin leading' /\ ~At(t, "renew")
    BY <1>2, <2>1 DEF PlaceOf
  <2> QED
    BY <2>1, <2>2, OthersPunctual
<1> QED
  BY <1>2, <1>5, <1>6

\* A step of one instance that leaves the lease alone and gives nobody the lead.
LEMMA StepPunctual ==
  ASSUME ExclusiveInv, NEW s \in Schedulers, UNCHANGED <<holder, age>>,
         leading' \subseteq leading, \A t \in Schedulers \ {s} : inst'[t] = inst[t],
         Punctual(s)', \A t \in Schedulers : PlaceOf(t)
  PROVE  leading' \subseteq {holder'} /\ \A t \in Schedulers : Punctual(t)'
<1> USE DEF ExclusiveInv
<1>1. ASSUME NEW t \in Schedulers \ {s} PROVE Punctual(t)'
  BY OthersPunctual DEF PlaceOf
<1> QED
  BY <1>1

LEMMA NextExclusive == Timely /\ ExclusiveInv /\ [Next]_vars => ExclusiveInv'
<1> SUFFICES ASSUME Timely, ExclusiveInv, [Next]_vars PROVE ExclusiveInv'
  OBVIOUS
<1> DEFINE Goal == leading' \subseteq {holder'} /\ \A t \in Schedulers : Punctual(t)'
<1>0. SUFFICES Goal
  BY NextPlace DEF ExclusiveInv
<1>a. /\ inst \in [Schedulers -> Instance] /\ leading \subseteq Schedulers
      /\ \A s \in Schedulers : inst[s] \in Instance /\ Punctual(s) /\ PlaceOf(s)
      /\ leading \subseteq {holder}
  BY DEF ExclusiveInv, PlaceInv, TypeOK
<1> HIDE DEF Goal
<1>1. CASE Tick
  BY <1>1, <1>a, TickPunctual DEF Tick, Goal
<1>2. ASSUME NEW s \in Schedulers, BeginAcquire(s) PROVE Goal
  <2>1. /\ inst'[s].pc = "look" /\ inst'[s].stamp = 0 /\ inst'[s].turn = inst[s].turn
        /\ inst'[s].count = inst[s].count /\ \A t \in Schedulers \ {s} : inst'[t] = inst[t]
    BY <1>2, <1>a DEF BeginAcquire, ReadClock, Instance
  <2>2. Punctual(s)'
    BY <1>2, <1>a, <2>1 DEF BeginAcquire, Punctual, At, Instance
  <2> QED
    BY <1>2, <1>a, <2>1, <2>2, StepPunctual DEF BeginAcquire, Goal
<1>3. ASSUME NEW s \in Schedulers, Look(s) PROVE Goal
  <2>1. /\ inst'[s].pc \in {"create", "claim"} /\ inst'[s].stamp = inst[s].stamp
        /\ inst'[s].turn = inst[s].turn /\ inst'[s].count = inst[s].count
        /\ \A t \in Schedulers \ {s} : inst'[t] = inst[t]
    BY <1>3, <1>a DEF Look, Goto, Instance
  <2>2. Punctual(s)'
    BY <1>3, <1>a, <2>1 DEF Look, Punctual, At, Instance
  <2> QED
    BY <1>3, <1>a, <2>1, <2>2, StepPunctual DEF Look, Goal
<1>f. ASSUME NEW s \in Schedulers, Fail(s), s \in leading => At(s, "cycle"), ~At(s, "killed")
      PROVE Goal
  <2>1. /\ inst'[s].pc = "sleep" /\ inst'[s].stamp = inst[s].stamp
        /\ inst'[s].turn = inst[s].turn /\ inst'[s].count = inst[s].count
        /\ \A t \in Schedulers \ {s} : inst'[t] = inst[t]
    BY <1>f, <1>a DEF Fail, Goto, Instance
  <2>2. Punctual(s)'
    BY <1>f, <1>a, <2>1 DEF Fail, Punctual, At, AgeBound, Instance
  <2> QED
    BY <1>f, <1>a, <2>1, <2>2, StepPunctual DEF Fail, Goal
<1>4. ASSUME NEW s \in Schedulers, Create(s) PROVE Goal
  <2>1. CASE holder = NoHolder
    <3>1. leading = {}
      BY <1>a, <2>1, ElectionAssumption
    <3> QED
      BY <1>4, <2>1, <3>1, TakePunctual DEF Create, At, Goal
  <2>2. CASE holder # NoHolder
    BY <1>4, <1>a, <1>f, <2>2 DEF Create, PlaceOf, Acquiring, At
  <2> QED
    BY <2>1, <2>2
<1>5. ASSUME NEW s \in Schedulers, Claim(s) PROVE Goal
  <2>1. CASE holder = s \/ Late(s)
    <3>1. CASE holder = s
      BY <1>5, <1>a, <3>1, TakePunctual DEF Claim, At, Goal
    <3>2. CASE Late(s)
      <4>1. age > TTL
        BY <1>a, <3>2, ElectionAssumption DEF Late, Instance, ExclusiveInv, PlaceInv, TypeOK
      <4>2. leading = {}
        BY <4>1, LeaseAlive, ElectionAssumption DEF ExclusiveInv, PlaceInv, TypeOK
      <4> QED
        BY <1>5, <3>2, <4>2, TakePunctual DEF Claim, At, Goal
    <3> QED
      BY <2>1, <3>1, <3>2
  <2>2. CASE ~(holder = s \/ Late(s))
    BY <1>5, <1>a, <1>f, <2>2 DEF Claim, PlaceOf, Acquiring, At
  <2> QED
    BY <2>1, <2>2
<1>6. ASSUME NEW s \in Schedulers, BeginRenewal(s) PROVE Goal
  <2>1. /\ inst'[s].pc = "renew" /\ inst'[s].stamp = 0 /\ inst'[s].turn = inst[s].turn
        /\ inst'[s].count = 0 /\ \A t \in Schedulers \ {s} : inst'[t] = inst[t]
    BY <1>6, <1>a DEF BeginRenewal, Instance
  <2>2. inst[s].count + 1 = Renewals
    BY <1>6, <1>a, ElectionAssumption DEF BeginRenewal, Punctual, Instance
  <2>3. AgeBound(s, Renewals)
    BY <1>6, <1>a, <2>2 DEF BeginRenewal, Punctual
  <2>4. Punctual(s)'
    BY <1>6, <1>a, <2>1, <2>3, ElectionAssumption DEF BeginRenewal, Punctual, At, AgeBound, Instance
  <2> QED
    BY <1>6, <1>a, <2>1, <2>4, StepPunctual DEF BeginRenewal, Goal
<1>7. ASSUME NEW s \in Schedulers, Renew(s) PROVE Goal
  <2>1. s \in leading /\ holder = s
    BY <1>7, <1>a DEF Renew, PlaceOf
  <2>2. /\ inst'[s].pc = "cycle" /\ inst'[s].stamp = inst[s].stamp /\ inst'[s].turn = inst[s].turn
        /\ inst'[s].count = inst[s].count /\ \A t \in Schedulers \ {s} : inst'[t] = inst[t]
        /\ UNCHANGED <<holder, leading>> /\ age' = inst[s].stamp
    BY <1>7, <1>a, <2>1 DEF Renew, Goto, Instance
  <2>3. inst[s].count * Turn \in Nat
    BY <1>a, Times DEF Instance
  <2>4. Punctual(s)'
    BY <1>7, <1>a, <2>2, <2>3 DEF Renew, Punctual, At, AgeBound, Instance
  <2>5. ASSUME NEW t \in Schedulers \ {s} PROVE Punctual(t)'
    <3>1. t \notin leading' /\ ~At(t, "renew")
      BY <1>a, <2>1, <2>2 DEF PlaceOf
    <3> QED
      BY <1>a, <2>2, <3>1, OthersPunctual
  <2> QED
    BY <1>a, <2>2, <2>4, <2>5 DEF Goal
<1>8. ASSUME NEW s \in Schedulers, BeginCycle(s) PROVE Goal
  <2>1. /\ inst'[s].pc = "cycle" /\ inst'[s].stamp = inst[s].stamp /\ inst'[s].turn = inst[s].turn
        /\ inst'[s].count = inst[s].count + 1 /\ \A t \in Schedulers \ {s} : inst'[t] = inst[t]
    BY <1>8, <1>a DEF BeginCycle, Instance
  <2>2. AgeBound(s, inst[s].count + 1)
    BY <1>8, <1>a DEF BeginCycle, Punctual
  <2>3. Punctual(s)'
    BY <1>8, <1>a, <2>1, <2>2 DEF BeginCycle, Punctual, At, AgeBound, Instance
  <2> QED
    BY <1>8, <1>a, <2>1, <2>3, StepPunctual DEF BeginCycle, Goal
<1>9. ASSUME NEW s \in Schedulers, EndCycle(s) PROVE Goal
  BY <1>9, <1>f DEF EndCycle, At
<1>10. ASSUME NEW s \in Schedulers, Wake(s) PROVE Goal
  <2>1. /\ inst'[s].pc = "top" /\ inst'[s].stamp = inst[s].stamp /\ inst'[s].turn = 0
        /\ inst'[s].count = inst[s].count /\ \A t \in Schedulers \ {s} : inst'[t] = inst[t]
        /\ UNCHANGED <<holder, age, leading>>
    BY <1>10, <1>a DEF Wake, Instance
  <2>2. ASSUME s \in leading PROVE age <= (inst[s].count + 1) * Turn
    <3>1. age <= inst[s].count * Turn + inst[s].turn /\ inst[s].turn <= Turn
      BY <1>10, <1>a, <2>2 DEF Wake, Punctual, At, AgeBound
    <3> QED
      BY <1>a, <3>1, Times, ElectionAssumption DEF Instance, ExclusiveInv, PlaceInv, TypeOK
  <2>3. Punctual(s)'
    BY <1>a, <2>1, <2>2, Times, ElectionAssumption DEF Punctual, At, AgeBound, Instance
  <2> QED
    BY <1>a, <2>1, <2>3, StepPunctual DEF Goal
<1>11. ASSUME NEW s \in Schedulers, Error(s) PROVE Goal
  BY <1>11 DEF Error, Timely
<1>12. ASSUME NEW s \in Schedulers, Die(s) PROVE Goal
  <2>1. /\ inst'[s].pc \in {"top", "killed"} /\ inst'[s].stamp = 0 /\ inst'[s].turn = 0
        /\ inst'[s].count = 0 /\ \A t \in Schedulers \ {s} : inst'[t] = inst[t]
        /\ leading' = leading \ {s} /\ UNCHANGED <<holder, age>>
    BY <1>12, <1>a DEF Die, Fresh, Instance
  <2>2. Punctual(s)'
    BY <2>1, ElectionAssumption DEF Punctual, At
  <2> QED
    BY <1>a, <2>1, <2>2, StepPunctual DEF Goal
<1>13. CASE UNCHANGED vars
  BY <1>13, <1>a DEF vars, Goal, Punctual, At, AgeBound
<1> QED
  BY <1>1, <1>2, <1>3, <1>4, <1>5, <1>6, <1>7, <1>8, <1>9, <1>10, <1>11, <1>12, <1>13
  DEF Next, Step

\* Turns that are short enough keep a second instance from leading, however many wait
\* for the lease, and whichever are killed or restarted (leader.py 60-91, scheduler.py
\* 46-60).
THEOREM ExclusionCorrect == Spec => []OneLeader
<1> DEFINE Inv == Timely => ExclusiveInv
<1>1. Init => Inv
  BY InitExclusive
<1>2. PlaceInv /\ Inv /\ [Next]_vars => Inv'
  <2>1. [Next]_vars => (Timely' <=> Timely)
    BY DEF Next, vars, Timely
  <2> QED
    BY <2>1, NextExclusive
<1>3. Inv => OneLeader
  <2>1. SUFFICES ASSUME ExclusiveInv PROVE Cardinality(leading) <= 1
    BY DEF OneLeader
  <2>2. leading = {} \/ leading = {holder}
    BY <2>1 DEF ExclusiveInv
  <2>3. Cardinality({}) = 0 /\ Cardinality({holder}) = 1
    BY FS_EmptySet, FS_Singleton
  <2>4. Cardinality(leading) = 0 \/ Cardinality(leading) = 1
    BY <2>2, <2>3, Zenon
  <2> QED
    BY <2>4
<1> QED
  BY <1>1, <1>2, <1>3, PlaceAlways, PTL DEF Spec

-----------------------------------------------------------------------------
(* Taking over.                                                            *)

\* How long the lease can have been left alone when an instance that waits for it is
\* at each place of its turn, if all that goes wrong is that instances are killed.
Patient(s) ==
  /\ At(s, "cycle") => s \in leading
  /\ s \notin leading =>
       /\ inst[s].pc \in {"top", "look", "claim"} => age <= TTL + Turn + inst[s].turn
       /\ At(s, "create") => age <= Turn + inst[s].turn
       /\ At(s, "sleep")  => age <= TTL + inst[s].turn

TakeoverInv ==
  /\ holder = NoHolder => age = 0
  /\ \E s \in Schedulers : ~At(s, "killed")
  /\ \A s \in Schedulers : Patient(s)

OnlyKills == faults \subseteq {"kill"} /\ Timely

LEMMA InitTakeover == Init => TakeoverInv
<1> SUFFICES ASSUME Init PROVE TakeoverInv
  OBVIOUS
<1>1. holder = NoHolder /\ age = 0 /\ inst = [s \in Schedulers |-> Fresh]
  BY DEF Init
<1>2. \A s \in Schedulers : inst[s].pc = "top" /\ inst[s].turn = 0
  BY <1>1 DEF Fresh
<1> QED
  BY <1>1, <1>2, ElectionAssumption DEF TakeoverInv, Patient, At

\* An instance that takes no step stays patient while the lease ages no further.
LEMMA OthersPatient ==
  ASSUME NEW t \in Schedulers, Patient(t), inst'[t] = inst[t],
         t \in leading => t \in leading', inst[t].turn \in Nat, age \in Nat,
         age' = age \/ (age' \in Nat /\ age' <= Turn), Turn <= TTL
  PROVE  Patient(t)'
BY ElectionAssumption DEF Patient, At

\* A step of one instance that leaves the lease alone.
LEMMA StepPatient ==
  ASSUME PlaceInv, TakeoverInv, Turn <= TTL, NEW s \in Schedulers,
         UNCHANGED <<holder, age, leading>>, ~At(s, "killed")',
         \A t \in Schedulers \ {s} : inst'[t] = inst[t], Patient(s)'
  PROVE  TakeoverInv'
<1>1. ASSUME NEW t \in Schedulers \ {s} PROVE Patient(t)'
  BY OthersPatient DEF TakeoverInv, PlaceInv, TypeOK, Instance
<1> QED
  BY <1>1 DEF TakeoverInv

\* Who writes the lease writes a clock reading of its own turn.
LEMMA WritePatient ==
  ASSUME PlaceInv, TakeoverInv, Turn <= TTL, NEW s \in Schedulers,
         Punctual(s), inst[s].pc \in {"create", "claim", "renew"},
         holder' = s, age' = inst[s].stamp, leading' = leading \cup {s}, Goto(s, "cycle")
  PROVE  TakeoverInv'
<1>1. inst \in [Schedulers -> Instance] /\ age \in Nat /\ inst[s] \in Instance
  BY DEF PlaceInv, TypeOK
<1>2. age' \in Nat /\ age' <= Turn
  BY <1>1, ElectionAssumption DEF Punctual, At, Instance
<1>3. inst'[s].pc = "cycle" /\ \A t \in Schedulers \ {s} : inst'[t] = inst[t]
  BY <1>1 DEF Goto
<1>4. Patient(s)'
  BY <1>3 DEF Patient, At
<1>5. ASSUME NEW t \in Schedulers \ {s} PROVE Patient(t)'
  <2>1. inst[t].turn \in Nat
    BY <1>1 DEF Instance
  <2> QED
    BY <1>1, <1>2, <1>3, <2>1, OthersPatient DEF TakeoverInv
<1> QED
  BY <1>3, <1>4, <1>5, ElectionAssumption DEF TakeoverInv, At

LEMMA TickPatient ==
  ASSUME OnlyKills, PlaceInv, TakeoverInv, Tick
  PROVE  TakeoverInv'
<1>1. /\ inst \in [Schedulers -> Instance] /\ age \in Nat
      /\ \A s \in Schedulers : inst[s].turn \in Nat
  BY DEF PlaceInv, TypeOK, Instance
<1>2. age' \in Nat /\ age' <= age + 1 /\ (holder = NoHolder => age' = age)
  <2>1. age' = IF holder = NoHolder THEN age ELSE Older(age)
    BY DEF Tick
  <2> QED
    BY <1>1, <2>1, OlderNat
<1>3. UNCHANGED <<holder, leading>> /\ \A s \in Schedulers : inst'[s].pc = inst[s].pc
  BY <1>1 DEF Tick, Instance
<1>4. ASSUME NEW s \in Schedulers, ~At(s, "killed") PROVE inst'[s].turn = inst[s].turn + 1
  <2>1. inst[s].turn < Turn
    BY <1>4 DEF Tick, OnlyKills, Timely
  <2>2. inst'[s].turn = Older(inst[s].turn)
    BY <1>1 DEF Tick, Instance
  <2> QED
    BY <1>1, <2>1, <2>2, ElectionAssumption DEF Older, Oldest
<1>5. ASSUME NEW s \in Schedulers PROVE Patient(s)'
  <2>1. CASE At(s, "killed")
    BY <1>3, <2>1 DEF Patient, At
  <2>2. CASE ~At(s, "killed")
    BY <1>1, <1>2, <1>3, <1>4, <2>2, ElectionAssumption DEF TakeoverInv, Patient, At
  <2> QED
    BY <2>1, <2>2
<1> QED
  BY <1>2, <1>3, <1>5 DEF TakeoverInv, At

LEMMA NextTakeover == OnlyKills /\ ExclusiveInv /\ TakeoverInv /\ [Next]_vars => TakeoverInv'
<1> SUFFICES ASSUME OnlyKills, ExclusiveInv, TakeoverInv, [Next]_vars PROVE TakeoverInv'
  OBVIOUS
<1>a. /\ PlaceInv /\ inst \in [Schedulers -> Instance] /\ age \in Nat
      /\ leading \subseteq Schedulers /\ leading \subseteq {holder}
      /\ \A s \in Schedulers : /\ inst[s] \in Instance /\ Punctual(s) /\ PlaceOf(s)
                               /\ Patient(s)
  BY DEF ExclusiveInv, PlaceInv, TypeOK, TakeoverInv
<1>b. Turn <= TTL
  <2>1. Renewals * Turn \in Nat /\ (Renewals + 1) * Turn = Renewals * Turn + Turn
    BY Times, ElectionAssumption
  <2> QED
    BY <2>1, ElectionAssumption DEF OnlyKills, Timely
<1>c. faults \cap {"restart", "stall", "db_error"} = {}
  BY DEF OnlyKills
<1>1. CASE Tick
  BY <1>1, <1>a, TickPatient
<1>2. ASSUME NEW s \in Schedulers, BeginAcquire(s) PROVE TakeoverInv'
  <2>1. /\ inst'[s].pc = "look" /\ inst'[s].turn = inst[s].turn
        /\ \A t \in Schedulers \ {s} : inst'[t] = inst[t]
    BY <1>2, <1>a DEF BeginAcquire, ReadClock, Instance
  <2>2. Patient(s)'
    BY <1>2, <1>a, <2>1 DEF BeginAcquire, Patient, At
  <2> QED
    BY <1>2, <1>a, <1>b, <2>1, <2>2, StepPatient DEF BeginAcquire, At
<1>3. ASSUME NEW s \in Schedulers, Look(s) PROVE TakeoverInv'
  <2>1. /\ inst'[s].pc = IF holder = NoHolder THEN "create" ELSE "claim"
        /\ inst'[s].turn = inst[s].turn
        /\ \A t \in Schedulers \ {s} : inst'[t] = inst[t]
    BY <1>3, <1>a DEF Look, Goto, Instance
  <2>2. CASE holder = NoHolder
    <3>1. age = 0 /\ inst[s].turn \in Nat
      BY <1>a, <2>2 DEF TakeoverInv, Instance
    <3>2. Patient(s)'
      BY <1>3, <2>1, <2>2, <3>1, ElectionAssumption DEF Look, Patient, At
    <3> QED
      BY <1>3, <1>a, <1>b, <2>1, <2>2, <3>2, StepPatient DEF Look, At
  <2>3. CASE holder # NoHolder
    <3>1. Patient(s)'
      BY <1>3, <1>a, <2>1, <2>3 DEF Look, Patient, At
    <3> QED
      BY <1>3, <1>a, <1>b, <2>1, <2>3, <3>1, StepPatient DEF Look, At
  <2> QED
    BY <2>2, <2>3
<1>f. ASSUME NEW s \in Schedulers, Fail(s),
             s \notin leading => age <= TTL + inst[s].turn
      PROVE  TakeoverInv'
  <2>1. /\ inst'[s].pc = "sleep" /\ inst'[s].turn = inst[s].turn
        /\ \A t \in Schedulers \ {s} : inst'[t] = inst[t]
    BY <1>f, <1>a DEF Fail, Goto, Instance
  <2>2. Patient(s)'
    BY <1>f, <2>1 DEF Fail, Patient, At
  <2> QED
    BY <1>f, <1>a, <1>b, <2>1, <2>2, StepPatient DEF Fail, At
<1>4. ASSUME NEW s \in Schedulers, Create(s) PROVE TakeoverInv'
  <2>1. CASE holder = NoHolder
    BY <1>4, <1>a, <1>b, <2>1, WritePatient DEF Create, Take, At
  <2>2. CASE holder # NoHolder
    <3>1. s \notin leading /\ age <= Turn + inst[s].turn
      BY <1>4, <1>a DEF Create, PlaceOf, Acquiring, Patient, At
    <3>2. age <= TTL + inst[s].turn
      BY <1>a, <1>b, <3>1, ElectionAssumption DEF Instance
    <3> QED
      BY <1>4, <1>f, <2>2, <3>2 DEF Create
  <2> QED
    BY <2>1, <2>2
<1>5. ASSUME NEW s \in Schedulers, Claim(s) PROVE TakeoverInv'
  <2>1. CASE holder = s \/ Late(s)
    BY <1>5, <1>a, <1>b, <2>1, WritePatient DEF Claim, Take, At
  <2>2. CASE ~(holder = s \/ Late(s))
    <3>1. inst[s].stamp <= inst[s].turn /\ inst[s].stamp \in Nat /\ inst[s].turn \in Nat
      BY <1>5, <1>a DEF Claim, Punctual, At, Instance
    <3>2. ~(age > inst[s].stamp + TTL)
      BY <2>2 DEF Late
    <3>3. age <= TTL + inst[s].turn
      BY <1>a, <3>1, <3>2, ElectionAssumption
    <3> QED
      BY <1>5, <1>f, <2>2, <3>3 DEF Claim
  <2> QED
    BY <2>1, <2>2
<1>6. ASSUME NEW s \in Schedulers, BeginRenewal(s) PROVE TakeoverInv'
  <2>1. /\ inst'[s].pc = "renew" /\ inst'[s].turn = inst[s].turn
        /\ \A t \in Schedulers \ {s} : inst'[t] = inst[t]
    BY <1>6, <1>a DEF BeginRenewal, Instance
  <2>2. Patient(s)'
    BY <1>6, <2>1 DEF BeginRenewal, Patient, At
  <2> QED
    BY <1>6, <1>a, <1>b, <2>1, <2>2, StepPatient DEF BeginRenewal, At
<1>7. ASSUME NEW s \in Schedulers, Renew(s) PROVE TakeoverInv'
  <2>1. s \in leading /\ holder = s
    BY <1>7, <1>a DEF Renew, PlaceOf
  <2>2. holder' = s /\ leading' = leading \cup {s} /\ age' = inst[s].stamp /\ Goto(s, "cycle")
    BY <1>7, <2>1 DEF Renew
  <2> QED
    BY <1>7, <1>a, <1>b, <2>2, WritePatient DEF Renew, At
<1>8. ASSUME NEW s \in Schedulers, BeginCycle(s) PROVE TakeoverInv'
  <2>1. /\ inst'[s].pc = "cycle" /\ inst'[s].turn = inst[s].turn
        /\ \A t \in Schedulers \ {s} : inst'[t] = inst[t]
    BY <1>8, <1>a DEF BeginCycle, Instance
  <2>2. Patient(s)'
    BY <1>8, <2>1 DEF BeginCycle, Patient, At
  <2> QED
    BY <1>8, <1>a, <1>b, <2>1, <2>2, StepPatient DEF BeginCycle, At
<1>9. ASSUME NEW s \in Schedulers, EndCycle(s) PROVE TakeoverInv'
  BY <1>9, <1>a, <1>f DEF EndCycle, Patient
<1>10. ASSUME NEW s \in Schedulers, Wake(s) PROVE TakeoverInv'
  <2>1. /\ inst'[s].pc = "top" /\ inst'[s].turn = 0
        /\ \A t \in Schedulers \ {s} : inst'[t] = inst[t]
    BY <1>10, <1>a DEF Wake, Instance
  <2>2. s \notin leading => age <= TTL + Turn
    <3>1. inst[s].turn <= Turn /\ inst[s].turn \in Nat
      BY <1>10, <1>a DEF Wake, Punctual, At, Instance
    <3> QED
      BY <1>10, <1>a, <3>1, ElectionAssumption DEF Wake, Patient
  <2>3. Patient(s)'
    BY <1>10, <1>a, <2>1, <2>2, ElectionAssumption DEF Wake, Patient, At
  <2> QED
    BY <1>10, <1>a, <1>b, <2>1, <2>3, StepPatient DEF Wake, At
<1>11. ASSUME NEW s \in Schedulers, Error(s) PROVE TakeoverInv'
  BY <1>11, <1>c DEF Error
<1>12. ASSUME NEW s \in Schedulers, Die(s) PROVE TakeoverInv'
  <2>1. /\ inst'[s].pc = "killed" /\ \A t \in Schedulers \ {s} : inst'[t] = inst[t]
        /\ leading' = leading \ {s} /\ UNCHANGED <<holder, age>>
        /\ \E t \in Schedulers \ {s} : ~At(t, "killed")
    BY <1>12, <1>a, <1>c DEF Die, Fresh
  <2>2. Patient(s)'
    BY <2>1 DEF Patient, At
  <2>3. ASSUME NEW t \in Schedulers \ {s} PROVE Patient(t)'
    <3>1. inst[t].turn \in Nat
      BY <1>a DEF Instance
    <3> QED
      BY <1>a, <1>b, <2>1, <3>1, OthersPatient
  <2> QED
    BY <2>1, <2>2, <2>3 DEF TakeoverInv, At
<1>13. CASE UNCHANGED vars
  BY <1>13 DEF vars, TakeoverInv, Patient, At
<1> QED
  BY <1>1, <1>2, <1>3, <1>4, <1>5, <1>6, <1>7, <1>8, <1>9, <1>10, <1>11, <1>12, <1>13
  DEF Next, Step

\* Some instance survives: if it leads, the lease is alive, and if it does not, it has
\* looked at the lease no longer than two turns ago.
LEMMA SurvivorTakesOver ==
  ASSUME OnlyKills, ExclusiveInv, TakeoverInv
  PROVE  age <= TTL + 2 * Turn
<1>1. PICK s \in Schedulers : ~At(s, "killed")
  BY DEF TakeoverInv
<1>2. age \in Nat /\ inst[s] \in Instance /\ Punctual(s) /\ PlaceOf(s) /\ Patient(s)
  BY DEF ExclusiveInv, PlaceInv, TypeOK, TakeoverInv
<1>3. CASE s \in leading
  <2>1. age <= TTL
    BY <1>3, LeaseAlive DEF OnlyKills
  <2> QED
    BY <1>2, <2>1, ElectionAssumption
<1>4. CASE s \notin leading
  <2>1. inst[s].pc \in {"top", "look", "create", "claim", "sleep"}
    BY <1>1, <1>2, <1>4 DEF Instance, Pc, PlaceOf, Patient, At
  <2>2. inst[s].turn \in Nat /\ inst[s].turn <= Turn
    BY <1>1, <1>2 DEF Punctual, Instance
  <2>3. \/ age <= TTL + Turn + inst[s].turn
        \/ age <= Turn + inst[s].turn
        \/ age <= TTL + inst[s].turn
    BY <1>2, <1>4, <2>1 DEF Patient, At
  <2> QED
    BY <1>2, <2>2, <2>3, ElectionAssumption
<1> QED
  BY <1>3, <1>4

\* If turns are short enough for leaders to keep their lease, then however many
\* instances wait for it and whenever they are killed, the one that is left finds the
\* lease free before it is two turns older than its TTL (leader.py 37-74, scheduler.py
\* 46-60).
THEOREM TakeoverCorrect ==
  ASSUME (Renewals + 1) * Turn <= TTL
  PROVE  Spec => []TakenOver
<1> DEFINE Inv == faults \subseteq {"kill"} => Timely /\ ExclusiveInv /\ TakeoverInv
<1>1. Init => Inv
  BY InitExclusive, InitTakeover DEF Timely
<1>2. Inv /\ [Next]_vars => Inv'
  <2>1. [Next]_vars => faults' = faults
    BY DEF Next, vars
  <2>2. [Next]_vars /\ Timely => Timely'
    BY <2>1 DEF Timely
  <2> QED
    BY <2>1, <2>2, NextExclusive, NextTakeover DEF OnlyKills
<1>3. Inv => TakenOver
  BY SurvivorTakesOver DEF OnlyKills, TakenOver
<1> QED
  BY <1>1, <1>2, <1>3, PTL DEF Spec
=============================================================================
