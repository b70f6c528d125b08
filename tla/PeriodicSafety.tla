--------------------------- MODULE PeriodicSafety ---------------------------
(***************************************************************************)
(* Periodic jobs, for any number of instances, rows and clients: a match of*)
(* a schedule is passed over only by an instance that saves by a cron      *)
(* expression the row no longer has, and the jobs created for one due time *)
(* are as many as the turns cut off, the seeds and the instances that may  *)
(* have held the row at that time account for.                             *)
(***************************************************************************)
EXTENDS PeriodicTasks, FiniteSetTheorems, TLAPS

\* A set of natural numbers has a least element: of the intervals that end in one of
\* them, one contains no other.
LEMMA LeastElement ==
  ASSUME NEW S \in SUBSET Nat, S # {}
  PROVE  \E n \in S : \A m \in S : n <= m
<1> DEFINE T == {0..n : n \in S}
<1>1. T # {} /\ T \subseteq FiniteSubsetsOf(Nat)
  <2>1. \A n \in Nat : 0..n \in SUBSET Nat /\ IsFiniteSet(0..n)
    BY FS_Interval
  <2> QED
    BY <2>1 DEF FiniteSubsetsOf
<1>2. IsWellFoundedOn(StrictSubsetOrdering(Nat), FiniteSubsetsOf(Nat))
  BY FS_StrictSubsetOrderingWellFounded
<1>3. PICK I \in T : \A J \in T : ~(<<J, I>> \in StrictSubsetOrdering(Nat))
  <2> HIDE DEF T
  <2> QED
    BY <1>1, <1>2, WFMin
<1>4. PICK n \in S : I = 0..n
  BY <1>3
<1>5. ASSUME NEW m \in S, m < n PROVE FALSE
  <2>1. 0..m \in T /\ 0..m \subseteq 0..n /\ 0..m # 0..n /\ 0..n \subseteq Nat
    BY <1>5
  <2> QED
    BY <1>3, <1>4, <2>1 DEF StrictSubsetOrdering
<1> QED
  BY <1>4, <1>5

LEMMA FirstMatch ==
  ASSUME NEW c \in Crons, NEW t \in Nat, HasNext(c, t)
  PROVE  /\ NextFire(c, t) \in Fires[c] /\ NextFire(c, t) > t
         /\ \A g \in Fires[c] : g > t => NextFire(c, t) <= g
<1> DEFINE S == {f \in Fires[c] : f > t}
<1>1. S \in SUBSET Nat /\ S # {}
  BY PeriodicAssumption DEF HasNext
<1>2. \E n \in S : \A m \in S : n <= m
  BY <1>1, LeastElement
<1> QED
  BY <1>2 DEF NextFire

\* What a cron expression matches is among the due times.
LEMMA MatchesOf == Matches \subseteq Nat /\ \A c \in Crons : Fires[c] \subseteq Matches
  BY PeriodicAssumption DEF Matches

-----------------------------------------------------------------------------
LoopOK(s) ==
  /\ loop[s].clock <= now
  /\ At(s, "save") => loop[s].current \in Sighting /\ Known(loop[s].current.task)
  /\ \A e \in loop[s].todo : Known(e.task)

ClientOK(c) ==
  client[c].pc \in {"seek", "insert"} =>
    client[c].clock <= now /\ HasNext(client[c].cron, client[c].clock)

PeriodicInv ==
  /\ TypeOK
  /\ \A s \in Schedulers : LoopOK(s)
  /\ \A c \in Clients : ClientOK(c)

-----------------------------------------------------------------------------
LEMMA InitPeriodic == Init => PeriodicInv
<1> SUFFICES ASSUME Init PROVE PeriodicInv
  OBVIOUS
<1> USE DEF Init
<1>1. LeaseTypeOK
  BY DEF LeaseInit, LeaseTypeOK
<1>2. TypeOK
  BY <1>1 DEF TypeOK, Idle, LoopState, ClientState
<1>4. \A s \in Schedulers : LoopOK(s)
  BY DEF LoopOK, At, Idle
<1>5. \A c \in Clients : ClientOK(c)
  BY DEF ClientOK
<1> QED
  BY <1>2, <1>4, <1>5 DEF PeriodicInv

\* A step of the lease leaves its types right.
LEMMA LeaseStep ==
  ASSUME LeaseTypeOK, NEW s \in Schedulers,
         \/ NoRowFound(s) \/ CreateLease(s) \/ ClaimLease(s) \/ RenewLease(s)
         \/ ForgetLease(s) \/ LeaseExpires \/ UNCHANGED leaseVars
  PROVE  LeaseTypeOK'
  BY NoHolderAssumption DEF LeaseTypeOK, NoRowFound, CreateLease, ClaimLease, RenewLease,
     ForgetLease, LeaseExpires, leaseVars

\* A row is written with the next match of a cron expression.
LEMMA MoveRow ==
  ASSUME PeriodicInv, NEW k \in Tasks, NEW c \in Crons, NEW t \in Nat, HasNext(c, t),
         \/ Known(k) /\ task' = [task EXCEPT ![k].next = NextFire(c, t)]
         \/ \E active \in BOOLEAN :
              task' = [task EXCEPT ![k] =
                        [active |-> active, cron |-> c, next |-> NextFire(c, t)]]
  PROVE  /\ task' \in [Tasks -> Row \cup {None}] /\ Known(k)'
         /\ \A l \in Tasks : Known(l) => Known(l)'
<1>1. task \in [Tasks -> Row \cup {None}]
  BY DEF PeriodicInv, TypeOK
<1>2. NextFire(c, t) \in Matches
  BY FirstMatch, MatchesOf
<1>3. \E r \in Row : task' = [task EXCEPT ![k] = r]
  <2>1. CASE Known(k) /\ task' = [task EXCEPT ![k].next = NextFire(c, t)]
    <3>1. [task[k] EXCEPT !.next = NextFire(c, t)] \in Row
      BY <1>1, <1>2, <2>1 DEF Row, Known
    <3> QED
      BY <2>1, <3>1
  <2>2. CASE \E active \in BOOLEAN :
               task' = [task EXCEPT ![k] =
                         [active |-> active, cron |-> c, next |-> NextFire(c, t)]]
    BY <1>2, <2>2 DEF Row
  <2> QED
    BY <2>1, <2>2
<1>4. task' \in [Tasks -> Row \cup {None}] /\ task'[k] \in Row
      /\ \A l \in Tasks \ {k} : task'[l] = task[l]
  BY <1>1, <1>3
<1> QED
  BY <1>4, NoneAssumption DEF Known

\* What an instance or a client holds of the rows stays right when rows are added or
\* moved.
LEMMA StillOK ==
  ASSUME PeriodicInv, now' \in Nat, now <= now', \A l \in Tasks : Known(l) => Known(l)'
  PROVE  /\ \A s \in Schedulers : loop'[s] = loop[s] => LoopOK(s)'
         /\ \A c \in Clients : client'[c] = client[c] => ClientOK(c)'
<1>1. now \in Nat /\ loop \in [Schedulers -> LoopState] /\ client \in [Clients -> ClientState]
  BY DEF PeriodicInv, TypeOK
<1>2. ASSUME NEW s \in Schedulers, loop'[s] = loop[s] PROVE LoopOK(s)'
  BY <1>1, <1>2 DEF PeriodicInv, LoopOK, At, LoopState, Sighting
<1>3. ASSUME NEW c \in Clients, client'[c] = client[c] PROVE ClientOK(c)'
  BY <1>1, <1>3 DEF PeriodicInv, ClientOK, ClientState, HasNext
<1> QED
  BY <1>2, <1>3

\* Where a turn goes on.
LEMMA OnwardOK ==
  ASSUME PeriodicInv, NEW s \in Schedulers, NEW J \in SUBSET Sighting
  PROVE  /\ Onward(s, J) \in LoopState /\ Onward(s, J).clock <= now
         /\ Onward(s, J).pc = IF J = {} THEN "dispatch" ELSE "create"
         /\ Onward(s, J).todo = J
         /\ J # {} => Onward(s, J).clock = loop[s].clock
<1>1. loop[s] \in LoopState /\ loop[s].clock <= now /\ now \in Nat
  BY DEF PeriodicInv, TypeOK, LoopOK
<1>2. CASE J = {}
  BY <1>1, <1>2 DEF Onward, Idle, LoopState
<1>3. CASE J # {}
  BY <1>1, <1>3 DEF Onward, LoopState
<1> QED
  BY <1>2, <1>3

LEMMA NextPeriodic == PeriodicInv /\ [Next]_vars => PeriodicInv'
<1> SUFFICES ASSUME PeriodicInv, [Next]_vars PROVE PeriodicInv'
  OBVIOUS
<1>a. /\ LeaseTypeOK /\ now \in Nat /\ faults \in Nat /\ task \in [Tasks -> Row \cup {None}]
      /\ loop \in [Schedulers -> LoopState] /\ client \in [Clients -> ClientState]
      /\ made \in [Due -> Nat] /\ updates \in [Tasks -> Nat]
      /\ \A s \in Schedulers : LoopOK(s)
      /\ \A c \in Clients : ClientOK(c)
  BY DEF PeriodicInv, TypeOK
\* Steps of an instance that leave the rows alone.
<1>b. ASSUME NEW s \in Schedulers, NEW st \in LoopState, Become(s, st), LoopOK(s)',
             LeaseTypeOK', UNCHANGED <<now, task, client, updates>>,
             made' \in [Due -> Nat], faults' \in Nat
      PROVE  PeriodicInv'
  <2>1. loop' \in [Schedulers -> LoopState] /\ \A t \in Schedulers \ {s} : loop'[t] = loop[t]
    BY <1>a, <1>b DEF Become
  <2>2. /\ \A t \in Schedulers : LoopOK(t)'
        /\ \A c \in Clients : ClientOK(c)'
    BY <1>a, <1>b, <2>1, StillOK DEF Known
  <2>3. TypeOK'
    BY <1>a, <1>b, <2>1 DEF TypeOK
  <2> QED
    BY <2>2, <2>3 DEF PeriodicInv
<1>i. Idle \in LoopState
  BY DEF Idle, LoopState
<1>1. CASE Tick
  <2>1. /\ \A s \in Schedulers : LoopOK(s)'
        /\ \A c \in Clients : ClientOK(c)'
    BY <1>1, <1>a, StillOK DEF Tick, Known
  <2>2. LeaseTypeOK'
    BY <1>1, <1>a DEF Tick, LeaseTypeOK, leaseVars
  <2>3. TypeOK'
    BY <1>1, <1>a, <2>2 DEF Tick, TypeOK
  <2> QED
    BY <2>1, <2>3 DEF PeriodicInv
<1>2. CASE Environment
  <2>1. LeaseTypeOK'
    BY <1>2, <1>a DEF Environment, LeaseExpires, LeaseTypeOK
  <2> QED
    BY <1>2, <1>a, <2>1 DEF Environment, PeriodicInv, TypeOK, LoopOK, ClientOK, At, HasNext,
       Known
<1>3. ASSUME NEW s \in Schedulers, Elect(s) PROVE PeriodicInv'
  <2>1. LeaseTypeOK'
    BY <1>3, <1>a, LeaseStep DEF Elect
  <2> DEFINE st == [loop[s] EXCEPT !.pc = IF s \in leading' THEN "begin" ELSE "top"]
  <2>2. st \in LoopState /\ st.pc # "save" /\ st.clock = loop[s].clock /\ st.todo = loop[s].todo
    BY <1>a DEF LoopState
  <2>3. loop' = [loop EXCEPT ![s] = st] /\ UNCHANGED <<now, task, client, made, updates, faults>>
    BY <1>3 DEF Elect, Become
  <2> HIDE DEF st
  <2>4. LoopOK(s)'
    BY <1>a, <2>2, <2>3 DEF LoopOK, At, Known
  <2>5. \A t \in Schedulers : LoopOK(t)'
    BY <1>a, <2>3, <2>4 DEF LoopOK, At, Known
  <2>6. TypeOK'
    BY <1>a, <2>1, <2>2, <2>3 DEF TypeOK
  <2> QED
    BY <1>a, <2>3, <2>5, <2>6 DEF PeriodicInv, ClientOK, HasNext
<1>4. ASSUME NEW s \in Schedulers, BeginCycle(s) PROVE PeriodicInv'
  <2> DEFINE st == [loop[s] EXCEPT !.pc = "query", !.clock = now]
  <2>1. st \in LoopState /\ st.clock = now /\ st.pc = "query" /\ st.todo = loop[s].todo
    BY <1>a DEF LoopState
  <2>2. loop'[s] = st /\ Become(s, st) /\ UNCHANGED <<task, made, rest>>
    BY <1>4, <1>a DEF BeginCycle, Become
  <2>3. LoopOK(s)'
    BY <1>a, <2>1, <2>2 DEF LoopOK, At, rest, Known
  <2> QED
    BY <1>a, <1>b, <2>1, <2>2, <2>3 DEF rest, leaseVars, LeaseTypeOK
<1>5. ASSUME NEW s \in Schedulers, QueryDue(s) PROVE PeriodicInv'
  <2> DEFINE J == {Seen(k) : k \in DueAt(loop[s].clock)}
  <2>1. J \subseteq Sighting /\ \A e \in J : Known(e.task)
    BY <1>a DEF DueAt, Sighting, Seen, Known, Row
  <2>2. Onward(s, J) \in LoopState /\ Onward(s, J).clock <= now
        /\ Onward(s, J).pc # "save" /\ Onward(s, J).todo = J
    <3> HIDE DEF J
    <3> QED
      BY <1>a, <2>1, OnwardOK
  <2>3. loop'[s] = Onward(s, J) /\ Become(s, Onward(s, J)) /\ UNCHANGED <<task, made, rest>>
    BY <1>5, <1>a DEF QueryDue, Become
  <2>4. LoopOK(s)'
    BY <1>a, <2>1, <2>2, <2>3 DEF LoopOK, At, rest, Known
  <2> HIDE DEF J
  <2> QED
    BY <1>a, <1>b, <2>2, <2>3, <2>4 DEF rest, leaseVars, LeaseTypeOK
<1>6. ASSUME NEW s \in Schedulers, CreateJob(s) PROVE PeriodicInv'
  <2>1. PICK e \in loop[s].todo :
          /\ made' = [made EXCEPT ![DueOf(e)] = Count(@)]
          /\ Become(s, [loop[s] EXCEPT !.pc = "save", !.current = e, !.todo = @ \ {e}])
    BY <1>6 DEF CreateJob
  <2> DEFINE st == [loop[s] EXCEPT !.pc = "save", !.current = e, !.todo = @ \ {e}]
  <2>2. e \in Sighting /\ Known(e.task) /\ DueOf(e) \in Due
    BY <1>a DEF LoopState, LoopOK, Due, DueOf, Sighting
  <2>3. st \in LoopState /\ st.clock = loop[s].clock /\ st.current = e
        /\ st.todo \subseteq loop[s].todo
    BY <1>a, <2>2 DEF LoopState
  <2>4. made' \in [Due -> Nat]
    BY <1>a, <2>1, <2>2, PeriodicAssumption DEF Count
  <2>5. loop'[s] = st /\ UNCHANGED <<task, rest>>
    BY <1>6, <1>a, <2>1 DEF CreateJob, Become
  <2>6. LoopOK(s)'
    BY <1>a, <2>2, <2>3, <2>5 DEF LoopOK, At, rest, Known
  <2> QED
    BY <1>a, <1>b, <2>1, <2>3, <2>4, <2>5, <2>6 DEF rest, leaseVars, LeaseTypeOK
<1>7. ASSUME NEW s \in Schedulers, SaveNext(s) PROVE PeriodicInv'
  <2> DEFINE e == loop[s].current
             k == e.task
             t == loop[s].clock
             J == loop[s].todo
  <2>1. /\ k \in Tasks /\ e.cron \in Crons /\ t \in Nat /\ Known(k)
        /\ J \in SUBSET Sighting /\ \A d \in J : Known(d.task)
    BY <1>7, <1>a DEF SaveNext, LoopOK, LoopState, Sighting
  <2>2. UNCHANGED <<made, rest>>
    BY <1>7 DEF SaveNext
  <2>3. CASE HasNext(e.cron, t)
    <3>1. task' = [task EXCEPT ![k].next = NextFire(e.cron, t)] /\ Become(s, Onward(s, J))
      BY <1>7, <2>3 DEF SaveNext
    <3>2. /\ task' \in [Tasks -> Row \cup {None}]
          /\ \A l \in Tasks : Known(l) => Known(l)'
      <4> HIDE DEF e, k, t
      <4> QED
        BY <2>1, <2>3, <3>1, MoveRow
    <3>3. /\ Onward(s, J) \in LoopState /\ Onward(s, J).clock <= now
          /\ Onward(s, J).pc # "save" /\ Onward(s, J).todo = J
      BY <2>1, OnwardOK
    <3>4. /\ loop' \in [Schedulers -> LoopState] /\ loop'[s] = Onward(s, J)
          /\ \A u \in Schedulers \ {s} : loop'[u] = loop[u]
      BY <1>a, <3>1, <3>3 DEF Become
    <3>5. LoopOK(s)'
      <4>1. \A d \in J : d.task \in Tasks
        BY <2>1 DEF Sighting
      <4> QED
        BY <2>1, <2>2, <3>2, <3>3, <3>4, <4>1 DEF LoopOK, At, rest
    <3>6. /\ \A u \in Schedulers : LoopOK(u)'
          /\ \A c \in Clients : ClientOK(c)'
      BY <1>a, <2>2, <3>2, <3>4, <3>5, StillOK DEF rest
    <3>7. TypeOK'
      BY <1>a, <2>2, <3>2, <3>4 DEF TypeOK, rest, leaseVars, LeaseTypeOK
    <3> QED
      BY <3>6, <3>7 DEF PeriodicInv
  <2>4. CASE ~HasNext(e.cron, t)
    <3>1. Become(s, Idle) /\ UNCHANGED task
      BY <1>7, <2>4 DEF SaveNext
    <3>2. LoopOK(s)'
      BY <1>a, <2>2, <3>1 DEF LoopOK, At, Become, Idle, rest
    <3> QED
      BY <1>a, <1>b, <1>i, <2>2, <3>1, <3>2 DEF rest, leaseVars, LeaseTypeOK
  <2> QED
    BY <2>3, <2>4
<1>8. ASSUME NEW s \in Schedulers, EndCycle(s) PROVE PeriodicInv'
  <2>1. Become(s, Idle) /\ UNCHANGED <<task, made, rest>>
    BY <1>8 DEF EndCycle
  <2>2. LoopOK(s)'
    BY <1>a, <2>1 DEF LoopOK, At, Become, Idle, rest
  <2> QED
    BY <1>a, <1>b, <1>i, <2>1, <2>2 DEF rest, leaseVars, LeaseTypeOK
<1>9. ASSUME NEW s \in Schedulers, CutOff(s) PROVE PeriodicInv'
  <2>1. Become(s, Idle) /\ UNCHANGED <<now, task, client, made, updates>> /\ faults' \in Nat
    BY <1>9, <1>a DEF CutOff
  <2>2. LoopOK(s)'
    BY <1>a, <2>1 DEF LoopOK, At, Become, Idle
  <2>3. LeaseTypeOK'
    BY <1>9, <1>a, LeaseStep DEF CutOff
  <2> QED
    BY <1>a, <1>b, <1>i, <2>1, <2>2, <2>3
<1>10. ASSUME NEW c \in Clients, Request(c) PROVE PeriodicInv'
  <2>1. PICK pc \in {"seek", "insert"} :
          client' = [client EXCEPT ![c] = [client[c] EXCEPT !.clock = now, !.pc = pc]]
    BY <1>10 DEF Request, ClientBecome
  <2>2. /\ client'[c].clock = now /\ client'[c].cron = client[c].cron
        /\ client' \in [Clients -> ClientState]
        /\ \A d \in Clients \ {c} : client'[d] = client[d]
    BY <1>a, <2>1 DEF ClientState
  <2>3. UNCHANGED <<now, task, loop, made, updates, faults, leaseVars>>
    BY <1>10 DEF Request
  <2>4. ClientOK(c)'
    <3>1. HasNext(client[c].cron, now)
      BY <1>10 DEF Request
    <3> QED
      BY <1>a, <2>2, <2>3, <3>1 DEF ClientOK, HasNext
  <2>5. \A d \in Clients : ClientOK(d)'
    BY <1>a, <2>2, <2>3, <2>4, StillOK DEF Known
  <2> QED
    BY <1>a, <2>2, <2>3, <2>5 DEF PeriodicInv, TypeOK, leaseVars, LeaseTypeOK, LoopOK, At, Known
\* Steps of a client that add or move a row, or none.
<1>c. ASSUME NEW c \in Clients, NEW st \in ClientState, ClientBecome(c, st), ClientOK(c)',
             UNCHANGED <<now, loop, made, faults, leaseVars>>, updates' \in [Tasks -> Nat],
             task' \in [Tasks -> Row \cup {None}], \A l \in Tasks : Known(l) => Known(l)'
      PROVE  PeriodicInv'
  <2>1. client' \in [Clients -> ClientState] /\ \A d \in Clients \ {c} : client'[d] = client[d]
    BY <1>a, <1>c DEF ClientBecome
  <2>2. /\ \A s \in Schedulers : LoopOK(s)'
        /\ \A d \in Clients : ClientOK(d)'
    BY <1>a, <1>c, <2>1, StillOK
  <2> QED
    BY <1>a, <1>c, <2>1, <2>2 DEF PeriodicInv, TypeOK, leaseVars, LeaseTypeOK
<1>d. ASSUME NEW c \in Clients, ClientBecome(c, Finished(c))
      PROVE  Finished(c) \in ClientState /\ ClientOK(c)'
  BY <1>a, <1>d, PeriodicAssumption DEF ClientBecome, Finished, ClientState, ClientOK
<1>11. ASSUME NEW c \in Clients, SeekRow(c) PROVE PeriodicInv'
  <2> DEFINE rows == Named(client[c].name)
  <2>1. UNCHANGED <<now, loop, made, faults, leaseVars>> /\ client[c].pc = "seek"
    BY <1>11 DEF SeekRow, ClientAt
  <2>2. CASE UNCHANGED <<task, updates>>
    <3>1. \A l \in Tasks : Known(l) => Known(l)'
      BY <2>2 DEF Known
    <3>2. CASE ClientBecome(c, Finished(c))
      BY <1>a, <1>c, <1>d, <2>1, <2>2, <3>1, <3>2
    <3>3. CASE ClientBecome(c, [client[c] EXCEPT !.pc = "insert"])
      <4>1. [client[c] EXCEPT !.pc = "insert"] \in ClientState
        BY <1>a DEF ClientState
      <4>2. ClientOK(c)'
        BY <1>a, <2>1, <3>3 DEF ClientOK, ClientBecome, HasNext, ClientState
      <4> QED
        BY <1>a, <1>c, <2>1, <2>2, <3>1, <3>3, <4>1, <4>2
    <3> QED
      BY <1>11, <3>2, <3>3 DEF SeekRow
  <2>3. ASSUME NEW k \in rows, task' = [task EXCEPT ![k] = FirstRow(c, TRUE)],
               updates' = [updates EXCEPT ![k] = @ + 1], ClientBecome(c, Finished(c))
        PROVE  PeriodicInv'
    <3>1. k \in Tasks /\ HasNext(client[c].cron, client[c].clock)
          /\ client[c].clock \in Nat /\ client[c].cron \in Crons
      BY <1>a, <2>1, <2>3 DEF Named, ClientOK, ClientState
    <3>2. task' \in [Tasks -> Row \cup {None}] /\ \A l \in Tasks : Known(l) => Known(l)'
      BY <2>3, <3>1, MoveRow DEF FirstRow
    <3>3. updates' \in [Tasks -> Nat]
      BY <1>a, <2>3, <3>1
    <3> QED
      BY <1>c, <1>d, <2>1, <2>3, <3>2, <3>3
  <2> QED
    BY <1>11, <2>2, <2>3 DEF SeekRow
<1>12. ASSUME NEW c \in Clients, InsertRow(c) PROVE PeriodicInv'
  <2>1. PICK k \in Tasks, active \in BOOLEAN : task' = [task EXCEPT ![k] = FirstRow(c, active)]
    BY <1>12 DEF InsertRow
  <2>2. /\ UNCHANGED <<now, loop, made, updates, faults, leaseVars>>
        /\ client[c].pc = "insert" /\ ClientBecome(c, Finished(c))
    BY <1>12 DEF InsertRow, ClientAt
  <2>3. HasNext(client[c].cron, client[c].clock)
        /\ client[c].clock \in Nat /\ client[c].cron \in Crons
    BY <1>a, <2>2 DEF ClientOK, ClientState
  <2>4. task' \in [Tasks -> Row \cup {None}] /\ \A l \in Tasks : Known(l) => Known(l)'
    BY <2>1, <2>3, MoveRow DEF FirstRow
  <2> QED
    BY <1>a, <1>c, <1>d, <2>2, <2>4
<1>13. CASE UNCHANGED vars
  BY <1>13, <1>a DEF vars, leaseVars, LeaseTypeOK, PeriodicInv, TypeOK, LoopOK, ClientOK,
     At, HasNext, Known
<1> QED
  BY <1>1, <1>2, <1>3, <1>4, <1>5, <1>6, <1>7, <1>8, <1>9, <1>10, <1>11, <1>12, <1>13
  DEF Next, Turn

LEMMA PeriodicAlways == Spec => []PeriodicInv
  BY InitPeriodic, NextPeriodic, PTL DEF Spec

\* Every variable keeps its type (scheduler.py 88-116, seed 43-68, admin.py 153-174).
THEOREM PeriodicTypeCorrect == Spec => []TypeOK
  BY PeriodicAlways, PTL DEF PeriodicInv

\* A row whose next time is the first match of its own cron expression after some time
\* up to now is not passed over.
LEMMA NotPassedOver ==
  ASSUME NEW k \in Tasks, NEW t \in Nat, now' \in Nat, t <= now', Known(k)',
         task'[k].cron \in Crons, HasNext(task'[k].cron, t),
         task'[k].next = NextFire(task'[k].cron, t)
  PROVE  ~PassedOver(k)'
<1> SUFFICES ASSUME NEW f \in Fires[task'[k].cron], now' < f, f < task'[k].next
             PROVE  FALSE
  BY DEF PassedOver
<1>1. f \in Nat /\ NextFire(task'[k].cron, t) \in Nat
  BY FirstMatch, MatchesOf
<1>2. f > t
  BY <1>1
<1>3. NextFire(task'[k].cron, t) <= f
  BY <1>2, FirstMatch
<1> QED
  BY <1>1, <1>3

\* However many instances lead and save late, and whoever seeds a row in between, only the
\* save of an instance that read the row under another cron expression sets it past a
\* match of its schedule that is still to come.
THEOREM NoMatchPassedOverCorrect == Spec => NoMatchPassedOver
<1> DEFINE Excused == \A k \in Tasks : PassedOver(k)' /\ ~PassedOver(k) =>
                        \E s \in Schedulers : SavesByOldCron(s, k)
<1>1. ASSUME PeriodicInv, [Next]_vars, NEW k \in Tasks, PassedOver(k)', ~PassedOver(k)
      PROVE  \E s \in Schedulers : SavesByOldCron(s, k)
  <2>a. /\ now \in Nat /\ task \in [Tasks -> Row \cup {None}]
        /\ loop \in [Schedulers -> LoopState] /\ client \in [Clients -> ClientState]
        /\ \A s \in Schedulers : LoopOK(s)
        /\ \A c \in Clients : ClientOK(c)
    BY <1>1 DEF PeriodicInv, TypeOK
  <2>b. ASSUME task'[k] = task[k], now' \in Nat, now <= now' PROVE FALSE
    <3>1. PICK f \in Fires[task[k].cron] : now' < f /\ f < task[k].next
      BY <1>1, <2>b DEF PassedOver, Known
    <3>2. Known(k) /\ f \in Nat
      <4>1. Known(k)
        BY <1>1, <2>b DEF PassedOver, Known
      <4>2. task[k].cron \in Crons
        BY <2>a, <4>1 DEF Known, Row
      <4> QED
        BY <3>1, <4>1, <4>2, MatchesOf
    <3>3. now < f
      BY <2>a, <2>b, <3>1, <3>2
    <3> QED
      BY <1>1, <3>1, <3>2, <3>3 DEF PassedOver
  <2>c. ASSUME UNCHANGED <<task, now>> PROVE FALSE
    BY <2>a, <2>b, <2>c
  <2>1. CASE Tick
    BY <2>1, <2>a, <2>b DEF Tick
  <2>2. ASSUME NEW s \in Schedulers, SaveNext(s) PROVE SavesByOldCron(s, k)
    <3> DEFINE e == loop[s].current
               t == loop[s].clock
    <3>1. /\ e \in Sighting /\ Known(e.task) /\ t \in Nat /\ t <= now /\ now' = now
          /\ At(s, "save")
      BY <2>2, <2>a DEF SaveNext, LoopOK, LoopState, rest
    <3>2. /\ HasNext(e.cron, t) /\ Become(s, Onward(s, loop[s].todo))
          /\ task' = [task EXCEPT ![e.task].next = NextFire(e.cron, t)]
      BY <2>2, <2>c, <3>1 DEF SaveNext
    <3>3. e.task = k
      BY <2>a, <2>b, <3>1, <3>2
    <3>4. ~At(s, "save")'
      BY <1>1, <2>a, <3>2, OnwardOK DEF Become, At, LoopState
    <3>5. ASSUME e.cron = task[k].cron PROVE FALSE
      <4>1. task'[k] = [task[k] EXCEPT !.next = NextFire(e.cron, t)] /\ task[k] \in Row
        <5> HIDE DEF e, t
        <5> QED
          BY <2>a, <3>1, <3>2, <3>3 DEF Known
      <4>2. task'[k].cron = e.cron /\ task'[k].next = NextFire(e.cron, t) /\ e.cron \in Crons
        BY <3>5, <4>1 DEF Row
      <4>3. Known(k)'
        BY <1>1 DEF PassedOver, Known
      <4> QED
        BY <1>1, <2>a, <3>1, <3>2, <4>2, <4>3, NotPassedOver
    <3> QED
      BY <3>1, <3>3, <3>4, <3>5 DEF SavesByOldCron
  <2>3. ASSUME NEW c \in Clients, NEW l \in Tasks, NEW active \in BOOLEAN,
               task' = [task EXCEPT ![l] = FirstRow(c, active)],
               client[c].pc \in {"seek", "insert"}, now' = now
        PROVE  FALSE
    <3>1. l = k /\ task'[k] = FirstRow(c, active)
      BY <2>a, <2>b, <2>3
    <3>2. /\ client[c].clock \in Nat /\ client[c].clock <= now /\ client[c].cron \in Crons
          /\ HasNext(client[c].cron, client[c].clock)
      BY <2>a, <2>3 DEF ClientOK, ClientState
    <3>3. /\ task'[k].cron = client[c].cron
          /\ task'[k].next = NextFire(client[c].cron, client[c].clock)
      BY <3>1 DEF FirstRow
    <3>4. Known(k)'
      BY <1>1 DEF PassedOver, Known
    <3> QED
      BY <1>1, <2>a, <2>3, <3>2, <3>3, <3>4, NotPassedOver
  <2>4. ASSUME NEW c \in Clients, SeekRow(c) PROVE FALSE
    <3>1. CASE UNCHANGED task
      BY <2>4, <2>c, <3>1 DEF SeekRow
    <3>2. ASSUME NEW l \in Named(client[c].name), task' = [task EXCEPT ![l] = FirstRow(c, TRUE)]
          PROVE  FALSE
      BY <2>3, <2>4, <3>2 DEF SeekRow, ClientAt, Named
    <3> QED
      BY <2>4, <3>1, <3>2 DEF SeekRow
  <2>5. ASSUME NEW c \in Clients, InsertRow(c) PROVE FALSE
    BY <2>3, <2>5 DEF InsertRow, ClientAt
  <2>6. ASSUME NEW s \in Schedulers,
               Elect(s) \/ BeginCycle(s) \/ QueryDue(s) \/ CreateJob(s) \/ EndCycle(s)
                 \/ CutOff(s)
        PROVE  FALSE
    BY <2>6, <2>c DEF Elect, BeginCycle, QueryDue, CreateJob, EndCycle, CutOff, rest
  <2>7. ASSUME NEW c \in Clients, Request(c) PROVE FALSE
    BY <2>7, <2>c DEF Request
  <2>8. CASE Environment \/ UNCHANGED vars
    BY <2>8, <2>c DEF Environment, vars
  <2> QED
    BY <1>1, <2>1, <2>2, <2>4, <2>5, <2>6, <2>7, <2>8 DEF Next, Turn
<1>2. PeriodicInv /\ [Next]_vars => [Excused]_vars
  BY <1>1
<1> QED
  BY <1>2, PeriodicAlways, PTL DEF Spec, NoMatchPassedOver

-----------------------------------------------------------------------------
(* How often a due time is served, if no schedule ends before the clock.   *)

Endless == \A c \in Crons, t \in 0..MaxTime : HasNext(c, t)

\* Between its query and its save an instance holds the row.
Holds(s, k) ==
  \/ At(s, "save") /\ loop[s].current.task = k
  \/ \E d \in loop[s].todo : d.task = k

\* An instance that has read its clock before this due time and is not through with the
\* row may yet save late, and make the row due at this time again; each does so once, as
\* it reads its clock anew in the next turn.
IsEarly(s, e) == loop[s].clock < e.due /\ (At(s, "query") \/ Holds(s, e.task))
Late(e)       == {s \in Schedulers : ~IsEarly(s, e)}

\* The others may create one more job each while the row shows this due time, and one
\* if they have found it.
RowShows(e)     == Known(e.task) /\ task[e.task].next = e.due
MayCreate(s, e) ==
  \/ \E d \in loop[s].todo : DueOf(d) = e
  \/ RowShows(e) /\ ~(At(s, "save") /\ loop[s].current.task = e.task)
Creators(e) == {s \in Late(e) : MayCreate(s, e)}

Triangle(n) == (n * (n + 1)) \div 2

\* With every instance that stops being early all those that are late by then get their
\* turn again; a fault gives one a second turn, a seed all of them.
Bounded(e) ==
  made[e] + Cardinality(Creators(e))
    <= Triangle(Cardinality(Late(e))) + faults + Leaders * updates[e.task]

\* Instances remember what was due by their clock, each row once, and nothing between
\* two turns.
TodoOK(s) ==
  /\ \A d \in loop[s].todo : d.due <= loop[s].clock
  /\ loop[s].pc \in {"top", "begin", "query", "dispatch"} => loop[s].todo = {}
  /\ \A c, d \in loop[s].todo : c.task = d.task => c = d
  /\ At(s, "save") => \A d \in loop[s].todo : d.task # loop[s].current.task

\* Where there is a job, its time had come.
Served(e) == made[e] > 0 => e.due <= now /\ Known(e.task)

CountInv ==
  /\ PeriodicInv /\ now <= MaxTime
  /\ \A s \in Schedulers : TodoOK(s)
  /\ \A e \in Due : Served(e) /\ Bounded(e)

-----------------------------------------------------------------------------
(* Counting.                                                               *)

LEMMA TriangleGrows ==
  ASSUME NEW m \in Nat
  PROVE  Triangle(m) \in Nat /\ m <= Triangle(m) /\ Triangle(m + 1) = Triangle(m) + m + 1
<1> DEFINE x == m * (m + 1)
           y == (m + 1) * ((m + 1) + 1)
<1>1. x \in Nat /\ y \in Nat /\ y = x + 2 * (m + 1)
  OBVIOUS
<1>2. 2 * m <= x
  <2>1. CASE m = 0
    BY <2>1
  <2>2. CASE m >= 1
    <3>1. m * (m + 1) = m * m + m /\ m * m >= m
      BY <2>2
    <3> QED
      BY <3>1
  <2> QED
    BY <2>1, <2>2
<1>3. Triangle(m) = x \div 2 /\ Triangle(m + 1) = y \div 2
  BY DEF Triangle
<1> HIDE DEF x, y
<1> QED
  BY <1>1, <1>2, <1>3

LEMMA TriangleMonotone ==
  ASSUME NEW m \in Nat, NEW n \in Nat, m <= n
  PROVE  Triangle(m) <= Triangle(n)
<1> DEFINE x == m * (m + 1)
           y == n * (n + 1)
<1>1. x \in Nat /\ y \in Nat /\ x <= y
  <2>1. m * m <= n * n
    <3>1. m * m <= m * n /\ m * n <= n * n
      OBVIOUS
    <3> QED
      BY <3>1
  <2>2. x = m * m + m /\ y = n * n + n
    OBVIOUS
  <2> QED
    BY <2>1, <2>2
<1>2. Triangle(m) = x \div 2 /\ Triangle(n) = y \div 2
  BY DEF Triangle
<1> HIDE DEF x, y
<1> QED
  BY <1>1, <1>2

\* Instances are finitely many.
LEMMA Sizes ==
  ASSUME NEW L \in SUBSET Schedulers, NEW C \in SUBSET L
  PROVE  /\ IsFiniteSet(L) /\ IsFiniteSet(C) /\ Leaders \in Nat
         /\ Cardinality(C) \in Nat /\ Cardinality(L) \in Nat
         /\ Cardinality(C) <= Cardinality(L) /\ Cardinality(L) <= Leaders
BY SchedulersAssumption, FS_Subset, FS_CardinalityType DEF Leaders

-----------------------------------------------------------------------------
(* Steps.                                                                  *)

LEMMA StepBounded ==
  ASSUME PeriodicInv, PeriodicInv', NEW e \in Due, Bounded(e), Late(e) \subseteq Late(e)',
         \/ /\ made'[e] = made[e] /\ faults' = faults /\ updates'[e.task] = updates[e.task]
            /\ Creators(e)' \subseteq Creators(e) \/ Late(e)' # Late(e)
         \/ /\ made'[e] <= made[e] + 1 /\ faults' = faults
            /\ updates'[e.task] = updates[e.task]
            /\ \E s \in Creators(e) : Creators(e)' \subseteq Creators(e) \ {s}
         \/ /\ made'[e] = made[e] /\ faults' = faults + 1
            /\ updates'[e.task] = updates[e.task]
            /\ \E s : Creators(e)' \subseteq Creators(e) \cup {s}
         \/ /\ made'[e] = made[e] /\ faults' = faults
            /\ updates'[e.task] = updates[e.task] + 1
  PROVE  Bounded(e)'
<1> DEFINE L == Late(e)
           C == Creators(e)
           L1 == Late(e)'
           C1 == Creators(e)'
           i == made[e]
           i1 == made'[e]
           u == updates[e.task]
           u1 == updates'[e.task]
<1>1. L \in SUBSET Schedulers /\ C \in SUBSET L /\ L1 \in SUBSET Schedulers /\ C1 \in SUBSET L1
  BY DEF Late, Creators
<1>2. /\ i \in Nat /\ i1 \in Nat /\ u \in Nat /\ u1 \in Nat /\ faults \in Nat /\ faults' \in Nat
  BY DEF PeriodicInv, TypeOK, Due
<1>3. i + Cardinality(C) <= Triangle(Cardinality(L)) + faults + Leaders * u
  BY DEF Bounded
<1>4. /\ L \subseteq L1
      /\ \/ i1 = i /\ faults' = faults /\ u1 = u /\ C1 \subseteq C
         \/ i1 <= i + 1 /\ faults' = faults /\ u1 = u /\ \E s \in C : C1 \subseteq C \ {s}
         \/ i1 = i /\ faults' = faults + 1 /\ u1 = u /\ \E s : C1 \subseteq C \cup {s}
         \/ i1 = i /\ faults' = faults /\ u1 = u /\ L1 # L
         \/ i1 = i /\ faults' = faults /\ u1 = u + 1
  OBVIOUS
<1> HIDE DEF L, C, L1, C1, i, i1, u, u1
<1>5. i1 + Cardinality(C1) <= Triangle(Cardinality(L1)) + faults' + Leaders * u1
  <2> DEFINE c  == Cardinality(C)
             c1 == Cardinality(C1)
             m  == Cardinality(L)
             m1 == Cardinality(L1)
  <2>1. /\ c \in Nat /\ c1 \in Nat /\ m \in Nat /\ m1 \in Nat /\ Leaders \in Nat
        /\ c1 <= m1 /\ m1 <= Leaders /\ m <= m1
        /\ IsFiniteSet(C) /\ IsFiniteSet(C1) /\ IsFiniteSet(L) /\ IsFiniteSet(L1)
    <3>1. IsFiniteSet(L1) /\ IsFiniteSet(L)
      BY <1>1, Sizes
    <3> QED
      BY <1>1, <1>4, <3>1, Sizes, FS_Subset
  <2>2. Triangle(m) \in Nat /\ Triangle(m1) \in Nat /\ Triangle(m) <= Triangle(m1)
    BY <2>1, TriangleGrows, TriangleMonotone
  <2>3. /\ Leaders * u \in Nat /\ Leaders * (u + 1) = Leaders * u + Leaders
        /\ i + c <= Triangle(m) + faults + Leaders * u
    BY <1>2, <1>3, <2>1
  <2> HIDE DEF c, c1, m, m1
  <2>4. CASE i1 = i /\ faults' = faults /\ u1 = u /\ C1 \subseteq C
    <3>1. c1 <= c
      BY <2>1, <2>4, FS_Subset DEF c, c1
    <3> QED
      BY <1>2, <2>1, <2>2, <2>3, <2>4, <3>1 DEF c1, m1
  <2>5. CASE i1 <= i + 1 /\ faults' = faults /\ u1 = u /\ \E s \in C : C1 \subseteq C \ {s}
    <3>1. PICK s \in C : C1 \subseteq C \ {s}
      BY <2>5
    <3>2. IsFiniteSet(C \ {s}) /\ Cardinality(C \ {s}) = c - 1
      BY <2>1, <3>1, FS_RemoveElement DEF c
    <3>3. c1 <= c - 1
      BY <2>1, <3>1, <3>2, FS_Subset DEF c1
    <3> QED
      BY <1>2, <2>1, <2>2, <2>3, <2>5, <3>3 DEF c1, m1
  <2>6. CASE i1 = i /\ faults' = faults + 1 /\ u1 = u /\ \E s : C1 \subseteq C \cup {s}
    <3>1. PICK s : C1 \subseteq C \cup {s}
      BY <2>6
    <3>2. IsFiniteSet(C \cup {s}) /\ Cardinality(C \cup {s}) <= c + 1
      <4>1. /\ IsFiniteSet(C \cup {s})
            /\ Cardinality(C \cup {s}) = c \/ Cardinality(C \cup {s}) = c + 1
        BY <2>1, FS_AddElement DEF c
      <4> QED
        BY <2>1, <4>1
    <3>3. c1 <= Cardinality(C \cup {s}) /\ Cardinality(C \cup {s}) \in Nat
      BY <3>1, <3>2, FS_Subset, FS_CardinalityType DEF c1
    <3> QED
      BY <1>2, <2>1, <2>2, <2>3, <2>6, <3>2, <3>3 DEF c1, m1
  <2>7. CASE i1 = i /\ faults' = faults /\ u1 = u /\ L1 # L
    <3>1. m < m1
      <4>1. m # m1
        BY <1>4, <2>1, <2>7, FS_Subset DEF m, m1
      <4> QED
        BY <2>1, <4>1
    <3>2. Triangle(m + 1) = Triangle(m) + m + 1 /\ m + 1 \in Nat /\ m + 1 <= m1
      BY <2>1, <3>1, TriangleGrows
    <3>3. m1 - 1 \in Nat /\ m <= m1 - 1 /\ (m1 - 1) + 1 = m1
      BY <2>1, <3>1
    <3>4. Triangle(m1) = Triangle(m1 - 1) + (m1 - 1) + 1 /\ Triangle(m1 - 1) \in Nat
      BY <3>3, TriangleGrows
    <3>5. Triangle(m) <= Triangle(m1 - 1)
      BY <2>1, <3>3, TriangleMonotone
    <3>6. Triangle(m1) >= Triangle(m) + m1
      BY <2>1, <2>2, <3>4, <3>5
    <3> QED
      BY <1>2, <2>1, <2>2, <2>3, <2>7, <3>6 DEF c1, m1
  <2>8. CASE i1 = i /\ faults' = faults /\ u1 = u + 1
    BY <1>2, <2>1, <2>2, <2>3, <2>8 DEF c1, m1
  <2> QED
    BY <1>4, <2>4, <2>5, <2>6, <2>7, <2>8
<1> QED
  BY <1>5 DEF Bounded, L1, C1, i1, u1, Leaders

\* Nothing is said of a due time without a job.
LEMMA UnservedBounded ==
  ASSUME PeriodicInv', NEW e \in Due, made'[e] = 0
  PROVE  Bounded(e)'
<1> DEFINE L1 == Late(e)'
           C1 == Creators(e)'
           u1 == updates'[e.task]
<1>1. L1 \in SUBSET Schedulers /\ C1 \in SUBSET L1
  BY DEF Late, Creators
<1>2. u1 \in Nat /\ faults' \in Nat
  BY DEF PeriodicInv, TypeOK, Due
<1> HIDE DEF L1, C1, u1
<1>3. /\ Cardinality(C1) \in Nat /\ Cardinality(L1) \in Nat /\ Leaders \in Nat
      /\ Cardinality(C1) <= Cardinality(L1)
  BY <1>1, Sizes
<1>4. Cardinality(L1) <= Triangle(Cardinality(L1)) /\ Triangle(Cardinality(L1)) \in Nat
  BY <1>3, TriangleGrows
<1>5. Leaders * u1 \in Nat
  BY <1>2, <1>3
<1>6. Cardinality(C1) <= Triangle(Cardinality(L1)) + faults' + Leaders * u1
  BY <1>2, <1>3, <1>4, <1>5
<1>7. 0 + Cardinality(C1) = Cardinality(C1)
  BY <1>3
<1> QED
  BY <1>6, <1>7 DEF Bounded, L1, C1, u1, Leaders

\* A step of one instance, which does not become early by it.
LEMMA OneMoves ==
  ASSUME NEW s \in Schedulers, NEW e \in Due, \A t \in Schedulers \ {s} : loop'[t] = loop[t],
         IsEarly(s, e)' => IsEarly(s, e)
  PROVE  /\ Late(e) \subseteq Late(e)'
         /\ (RowShows(e)' => RowShows(e)) =>
              /\ Creators(e)' \subseteq Creators(e) \cup {s}
              /\ (~IsEarly(s, e)' /\ MayCreate(s, e)' => ~IsEarly(s, e) /\ MayCreate(s, e)) =>
                   Creators(e)' \subseteq Creators(e)
              /\ ~MayCreate(s, e)' => Creators(e)' \subseteq Creators(e) \ {s}
<1>1. \A t \in Schedulers \ {s} : IsEarly(t, e)' <=> IsEarly(t, e)
  BY DEF IsEarly, Holds, At
<1>2. ASSUME RowShows(e)' => RowShows(e)
      PROVE  \A t \in Schedulers \ {s} : MayCreate(t, e)' => MayCreate(t, e)
  BY <1>2 DEF MayCreate, At
<1>3. Late(e) \subseteq Late(e)'
  BY <1>1 DEF Late
<1>4. ASSUME RowShows(e)' => RowShows(e)
      PROVE  /\ Creators(e)' \subseteq Creators(e) \cup {s}
             /\ (~IsEarly(s, e)' /\ MayCreate(s, e)' => ~IsEarly(s, e) /\ MayCreate(s, e)) =>
                  Creators(e)' \subseteq Creators(e)
             /\ ~MayCreate(s, e)' => Creators(e)' \subseteq Creators(e) \ {s}
  BY <1>1, <1>2, <1>4 DEF Late, Creators
<1> QED
  BY <1>3, <1>4

\* A step that no instance takes.
LEMMA NoneMoves ==
  ASSUME NEW e \in Due, loop' = loop
  PROVE  /\ Late(e)' = Late(e)
         /\ (RowShows(e)' => RowShows(e)) => Creators(e)' \subseteq Creators(e)
<1>1. \A t \in Schedulers : IsEarly(t, e)' <=> IsEarly(t, e)
  BY DEF IsEarly, Holds, At
<1>2. ASSUME RowShows(e)' => RowShows(e), NEW t \in Schedulers
      PROVE  MayCreate(t, e)' => MayCreate(t, e)
  BY <1>2 DEF MayCreate, At
<1>3. Late(e)' = Late(e)
  BY <1>1 DEF Late
<1>4. ASSUME RowShows(e)' => RowShows(e) PROVE Creators(e)' \subseteq Creators(e)
  BY <1>2, <1>3, <1>4 DEF Creators, Late
<1> QED
  BY <1>3, <1>4

LEMMA InitCount == Init => CountInv
<1> SUFFICES ASSUME Init PROVE CountInv
  OBVIOUS
<1>1. PeriodicInv
  BY InitPeriodic
<1>2. \A e \in Due : made[e] = 0 /\ updates[e.task] = 0 /\ faults = 0 /\ e.task \in Tasks
  BY DEF Init, Due
<1>3. \A s \in Schedulers : TodoOK(s)
  BY DEF Init, TodoOK, Idle, At
<1>4. ASSUME NEW e \in Due PROVE Bounded(e)
  <2>1. Late(e) \in SUBSET Schedulers /\ Creators(e) = {}
    BY DEF Init, Late, Creators, MayCreate, RowShows, Known, Idle, Due
  <2>2. Cardinality(Late(e)) \in Nat /\ Cardinality(Creators(e)) = 0 /\ Leaders * 0 = 0
    BY <2>1, Sizes, FS_EmptySet
  <2>3. Triangle(Cardinality(Late(e))) \in Nat
    BY <2>2, TriangleGrows
  <2> QED
    BY <1>2, <2>2, <2>3 DEF Bounded
<1> QED
  BY <1>1, <1>2, <1>3, <1>4, PeriodicAssumption DEF Init, CountInv, Served

LEMMA NextCount == Endless /\ CountInv /\ [Next]_vars => CountInv'
<1> SUFFICES ASSUME Endless, CountInv, [Next]_vars PROVE CountInv'
  OBVIOUS
<1>p. PeriodicInv /\ PeriodicInv'
  BY NextPeriodic DEF CountInv
<1> DEFINE Goal == /\ now' <= MaxTime
                   /\ \A s \in Schedulers : TodoOK(s)'
                   /\ \A e \in Due : Served(e)' /\ Bounded(e)'
<1>g. SUFFICES Goal
  BY <1>p DEF CountInv
<1>a. /\ now \in Nat /\ faults \in Nat /\ task \in [Tasks -> Row \cup {None}]
      /\ loop \in [Schedulers -> LoopState]
      /\ made \in [Due -> Nat] /\ updates \in [Tasks -> Nat]
      /\ \A s \in Schedulers : LoopOK(s) /\ TodoOK(s)
      /\ \A e \in Due : e.task \in Tasks /\ e.due \in Nat /\ Served(e) /\ Bounded(e)
      /\ now <= MaxTime /\ MaxTime \in Nat
  BY MatchesOf, PeriodicAssumption DEF CountInv, PeriodicInv, TypeOK, Due
<1> HIDE DEF Goal
\* Steps of the clock and of clients that do not write.
<1>q. ASSUME UNCHANGED <<task, loop, made, updates, faults>>, now' \in Nat, now <= now',
             now' <= MaxTime
      PROVE  Goal
  <2>1. \A e \in Due : RowShows(e)' <=> RowShows(e)
    BY <1>q DEF RowShows, Known
  <2>2. \A e \in Due : Bounded(e)'
    BY <1>p, <1>a, <1>q, <2>1, NoneMoves, StepBounded
  <2> QED
    BY <1>a, <1>q, <2>2 DEF Goal, TodoOK, Served, At, Known
\* Steps of an instance that leave the rows and the counts alone.
<1>r. ASSUME NEW s \in Schedulers, \A t \in Schedulers \ {s} : loop'[t] = loop[t],
             UNCHANGED <<now, task, made, updates, faults>>, TodoOK(s)',
             \A e \in Due : made[e] > 0 =>
               /\ IsEarly(s, e)' => IsEarly(s, e)
               /\ \/ ~IsEarly(s, e)' /\ MayCreate(s, e)' => ~IsEarly(s, e) /\ MayCreate(s, e)
                  \/ IsEarly(s, e) /\ ~IsEarly(s, e)'
      PROVE  Goal
  <2>1. ASSUME NEW e \in Due, made[e] > 0 PROVE Bounded(e)'
    <3>1. RowShows(e)' <=> RowShows(e)
      BY <1>r DEF RowShows, Known
    <3>2. /\ Late(e) \subseteq Late(e)'
          /\ Creators(e)' \subseteq Creators(e) \/ Late(e)' # Late(e)
      <4>1. CASE IsEarly(s, e) /\ ~IsEarly(s, e)'
        <5>1. s \in Late(e)' /\ s \notin Late(e)
          BY <4>1 DEF Late
        <5> QED
          BY <1>r, <2>1, <3>1, <5>1, OneMoves
      <4>2. CASE ~(IsEarly(s, e) /\ ~IsEarly(s, e)')
        BY <1>r, <2>1, <3>1, <4>2, OneMoves
      <4> QED
        BY <4>1, <4>2
    <3> QED
      BY <1>p, <1>a, <1>r, <3>2, StepBounded
  <2>2. ASSUME NEW e \in Due PROVE Bounded(e)'
    <3>1. CASE made[e] = 0
      BY <1>p, <1>r, <3>1, UnservedBounded
    <3> QED
      BY <1>a, <2>1, <3>1
  <2>3. \A t \in Schedulers : TodoOK(t)'
    BY <1>a, <1>r DEF TodoOK, At
  <2> QED
    BY <1>a, <1>r, <2>2, <2>3 DEF Goal, Served, Known
<1>1. CASE Tick
  BY <1>1, <1>a, <1>q DEF Tick
<1>2. CASE Environment
  BY <1>2, <1>a, <1>q DEF Environment
<1>3. ASSUME NEW s \in Schedulers, Elect(s) PROVE Goal
  <2>1. /\ loop[s].pc = "top" /\ loop'[s].pc \in {"top", "begin"}
        /\ loop'[s].todo = loop[s].todo /\ loop'[s].clock = loop[s].clock
        /\ \A t \in Schedulers \ {s} : loop'[t] = loop[t]
        /\ UNCHANGED <<now, task, made, updates, faults>>
    BY <1>3, <1>a DEF Elect, Become, LoopState, At
  <2>2. loop[s].todo = {} /\ TodoOK(s)'
    BY <1>a, <2>1 DEF TodoOK, At
  <2>3. ASSUME NEW e \in Due
        PROVE  /\ IsEarly(s, e)' => IsEarly(s, e)
               /\ ~IsEarly(s, e)' /\ MayCreate(s, e)' => ~IsEarly(s, e) /\ MayCreate(s, e)
    BY <2>1, <2>2 DEF IsEarly, Holds, MayCreate, RowShows, At, Known
  <2> QED
    BY <1>r, <2>1, <2>2, <2>3
<1>4. ASSUME NEW s \in Schedulers, BeginCycle(s) PROVE Goal
  <2>1. /\ loop'[s].pc = "query" /\ loop'[s].clock = now /\ loop'[s].todo = {}
        /\ loop[s].pc \in {"top", "begin"} /\ loop[s].todo = {}
        /\ \A t \in Schedulers \ {s} : loop'[t] = loop[t]
        /\ UNCHANGED <<task, made, rest>>
    BY <1>4, <1>a DEF BeginCycle, Become, LoopState, TodoOK, At
  <2>2. UNCHANGED <<now, task, made, updates, faults>> /\ TodoOK(s)'
    BY <2>1 DEF rest, TodoOK, At
  <2>3. ASSUME NEW e \in Due, made[e] > 0
        PROVE  /\ ~IsEarly(s, e)' /\ ~IsEarly(s, e)
               /\ MayCreate(s, e)' => MayCreate(s, e)
    <3>1. ~(now < e.due)
      BY <1>a, <2>3 DEF Served
    <3>2. ~IsEarly(s, e)'
      BY <2>1, <3>1 DEF IsEarly
    <3>3. ~IsEarly(s, e)
      BY <2>1 DEF IsEarly, Holds, At
    <3> QED
      BY <2>1, <3>2, <3>3 DEF MayCreate, RowShows, At, Known
  <2> QED
    BY <1>r, <2>1, <2>2, <2>3
<1>5. ASSUME NEW s \in Schedulers, QueryDue(s) PROVE Goal
  <2> DEFINE J == {Seen(k) : k \in DueAt(loop[s].clock)}
  <2>1. /\ loop'[s].pc \in {"create", "dispatch"}
        /\ loop'[s].todo = J
        /\ J # {} => loop'[s].pc = "create" /\ loop'[s].clock = loop[s].clock
        /\ \A t \in Schedulers \ {s} : loop'[t] = loop[t]
        /\ UNCHANGED <<task, made, rest>> /\ At(s, "query")
    <3>0. J \in SUBSET Sighting
      BY <1>a DEF DueAt, Sighting, Seen, Known, Row
    <3> HIDE DEF J
    <3>1. loop' = [loop EXCEPT ![s] = Onward(s, J)] /\ loop[s].pc = "query"
      BY <1>5 DEF QueryDue, Become, At, J
    <3> QED
      BY <1>5, <1>p, <1>a, <3>0, <3>1, OnwardOK DEF QueryDue, At
  <2>2. /\ \A d \in J : /\ Known(d.task) /\ task[d.task].next = d.due
                        /\ d.due <= loop[s].clock
        /\ \A c, d \in J : c.task = d.task => c = d
    BY DEF DueAt, Seen
  <2> HIDE DEF J
  <2>3. UNCHANGED <<now, task, made, updates, faults>> /\ TodoOK(s)'
    BY <2>1, <2>2 DEF rest, TodoOK, At
  <2>4. ASSUME NEW e \in Due
        PROVE  /\ IsEarly(s, e)' => IsEarly(s, e)
               /\ ~IsEarly(s, e) /\ MayCreate(s, e)' => MayCreate(s, e)
    <3>1. IsEarly(s, e)' => IsEarly(s, e)
      BY <2>1 DEF IsEarly, Holds, At
    <3>2. MayCreate(s, e)' => MayCreate(s, e)
      BY <2>1, <2>2 DEF MayCreate, RowShows, At, Known, DueOf
    <3> QED
      BY <3>1, <3>2
  <2> QED
    BY <1>r, <2>1, <2>3, <2>4
<1>6. ASSUME NEW s \in Schedulers, CreateJob(s) PROVE Goal
  <2>1. PICK x \in loop[s].todo :
          /\ made' = [made EXCEPT ![DueOf(x)] = Count(@)]
          /\ Become(s, [loop[s] EXCEPT !.pc = "save", !.current = x, !.todo = @ \ {x}])
    BY <1>6 DEF CreateJob
  <2> DEFINE e == DueOf(x)
  <2>2. /\ loop'[s].pc = "save" /\ loop'[s].clock = loop[s].clock /\ loop'[s].current = x
        /\ loop'[s].todo = loop[s].todo \ {x}
        /\ \A t \in Schedulers \ {s} : loop'[t] = loop[t]
        /\ UNCHANGED <<task, rest>> /\ loop[s].pc = "create"
    <3>1. UNCHANGED <<task, rest>> /\ loop[s].pc = "create"
      BY <1>6 DEF CreateJob, At
    <3>2. loop' = [loop EXCEPT ![s] =
                    [loop[s] EXCEPT !.pc = "save", !.current = x, !.todo = @ \ {x}]]
      BY <2>1 DEF Become
    <3> QED
      BY <1>a, <3>1, <3>2 DEF LoopState
  <2>3. /\ UNCHANGED <<now, task, updates, faults>>
        /\ e \in Due /\ e.task = x.task /\ e.due = x.due /\ Known(e.task)
        /\ e.due <= loop[s].clock /\ loop[s].clock <= now /\ loop[s].clock \in Nat
    <3>1. x \in Sighting /\ Known(x.task) /\ x.due <= loop[s].clock
          /\ loop[s].clock <= now /\ loop[s].clock \in Nat
      BY <1>a DEF LoopState, LoopOK, TodoOK
    <3> QED
      BY <2>2, <3>1 DEF rest, Sighting, Due, DueOf
  <2>a. \A d \in loop[s].todo : d.task = x.task => d = x
    BY <1>a DEF TodoOK
  <2> HIDE DEF e
  <2>4. /\ made'[e] \in Nat /\ made'[e] <= made[e] + 1
        /\ \A d \in Due \ {e} : made'[d] = made[d]
    BY <1>a, <2>1, <2>3, PeriodicAssumption DEF Count, e
  <2>5. ASSUME NEW d \in Due PROVE Bounded(d)'
    <3>1. /\ RowShows(d)' <=> RowShows(d)
          /\ Holds(s, d.task)' <=> Holds(s, d.task)
          /\ IsEarly(s, d)' <=> IsEarly(s, d)
      <4>1. Holds(s, d.task)' <=> Holds(s, d.task)
        BY <2>2 DEF Holds, At
      <4>2. ~At(s, "query") /\ ~At(s, "query")'
        BY <2>2 DEF At
      <4> QED
        BY <2>2, <2>3, <4>1, <4>2 DEF RowShows, IsEarly, Known
    <3>2. MayCreate(s, d)' => MayCreate(s, d) /\ d # e
      <4>1. ASSUME NEW y \in loop'[s].todo, DueOf(y) = d PROVE MayCreate(s, d) /\ d # e
        <5>1. y \in loop[s].todo /\ y # x /\ y.task = d.task
          BY <2>2, <4>1 DEF DueOf
        <5> QED
          BY <2>a, <2>3, <4>1, <5>1 DEF MayCreate
      <4>2. ASSUME RowShows(d)', ~(At(s, "save")' /\ loop'[s].current.task = d.task)
            PROVE  MayCreate(s, d) /\ d # e
        BY <2>2, <2>3, <3>1, <4>2 DEF MayCreate, At
      <4> QED
        BY <4>1, <4>2 DEF MayCreate
    <3>3. CASE d = e
      <4>1. s \in Creators(d)
        <5>1. MayCreate(s, d) /\ ~(loop[s].clock < d.due)
          BY <1>a, <2>1, <2>3, <3>3 DEF MayCreate, e
        <5> QED
          BY <5>1 DEF Creators, Late, IsEarly
      <4>2. Late(d) \subseteq Late(d)' /\ Creators(d)' \subseteq Creators(d) \ {s}
        BY <2>2, <3>1, <3>2, <3>3, OneMoves
      <4> QED
        BY <1>p, <1>a, <2>3, <2>4, <3>3, <4>1, <4>2, StepBounded
    <3>4. CASE d # e
      <4>1. Late(d) \subseteq Late(d)' /\ Creators(d)' \subseteq Creators(d)
        BY <2>2, <3>1, <3>2, OneMoves
      <4> QED
        BY <1>p, <1>a, <2>3, <2>4, <3>4, <4>1, StepBounded
    <3> QED
      BY <3>3, <3>4
  <2>6. \A d \in Due : Served(d)'
    BY <1>a, <2>3, <2>4 DEF Served, Known
  <2>7. \A t \in Schedulers : TodoOK(t)'
    <3>1. TodoOK(s)'
      BY <1>a, <2>a, <2>2 DEF TodoOK, At
    <3> QED
      BY <1>a, <2>2, <3>1 DEF TodoOK, At
  <2> QED
    BY <1>a, <2>3, <2>5, <2>6, <2>7 DEF Goal
<1>7. ASSUME NEW s \in Schedulers, SaveNext(s) PROVE Goal
  <2> DEFINE x == loop[s].current
             k == x.task
             t == loop[s].clock
  <2>1. /\ k \in Tasks /\ x.cron \in Crons /\ t \in Nat /\ t <= now /\ Known(k)
        /\ At(s, "save")
    BY <1>7, <1>a DEF SaveNext, LoopOK, LoopState, Sighting
  <2>2. UNCHANGED <<now, made, updates, faults>>
    BY <1>7 DEF SaveNext, rest
  <2>3. HasNext(x.cron, t)
    BY <1>a, <2>1 DEF Endless
  <2>4. /\ task' = [task EXCEPT ![k].next = NextFire(x.cron, t)]
        /\ Become(s, Onward(s, loop[s].todo))
    BY <1>7, <2>3 DEF SaveNext
  <2>5. NextFire(x.cron, t) > t /\ NextFire(x.cron, t) \in Nat
    BY <2>1, <2>3, FirstMatch, MatchesOf
  <2>6. /\ loop'[s].pc \in {"create", "dispatch"}
        /\ loop'[s].todo = loop[s].todo
        /\ loop[s].todo # {} => loop'[s].pc = "create" /\ loop'[s].clock = t
        /\ \A u \in Schedulers \ {s} : loop'[u] = loop[u]
    <3>1. loop[s].todo \in SUBSET Sighting
      BY <1>a DEF LoopState
    <3> QED
      BY <1>p, <1>a, <2>4, <3>1, OnwardOK DEF Become
  <2>7. /\ task'[k].next = NextFire(x.cron, t)
        /\ \A l \in Tasks : Known(l) => Known(l)'
        /\ \A l \in Tasks \ {k} : task'[l] = task[l]
    <3>1. task'[k] = [task[k] EXCEPT !.next = NextFire(x.cron, t)] /\ task[k] \in Row
          /\ \A l \in Tasks \ {k} : task'[l] = task[l]
      <4> HIDE DEF k, x, t
      <4> QED
        BY <1>a, <2>1, <2>4 DEF Known
    <3>2. \A l \in Tasks : Known(l) => Known(l)'
      <4> HIDE DEF k, x, t
      <4> QED
        BY <1>p, <2>1, <2>3, <2>4, MoveRow
    <3>3. task'[k].next = NextFire(x.cron, t)
      BY <3>1 DEF Row
    <3> QED
      BY <3>1, <3>2, <3>3
  <2>8. \A d \in loop[s].todo : d.task # k
    BY <1>a, <2>1 DEF TodoOK
  <2> HIDE DEF t
  <2>9. ASSUME NEW e \in Due PROVE Bounded(e)'
    <3>a. MayCreate(s, e)' /\ e.task # k => MayCreate(s, e)
      <4>1. Known(e.task)' /\ e.task # k => Known(e.task)
        BY <1>a, <2>7 DEF Known
      <4> QED
        BY <1>a, <2>1, <2>6, <2>7, <4>1 DEF MayCreate, RowShows
    <3>1. CASE e.task = k /\ t < e.due
      <4>1. IsEarly(s, e) /\ ~IsEarly(s, e)'
        BY <2>1, <2>6, <2>8, <3>1 DEF IsEarly, Holds, At, t
      <4>2. Late(e) \subseteq Late(e)' /\ Late(e)' # Late(e)
        <5>1. s \in Late(e)' /\ s \notin Late(e)
          BY <4>1 DEF Late
        <5> QED
          BY <2>6, <4>1, <5>1, OneMoves
      <4> QED
        BY <1>p, <1>a, <2>2, <4>2, StepBounded
    <3>2. CASE e.task = k /\ ~(t < e.due)
      <4>1. ~RowShows(e)'
        BY <1>a, <2>1, <2>5, <2>7, <3>2 DEF RowShows
      <4>2. ~IsEarly(s, e) /\ ~IsEarly(s, e)'
        BY <2>6, <2>8, <3>2 DEF IsEarly, Holds, At, t
      <4>3. MayCreate(s, e)' => MayCreate(s, e)
        BY <2>6, <4>1 DEF MayCreate
      <4>4. Late(e) \subseteq Late(e)' /\ Creators(e)' \subseteq Creators(e)
        BY <2>6, <4>1, <4>2, <4>3, OneMoves
      <4> QED
        BY <1>p, <1>a, <2>2, <4>4, StepBounded
    <3>3. CASE e.task # k
      <4>1. RowShows(e)' <=> RowShows(e)
        BY <1>a, <2>7, <3>3 DEF RowShows, Known
      <4>2. IsEarly(s, e)' <=> IsEarly(s, e)
        BY <2>1, <2>6, <3>3 DEF IsEarly, Holds, At, t
      <4>4. Late(e) \subseteq Late(e)' /\ Creators(e)' \subseteq Creators(e)
        BY <2>6, <3>a, <3>3, <4>1, <4>2, OneMoves
      <4> QED
        BY <1>p, <1>a, <2>2, <4>4, StepBounded
    <3> QED
      BY <3>1, <3>2, <3>3
  <2>10. \A e \in Due : Served(e)'
    BY <1>a, <2>2, <2>7 DEF Served
  <2>11. \A u \in Schedulers : TodoOK(u)'
    <3>1. TodoOK(s)'
      BY <1>a, <2>6 DEF TodoOK, At, t
    <3> QED
      BY <1>a, <2>6, <3>1 DEF TodoOK, At
  <2> QED
    BY <1>a, <2>2, <2>9, <2>10, <2>11 DEF Goal
<1>8. ASSUME NEW s \in Schedulers, EndCycle(s) PROVE Goal
  <2>1. /\ loop'[s] = Idle /\ UNCHANGED <<task, made, rest>> /\ loop[s].pc = "dispatch"
        /\ loop[s].todo = {} /\ \A t \in Schedulers \ {s} : loop'[t] = loop[t]
    BY <1>8, <1>a DEF EndCycle, Become, At, TodoOK
  <2>2. UNCHANGED <<now, task, made, updates, faults>> /\ TodoOK(s)'
    BY <2>1 DEF rest, TodoOK, Idle, At
  <2>3. ASSUME NEW e \in Due
        PROVE  ~IsEarly(s, e)' /\ ~IsEarly(s, e) /\ (MayCreate(s, e)' => MayCreate(s, e))
    BY <2>1 DEF IsEarly, Holds, MayCreate, RowShows, At, Idle, Known
  <2> QED
    BY <1>r, <2>1, <2>2, <2>3
<1>9. ASSUME NEW s \in Schedulers, CutOff(s) PROVE Goal
  <2>1. /\ loop'[s] = Idle /\ UNCHANGED <<now, task, made, updates>> /\ faults' = faults + 1
        /\ \A t \in Schedulers \ {s} : loop'[t] = loop[t]
    BY <1>9, <1>a DEF CutOff, Become
  <2>2. ASSUME NEW e \in Due PROVE Bounded(e)'
    <3>1. ~IsEarly(s, e)' /\ (RowShows(e)' <=> RowShows(e))
      BY <2>1 DEF IsEarly, Holds, RowShows, At, Idle, Known
    <3>2. Late(e) \subseteq Late(e)' /\ Creators(e)' \subseteq Creators(e) \cup {s}
      BY <2>1, <3>1, OneMoves
    <3> QED
      BY <1>p, <1>a, <2>1, <3>2, StepBounded
  <2>3. \A t \in Schedulers : TodoOK(t)'
    <3>1. TodoOK(s)'
      BY <2>1 DEF TodoOK, Idle, At
    <3> QED
      BY <1>a, <2>1, <3>1 DEF TodoOK, At
  <2> QED
    BY <1>a, <2>1, <2>2, <2>3 DEF Goal, Served, Known
<1>10. ASSUME NEW c \in Clients, Request(c) PROVE Goal
  BY <1>10, <1>a, <1>q DEF Request
<1>11. ASSUME NEW c \in Clients, SeekRow(c) PROVE Goal
  <2>1. UNCHANGED <<now, loop, made, faults>>
    BY <1>11 DEF SeekRow
  <2>2. CASE UNCHANGED <<task, updates>>
    BY <1>a, <1>q, <2>1, <2>2
  <2>3. ASSUME NEW k \in Named(client[c].name), task' = [task EXCEPT ![k] = FirstRow(c, TRUE)],
               updates' = [updates EXCEPT ![k] = @ + 1]
        PROVE  Goal
    <3>1. k \in Tasks /\ Known(k)
      BY DEF Named
    <3>2. /\ updates'[k] = updates[k] + 1
          /\ \A l \in Tasks \ {k} : task'[l] = task[l] /\ updates'[l] = updates[l]
      BY <1>a, <2>3, <3>1
    <3>3. ASSUME NEW e \in Due PROVE Bounded(e)'
      <4>1. CASE e.task = k
        BY <1>p, <1>a, <2>1, <3>2, <4>1, NoneMoves, StepBounded
      <4>2. CASE e.task # k
        <5>1. RowShows(e)' <=> RowShows(e)
          BY <1>a, <3>2, <4>2 DEF RowShows, Known
        <5>2. Late(e)' = Late(e) /\ Creators(e)' \subseteq Creators(e)
          BY <2>1, <5>1, NoneMoves
        <5> QED
          BY <1>p, <1>a, <2>1, <3>2, <4>2, <5>2, StepBounded
      <4> QED
        BY <4>1, <4>2
    <3>4. \A l \in Tasks : Known(l) => Known(l)'
      <4>1. HasNext(client[c].cron, client[c].clock)
            /\ client[c].clock \in Nat /\ client[c].cron \in Crons
        BY <1>11, <1>p DEF SeekRow, ClientAt, PeriodicInv, TypeOK, ClientOK, ClientState
      <4>2. Known(k)'
        BY <1>p, <2>3, <3>1, <4>1, MoveRow DEF FirstRow
      <4> QED
        BY <3>2, <4>2 DEF Known
    <3>5. \A e \in Due : Served(e)'
      BY <1>a, <2>1, <3>4 DEF Served
    <3> QED
      BY <1>a, <2>1, <3>3, <3>5 DEF Goal, TodoOK, At
  <2> QED
    BY <1>11, <2>2, <2>3 DEF SeekRow
<1>12. ASSUME NEW c \in Clients, InsertRow(c) PROVE Goal
  <2>1. PICK k \in Tasks, active \in BOOLEAN :
          ~Known(k) /\ task' = [task EXCEPT ![k] = FirstRow(c, active)]
    BY <1>12 DEF InsertRow
  <2>2. UNCHANGED <<now, loop, made, updates, faults>>
    BY <1>12 DEF InsertRow
  <2>3. \A l \in Tasks \ {k} : task'[l] = task[l]
    BY <1>a, <2>1
  <2>4. ASSUME NEW e \in Due PROVE Bounded(e)'
    <3>1. CASE e.task = k
      <4>1. made[e] = 0
        BY <1>a, <2>1, <3>1 DEF Served
      <4> QED
        BY <1>p, <2>2, <4>1, UnservedBounded
    <3>2. CASE e.task # k
      <4>1. RowShows(e)' <=> RowShows(e)
        BY <1>a, <2>3, <3>2 DEF RowShows, Known
      <4>2. Late(e)' = Late(e) /\ Creators(e)' \subseteq Creators(e)
        BY <2>2, <4>1, NoneMoves
      <4> QED
        BY <1>p, <1>a, <2>2, <4>2, StepBounded
    <3> QED
      BY <3>1, <3>2
  <2>5. \A e \in Due : Served(e)'
    BY <1>a, <2>1, <2>2, <2>3 DEF Served, Known
  <2> QED
    BY <1>a, <2>2, <2>4, <2>5 DEF Goal, TodoOK, At
<1>13. CASE UNCHANGED vars
  BY <1>13, <1>a, <1>q DEF vars
<1> QED
  BY <1>1, <1>2, <1>3, <1>4, <1>5, <1>6, <1>7, <1>8, <1>9, <1>10, <1>11, <1>12, <1>13
  DEF Next, Turn

\* However many instances believe they lead, a due time of a row gets at most one job from
\* each and one more each time a late save makes the row due again, and besides one for
\* each turn cut off and one from each for each seed -- if no schedule ends
\* (scheduler.py 88-116, seed_periodic_reports.py 50-68).
THEOREM JobsCorrect == ASSUME Endless PROVE Spec => []JobsPerDueTime
<1>1. Endless
  OBVIOUS
<1>2. Endless /\ Spec => []CountInv
  BY InitCount, NextCount, PTL DEF Spec
<1>3. CountInv => JobsPerDueTime
  <2>1. SUFFICES ASSUME CountInv, NEW e \in Due
                 PROVE  made[e] <= Triangle(Leaders) + faults + Leaders * updates[e.task]
    BY DEF JobsPerDueTime, Triangle
  <2>2. /\ made[e] \in Nat /\ faults \in Nat /\ updates[e.task] \in Nat
        /\ made[e] + Cardinality(Creators(e))
             <= Triangle(Cardinality(Late(e))) + faults + Leaders * updates[e.task]
    BY <2>1 DEF CountInv, PeriodicInv, TypeOK, Due, Bounded
  <2>3. Late(e) \in SUBSET Schedulers /\ Creators(e) \in SUBSET Late(e)
    BY DEF Late, Creators
  <2>4. /\ Cardinality(Creators(e)) \in Nat /\ Cardinality(Late(e)) \in Nat
        /\ Leaders \in Nat /\ Cardinality(Late(e)) <= Leaders
    BY <2>3, Sizes
  <2>5. /\ Triangle(Cardinality(Late(e))) <= Triangle(Leaders)
        /\ Triangle(Cardinality(Late(e))) \in Nat /\ Triangle(Leaders) \in Nat
    BY <2>4, TriangleGrows, TriangleMonotone
  <2>6. Leaders * updates[e.task] \in Nat
    BY <2>2, <2>4
  <2> QED
    BY <2>2, <2>4, <2>5, <2>6
<1> QED
  BY <1>1, <1>2, <1>3, PTL
=============================================================================
