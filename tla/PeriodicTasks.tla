--------------------------- MODULE PeriodicTasks ---------------------------
(***************************************************************************)
(* Jobs on a schedule: _enqueue_periodic_tasks of the scheduler loop       *)
(* (src/src/scheduler/scheduler.py), the periodic_tasks rows, and the two  *)
(* ways a row comes about: the seed_periodic_reports command and           *)
(* POST /periodic-tasks.                                                   *)
(*                                                                         *)
(* A leader reads its clock, queries the rows that are due, and then, row  *)
(* by row, creates a job and saves the next time.  The save is blind and   *)
(* goes by the cron expression that was read: it knows neither whether     *)
(* another leader has been there nor whether a seed has changed the row.   *)
(***************************************************************************)
EXTENDS Leadership, Integers

CONSTANTS
  Tasks,    \* row ids
  None,     \* no row
  Names,    \* task names (of one tenant)
  NameOf,   \* the name a row has when it is created
  Crons,    \* cron expressions
  Fires,    \* per cron expression: the times it matches
  Clients,  \* processes that seed or create a task, once each
  Seeders,  \* those of them that run seed_periodic_reports
  SeedCron, \* the cron expression these seed
  MaxTime,  \* bound on the clock
  MaxFaults,
  MaxMade   \* bound on the count of the jobs of one due time

ASSUME PeriodicAssumption ==
  /\ NameOf \in [Tasks -> Names] /\ Fires \in [Crons -> SUBSET Nat]
  /\ Seeders \subseteq Clients /\ SeedCron \in Crons
  /\ MaxTime \in Nat /\ MaxFaults \in Nat /\ MaxMade \in Nat

VARIABLES
  now,
  task,     \* the rows
  loop,     \* per instance: where it is in its turn and what it read
  client,   \* per client: the same
  made,     \* history: jobs created for each due time of each row
  updates,  \* history: seeds that moved a row
  faults    \* history: turns cut off

vars == <<now, task, loop, client, made, updates, faults, leaseVars>>

Matches == UNION {Fires[c] : c \in Crons}

Row == [active : BOOLEAN, cron : Crons, next : Matches]

\* A due time of a row, and a row as a leader remembers it: the time that made it due
\* and the cron expression it had.
Due      == [task : Tasks, due : Matches]
Sighting == [task : Tasks, due : Matches, cron : Crons]

ASSUME NoneAssumption == None \notin Row /\ None \notin Sighting

Known(k) == task[k] # None

LoopState == [pc : {"top", "begin", "query", "create", "save", "dispatch"}, clock : Nat,
              todo : SUBSET Sighting, current : Sighting \cup {None}]
Idle      == [pc |-> "top", clock |-> 0, todo |-> {}, current |-> None]

ClientState == [pc : {"idle", "seek", "insert", "done"}, clock : Nat, name : Names,
                cron : Crons]

Init ==
  /\ LeaseInit
  /\ now = 0
  /\ task = [k \in Tasks |-> None]
  /\ loop = [s \in Schedulers |-> Idle]
  /\ client \in [Clients -> [pc : {"idle"}, clock : {0}, name : Names, cron : Crons]]
  /\ \A c \in Seeders : client[c].cron = SeedCron
  /\ made = [e \in Due |-> 0]
  /\ updates = [k \in Tasks |-> 0]
  /\ faults = 0

-----------------------------------------------------------------------------
(* croniter.get_next: the first match after t; without one it raises.      *)

HasNext(c, t) == \E f \in Fires[c] : f > t

\* Mutants: the match after next; the time it starts from (get_current).
SkippedFire(c, t) ==
  CHOOSE f \in Fires[c] :
    \E g \in Fires[c] : t < g /\ g < f /\ \A h \in Fires[c] : h > t => h = g \/ f <= h
StartTime(c, t) == t

NextFire(c, t) ==
  CHOOSE f \in Fires[c] : f > t /\ \A g \in Fires[c] : g > t => f <= g

-----------------------------------------------------------------------------
(* The leader's turn *)

At(s, pc)     == loop[s].pc = pc
Become(s, st) == loop' = [loop EXCEPT ![s] = st]

rest == <<now, client, updates, faults, leaseVars>>

\* Mutant: who takes or renews the lease sleeps first, and renews it again.
ElectAndSleep(s) ==
  /\ At(s, "top")
  /\ NoRowFound(s) \/ CreateLease(s) \/ ClaimLease(s) \/ RenewLease(s)
  /\ UNCHANGED <<now, task, loop, client, made, updates, faults>>

\* Who takes or renews the lease goes on with the turn.
Elect(s) ==
  /\ At(s, "top")
  /\ NoRowFound(s) \/ CreateLease(s) \/ ClaimLease(s) \/ RenewLease(s)
  /\ Become(s, [loop[s] EXCEPT !.pc = IF s \in leading' THEN "begin" ELSE "top"])
  /\ UNCHANGED <<now, task, client, made, updates, faults>>

BeginCycle(s) ==
  /\ At(s, "begin") \/ (At(s, "top") /\ s \in leading)
  /\ Become(s, [loop[s] EXCEPT !.pc = "query", !.clock = now])
  /\ UNCHANGED <<task, made, rest>>

\* Where the turn goes on with the rows J still to be handled.
Onward(s, J) ==
  IF J = {} THEN [Idle EXCEPT !.pc = "dispatch"]
            ELSE [loop[s] EXCEPT !.pc = "create", !.todo = J, !.current = None]

\* Mutant: a row is due at its time only.
DueExactly(t) == {k \in Tasks : Known(k) /\ task[k].active /\ task[k].next = t}

DueAt(t) == {k \in Tasks : Known(k) /\ task[k].active /\ task[k].next <= t}

Seen(k) == [task |-> k, due |-> task[k].next, cron |-> task[k].cron]

QueryDue(s) ==
  /\ At(s, "query")
  /\ Become(s, Onward(s, {Seen(k) : k \in DueAt(loop[s].clock)}))
  /\ UNCHANGED <<task, made, rest>>

Count(n) == IF n < MaxMade THEN n + 1 ELSE n
DueOf(e) == [task |-> e.task, due |-> e.due]

\* The job; an error in record_event, or a crash, may keep the turn from going on.
CreateJob(s) ==
  /\ At(s, "create")
  /\ \E e \in loop[s].todo :
       /\ made' = [made EXCEPT ![DueOf(e)] = Count(@)]
       /\ Become(s, [loop[s] EXCEPT !.pc = "save", !.current = e, !.todo = @ \ {e}])
  /\ UNCHANGED <<task, rest>>

\* Mutant: the next time is computed and not saved.
SaveForgotten(s) ==
  /\ At(s, "save")
  /\ Become(s, Onward(s, loop[s].todo))
  /\ UNCHANGED <<task, made, rest>>

\* The next time by the cron expression read with the row and by the clock read before
\* that, and nothing else of the row; or the end of the turn if the schedule has no
\* next time.
SaveNext(s) ==
  /\ At(s, "save")
  /\ LET e == loop[s].current
     IN IF HasNext(e.cron, loop[s].clock)
          THEN /\ task' = [task EXCEPT ![e.task].next = NextFire(e.cron, loop[s].clock)]
               /\ Become(s, Onward(s, loop[s].todo))
          ELSE /\ Become(s, Idle)
               /\ UNCHANGED task
  /\ UNCHANGED <<made, rest>>

\* _schedule_cycle, which the modules Scheduler and Endure are about, and the sleep.
EndCycle(s) ==
  /\ At(s, "dispatch")
  /\ Become(s, Idle)
  /\ UNCHANGED <<task, made, rest>>

\* An exception out of a statement, or a restart, ends the turn.
CutOff(s) ==
  /\ ~At(s, "top") /\ faults < MaxFaults
  /\ faults' = faults + 1
  /\ Become(s, Idle)
  /\ UNCHANGED leaseVars \/ ForgetLease(s)
  /\ UNCHANGED <<now, task, client, made, updates>>

-----------------------------------------------------------------------------
(* Who writes the rows otherwise *)

\* A client that is done keeps none of its local variables.
ClientAt(c, pc)     == client[c].pc = pc
ClientBecome(c, st) == client' = [client EXCEPT ![c] = st]
Finished(c)         == [client[c] EXCEPT !.pc = "done", !.clock = 0, !.cron = SeedCron]

\* The clock is read, and the first time computed by the cron expression of the request
\* or of the command, before anything is looked up: the command goes on to look for its
\* row, the endpoint always adds one.
Request(c) ==
  /\ ClientAt(c, "idle")
  /\ HasNext(client[c].cron, now)
  /\ ClientBecome(c, [client[c] EXCEPT !.clock = now,
                         !.pc = IF c \in Seeders THEN "seek" ELSE "insert"])
  /\ UNCHANGED <<now, task, loop, made, updates, faults, leaseVars>>

Named(n) == {k \in Tasks : Known(k) /\ NameOf[k] = n}

FirstRow(c, active) == [active |-> active, cron |-> client[c].cron,
                        next |-> NextFire(client[c].cron, client[c].clock)]

\* update_or_create: one row is locked and written, cron expression and all, none leads
\* to an insert, several to MultipleObjectsReturned.
SeekRow(c) ==
  /\ ClientAt(c, "seek")
  /\ LET rows == Named(client[c].name)
     IN \/ /\ rows = {}
           /\ ClientBecome(c, [client[c] EXCEPT !.pc = "insert"])
           /\ UNCHANGED <<task, updates>>
        \/ \E k \in rows :
             /\ ClientBecome(c, Finished(c))
             /\ IF rows = {k}
                  THEN /\ task' = [task EXCEPT ![k] = FirstRow(c, TRUE)]
                       /\ updates' = [updates EXCEPT ![k] = @ + 1]
                  ELSE UNCHANGED <<task, updates>>
  /\ UNCHANGED <<now, loop, made, faults, leaseVars>>

\* Nothing makes the name of a row unique.
InsertRow(c) ==
  /\ ClientAt(c, "insert")
  /\ \E k \in Tasks, active \in BOOLEAN :
       /\ ~Known(k) /\ NameOf[k] = client[c].name
       /\ c \in Seeders => active
       /\ task' = [task EXCEPT ![k] = FirstRow(c, active)]
  /\ ClientBecome(c, Finished(c))
  /\ UNCHANGED <<now, loop, made, updates, faults, leaseVars>>

Tick ==
  /\ now < MaxTime
  /\ now' = now + 1
  /\ UNCHANGED <<task, loop, client, made, updates, faults, leaseVars>>

Environment == LeaseExpires /\ UNCHANGED <<now, task, loop, client, made, updates, faults>>

Turn(s) == BeginCycle(s) \/ QueryDue(s) \/ CreateJob(s) \/ SaveNext(s) \/ EndCycle(s)

Next ==
  \/ Tick \/ Environment
  \/ \E s \in Schedulers : Elect(s) \/ Turn(s) \/ CutOff(s)
  \/ \E c \in Clients : Request(c) \/ SeekRow(c) \/ InsertRow(c)

\* An instance goes on with its turn, and one without the lease keeps asking for it.
Acquire(s) == Elect(s) /\ s \notin leading

Spec     == Init /\ [][Next]_vars
FairSpec == Spec /\ \A s \in Schedulers : WF_vars(Turn(s)) /\ WF_vars(Acquire(s))

-----------------------------------------------------------------------------
TypeOK ==
  /\ LeaseTypeOK
  /\ now \in Nat /\ faults \in Nat
  /\ task \in [Tasks -> Row \cup {None}]
  /\ loop \in [Schedulers -> LoopState]
  /\ client \in [Clients -> ClientState]
  /\ made \in [Due -> Nat]
  /\ updates \in [Tasks -> Nat]

Leaders == Cardinality(Schedulers)

\* One instance creates one job for each due time of a row, and one more at most for
\* each turn that was cut off and for each seed that moved the row back to a time it
\* has had, having read its clock before.  With several, each may serve a due time,
\* and a leader that saves late may make the row due once more for the others; but
\* that is all (scheduler.py 88-116, seed_periodic_reports.py 50-68).
JobsPerDueTime ==
  \A e \in Due :
    made[e] <= ((Leaders * (Leaders + 1)) \div 2) + faults + Leaders * updates[e.task]

\* The row is set past a match of its own schedule that is still to come.
PassedOver(k) ==
  Known(k) /\ \E f \in Fires[task[k].cron] : now < f /\ f < task[k].next

SavesByOldCron(s, k) ==
  /\ At(s, "save") /\ ~At(s, "save")'
  /\ loop[s].current.task = k /\ loop[s].current.cron # task[k].cron

\* However many leaders, late saves and seeds there are, only one thing sets a row past a
\* match of its schedule: the save of an instance that read the row before a seed gave
\* it another cron expression (scheduler.py 91-95 and 112-116, seed 53-66, admin.py
\* 159-173).
NoMatchPassedOver ==
  [][\A k \in Tasks : PassedOver(k)' /\ ~PassedOver(k) =>
       \E s \in Schedulers : SavesByOldCron(s, k)]_vars

\* The row a seed has written follows the schedule it was seeded with
\* (seed_periodic_reports.py 4-5: "Creates (or updates) the PeriodicTask row ... daily at
\* 06:00 UTC").
SeedTakesEffect == \A k \in Tasks : updates[k] > 0 => ~PassedOver(k)

\* An instance that has read the row when it was due at another time: it may save late,
\* and move the row past a time at which it has become due since.
HeldForAnother(e) ==
  \E s \in Schedulers : \E d \in (loop[s].todo \cup {loop[s].current}) \ {None} :
    d.task = e.task /\ d.due # e.due

\* A row that is due gets its job for that time, unless a seed moves the row or a second
\* leader is late with it: faults end a turn, and the next one, of this or another
\* instance, finds the row due again (scheduler.py 88-116).
DueTasksRun ==
  \A e \in Due :
    e.task \in DueAt(now) /\ task[e.task].next = e.due /\ ~HeldForAnother(e)
      ~> made[e] > 0 \/ updates[e.task] > 0

\* The leader gets to _schedule_cycle again and again (scheduler.py 62-66).
KeepsDispatching == []<>(\E s \in Schedulers : At(s, "dispatch"))

\* Seeding creates the row or updates it (seed_periodic_reports.py 58-68).
OneRowPerName == \A k, l \in Tasks : Known(k) /\ Known(l) /\ NameOf[k] = NameOf[l] => k = l
=============================================================================
