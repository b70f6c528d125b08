-------------------------- MODULE LeaderElection --------------------------
(***************************************************************************)
(* The leader lease with clocks: src/src/scheduler/leader.py and the loop  *)
(* in src/src/scheduler/scheduler.py that calls it.  A turn is one round   *)
(* of the loop, from the leader check to the end of the sleep; a leader    *)
(* renews its lease every so many turns, not every so many seconds.        *)
(*                                                                         *)
(* Times are kept as ages: how long ago renewed_at is, how long ago an     *)
(* instance read its clock, how long its turn has taken.                   *)
(***************************************************************************)
EXTENDS Integers, FiniteSets

CONSTANTS
  Schedulers,
  NoHolder,
  TTL,       \* LEADER_LOCK_TTL, in units of SCHEDULER_LOOP_INTERVAL
  Renewals,  \* LEADER_HEARTBEAT_INTERVAL / SCHEDULER_LOOP_INTERVAL
  Turn,      \* the longest a turn takes while its instance does not stall
  Worlds     \* the sets of {"stall", "db_error", "restart", "kill"} to choose from

ASSUME ElectionAssumption ==
  /\ IsFiniteSet(Schedulers) /\ Schedulers # {} /\ NoHolder \notin Schedulers
  /\ TTL \in Nat /\ Renewals \in Nat \ {0} /\ Turn \in Nat \ {0}

VARIABLES
  holder,   \* holder_id of the row, NoHolder if there is none
  age,      \* age of its renewed_at
  leading,  \* instances whose is_leader is TRUE
  inst,     \* per instance: where it is in its turn
  faults    \* what may go wrong in this behaviour: chosen at its start, and kept

vars == <<holder, age, leading, inst, faults>>

Pc == {"top", "look", "create", "claim", "renew", "cycle", "sleep", "killed"}

\* turn is the age of the turn, stamp that of the clock reading, count is
\* _heartbeat_counter.
Instance == [pc : Pc, turn : Nat, stamp : Nat, count : Nat]

Fresh == [pc |-> "top", turn |-> 0, stamp |-> 0, count |-> 0]

Init ==
  /\ holder = NoHolder /\ age = 0
  /\ leading = {}
  /\ inst = [s \in Schedulers |-> Fresh]
  /\ faults \in Worlds

At(s, pc)      == inst[s].pc = pc
Goto(s, pc)    == inst' = [inst EXCEPT ![s].pc = pc]
ReadClock(s, pc) == inst' = [inst EXCEPT ![s].pc = pc, ![s].stamp = 0]

-----------------------------------------------------------------------------
(* try_acquire *)

BeginAcquire(s) ==
  /\ At(s, "top") /\ s \notin leading
  /\ ReadClock(s, "look")
  /\ UNCHANGED <<holder, age, leading>>

Look(s) ==
  /\ At(s, "look")
  /\ Goto(s, IF holder = NoHolder THEN "create" ELSE "claim")
  /\ UNCHANGED <<holder, age, leading>>

\* The row names s from now on, with the time s read.
Take(s) ==
  /\ holder' = s /\ age' = inst[s].stamp
  /\ leading' = leading \cup {s}
  /\ Goto(s, "cycle")

Fail(s) == Goto(s, "sleep") /\ UNCHANGED <<holder, age, leading>>

Create(s) ==
  /\ At(s, "create")
  /\ IF holder = NoHolder THEN Take(s) ELSE Fail(s)

\* Mutants: the cutoff forgets the TTL; it is that of two leases.
LateAtOnce(s) == age > inst[s].stamp
LateByTwo(s)  == age > inst[s].stamp + 2 * TTL

\* renewed_at is before the cutoff, which s computed from the time it read.
Late(s) == age > inst[s].stamp + TTL

Claim(s) ==
  /\ At(s, "claim")
  /\ IF holder = s \/ Late(s) THEN Take(s) ELSE Fail(s)

-----------------------------------------------------------------------------
(* A leader's turn *)

BeginRenewal(s) ==
  /\ At(s, "top") /\ s \in leading
  /\ inst[s].count + 1 >= Renewals
  /\ inst' = [inst EXCEPT ![s].pc = "renew", ![s].stamp = 0, ![s].count = 0]
  /\ UNCHANGED <<holder, age, leading>>

\* Mutant: the lease is looked at and not written.
RenewUnwritten(s) ==
  /\ At(s, "renew")
  /\ IF holder = s THEN Goto(s, "cycle") /\ UNCHANGED leading
                   ELSE leading' = leading \ {s} /\ Goto(s, "top")
  /\ UNCHANGED <<holder, age>>

\* renew_heartbeat; who lost the lease goes back to the check without a sleep.
Renew(s) ==
  /\ At(s, "renew")
  /\ IF holder = s
       THEN age' = inst[s].stamp /\ Goto(s, "cycle") /\ UNCHANGED leading
       ELSE leading' = leading \ {s} /\ Goto(s, "top") /\ UNCHANGED age
  /\ UNCHANGED holder

\* Mutant: the counter counts down from nothing.
BeginCycleCountingDown(s) ==
  /\ At(s, "top") /\ s \in leading
  /\ inst[s].count + 1 < Renewals
  /\ inst' = [inst EXCEPT ![s].pc = "cycle", ![s].count = @ - 1]
  /\ UNCHANGED <<holder, age, leading>>

BeginCycle(s) ==
  /\ At(s, "top") /\ s \in leading
  /\ inst[s].count + 1 < Renewals
  /\ inst' = [inst EXCEPT ![s].pc = "cycle", ![s].count = @ + 1]
  /\ UNCHANGED <<holder, age, leading>>

EndCycle(s) ==
  /\ At(s, "cycle")
  /\ Fail(s)

\* The sleep takes one SCHEDULER_LOOP_INTERVAL at least.
Wake(s) ==
  /\ At(s, "sleep") /\ inst[s].turn >= 1
  /\ inst' = [inst EXCEPT ![s].pc = "top", ![s].turn = 0]
  /\ UNCHANGED <<holder, age, leading>>

-----------------------------------------------------------------------------
(* Time and faults.                                                        *)

\* Bound: an age beyond this one is as good as any.
Oldest == TTL + 3 * Turn

Older(a) == IF a < Oldest THEN a + 1 ELSE a

\* Time passes while no turn is at its limit -- or if instances stall.
Tick ==
  /\ \A s \in Schedulers : inst[s].turn < Turn \/ At(s, "killed") \/ "stall" \in faults
  /\ age' = IF holder = NoHolder THEN age ELSE Older(age)
  /\ inst' = [s \in Schedulers |->
       [inst[s] EXCEPT !.turn = Older(@), !.stamp = Older(@)]]
  /\ UNCHANGED <<holder, leading>>

\* An exception out of a statement is logged, and the instance sleeps.
Error(s) ==
  /\ "db_error" \in faults
  /\ inst[s].pc \in {"look", "claim", "renew"}
  /\ Fail(s)

\* The process dies, and may come back under the same instance id.
Die(s) ==
  /\ leading' = leading \ {s}
  /\ \/ "restart" \in faults /\ inst' = [inst EXCEPT ![s] = Fresh]
     \/ /\ "kill" \in faults /\ \E t \in Schedulers \ {s} : ~At(t, "killed")
        /\ inst' = [inst EXCEPT ![s] = [Fresh EXCEPT !.pc = "killed"]]
  /\ UNCHANGED <<holder, age>>

Step(s) ==
  \/ BeginAcquire(s) \/ Look(s) \/ Create(s) \/ Claim(s)
  \/ BeginRenewal(s) \/ Renew(s) \/ BeginCycle(s) \/ EndCycle(s) \/ Wake(s)

Next ==
  /\ Tick \/ \E s \in Schedulers : Step(s) \/ Error(s) \/ Die(s)
  /\ UNCHANGED faults

Spec == Init /\ [][Next]_vars

-----------------------------------------------------------------------------
TypeOK ==
  /\ holder \in Schedulers \cup {NoHolder} /\ age \in Nat
  /\ leading \subseteq Schedulers
  /\ inst \in [Schedulers -> Instance]
  /\ faults \in Worlds

\* Nobody stalls, no statement fails, and a lease outlives the turns between two
\* renewals together with the turn of the renewal.
Timely ==
  /\ faults \cap {"stall", "db_error"} = {}
  /\ (Renewals + 1) * Turn <= TTL

\* If no instance stalls and a lease outlives the turns between two renewals and
\* the one of the renewal, no two instances believe they lead (leader.py 60-91,
\* scheduler.py 46-60).  A turn's clock reading is as old as the turn at most, and
\* turns are counted, not timed: that is why their length decides.
OneLeader == Timely => Cardinality(leading) <= 1

\* When the leader is killed, an instance survives and no other thing goes wrong, the
\* lease is taken over: it is never older than the TTL and two turns -- the one in which
\* the survivor looked a moment too early, and the next (leader.py 37-40 and 60-74).
TakenOver == faults \subseteq {"kill"} => age <= TTL + 2 * Turn

\* Leadership is what is left when the clocks are forgotten.
Lease == INSTANCE Leadership WITH
  expired  <- age > TTL,
  creating <- {s \in Schedulers : At(s, "create")}

\* The election does what the other modules assume of it, whatever stalls, fails or
\* restarts (Leadership: scheduler.py 44-60 over leader.py 35-91).
LeaseSpec == Lease!LeaseSpec

-----------------------------------------------------------------------------
\* A leader that neither stalls nor fails has renewed its lease within
\* LEADER_HEARTBEAT_INTERVAL, and the turn in which it does so.
RenewedInTime == faults = {} /\ leading # {} => age <= Renewals + Turn
=============================================================================
