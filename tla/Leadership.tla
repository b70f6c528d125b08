----------------------------- MODULE Leadership -----------------------------
(***************************************************************************)
(* The leader lease as the scheduler loop meets it: the scheduler_leader   *)
(* row and the is_leader flag each instance keeps in memory                *)
(* (src/src/scheduler/leader.py).  Time is abstracted to whether the row's *)
(* renewed_at is older than LEADER_LOCK_TTL by the reader's clock, which   *)
(* may become so at any moment: an instance can stall for any time.  The   *)
(* time an instance writes was read before the statement, so that a lease  *)
(* may be late as soon as it is claimed or renewed.  LeaderElection has    *)
(* the clocks, and implements this module.                                 *)
(***************************************************************************)
EXTENDS FiniteSets

CONSTANTS
  Schedulers,  \* instance ids
  NoHolder     \* the scheduler_leader row does not exist yet

ASSUME SchedulersAssumption == IsFiniteSet(Schedulers) /\ Schedulers # {}
ASSUME NoHolderAssumption   == NoHolder \notin Schedulers

VARIABLES
  holder,      \* holder_id of the row
  expired,     \* renewed_at < now - LEADER_LOCK_TTL
  leading,     \* instances whose is_leader is TRUE
  creating     \* instances that read no row and are about to create it

leaseVars == <<holder, expired, leading, creating>>

LeaseInit ==
  /\ holder = NoHolder
  /\ expired = FALSE
  /\ leading = {}
  /\ creating = {}

LeaseTypeOK ==
  /\ holder \in Schedulers \cup {NoHolder}
  /\ expired \in BOOLEAN
  /\ leading \subseteq Schedulers
  /\ creating \subseteq Schedulers

\* try_acquire when no row was read: the primary key lets one create succeed.
NoRowFound(s) ==
  /\ s \notin leading \cup creating
  /\ holder = NoHolder
  /\ creating' = creating \cup {s}
  /\ UNCHANGED <<holder, expired, leading>>

CreateLease(s) ==
  /\ s \in creating
  /\ creating' = creating \ {s}
  /\ IF holder = NoHolder
       THEN holder' = s /\ leading' = leading \cup {s} /\ expired' \in BOOLEAN
       ELSE UNCHANGED <<holder, expired, leading>>

\* try_acquire when the row exists: it is mine already, or its holder is late.
ClaimLease(s) ==
  /\ s \notin leading \cup creating
  /\ holder = s \/ (holder # NoHolder /\ expired)
  /\ holder' = s
  /\ expired' \in BOOLEAN
  /\ leading' = leading \cup {s}
  /\ UNCHANGED creating

RenewLease(s) ==
  /\ s \in leading
  /\ IF holder = s
       THEN expired' \in BOOLEAN /\ UNCHANGED leading
       ELSE leading' = leading \ {s} /\ UNCHANGED expired
  /\ UNCHANGED <<holder, creating>>

LeaseExpires ==
  /\ holder # NoHolder
  /\ ~expired
  /\ expired' = TRUE
  /\ UNCHANGED <<holder, leading, creating>>

\* The instance restarts under the same id: is_leader is in memory only.
ForgetLease(s) ==
  /\ leading' = leading \ {s}
  /\ creating' = creating \ {s}
  /\ UNCHANGED <<holder, expired>>

LeaseNext ==
  \/ LeaseExpires
  \/ \E s \in Schedulers :
       NoRowFound(s) \/ CreateLease(s) \/ ClaimLease(s) \/ RenewLease(s) \/ ForgetLease(s)

LeaseSpec == LeaseInit /\ [][LeaseNext]_leaseVars
=============================================================================
