---------------------------- MODULE JobLifecycle ----------------------------
(***************************************************************************)
(* What the system promises about one job, however many schedulers and     *)
(* workers handle it: which changes of the row a client can see, one at a  *)
(* time.  The states are JobState of src/src/constants.py; the changes are *)
(* those the compare-and-set writes of the program can make between them.  *)
(***************************************************************************)
EXTENDS Naturals

CONSTANTS Jobs, Workers, NoWorker

VARIABLES
  state,    \* Job.state, ABSENT before it is submitted
  attempt,  \* Job.attempt: runs started since it was submitted or revived
  worker    \* Job.assigned_worker

vars == <<state, attempt, worker>>

Init == /\ state   = [j \in Jobs |-> "ABSENT"]
        /\ attempt = [j \in Jobs |-> 0]
        /\ worker  = [j \in Jobs |-> NoWorker]

Move(j, s, w) == /\ state' = [state EXCEPT ![j] = s]
                 /\ worker' = [worker EXCEPT ![j] = w]

Submit(j) ==
  /\ state[j] = "ABSENT"
  /\ Move(j, "QUEUED", NoWorker)
  /\ UNCHANGED attempt

\* A free job is given to one worker...
Assign(j) ==
  /\ state[j] = "QUEUED"
  /\ \E w \in Workers : Move(j, "SCHEDULED", w)
  /\ UNCHANGED attempt

\* ...which alone starts it, and each start is counted.
Start(j) ==
  /\ state[j] = "SCHEDULED"
  /\ Move(j, "RUNNING", worker[j])
  /\ attempt' = [attempt EXCEPT ![j] = @ + 1]

Complete(j) ==
  /\ state[j] = "RUNNING"
  /\ Move(j, "COMPLETED", worker[j])
  /\ UNCHANGED attempt

TimeOut(j) ==
  /\ state[j] = "RUNNING"
  /\ Move(j, "TIMED_OUT", worker[j])
  /\ UNCHANGED attempt

\* A failed run, a lost worker, a timeout: back to the queue, or the end.
GiveUp(j) ==
  /\ state[j] \in {"SCHEDULED", "RUNNING", "TIMED_OUT"}
  /\ Move(j, "QUEUED", NoWorker) \/ Move(j, "DEAD_LETTER", NoWorker)
  /\ UNCHANGED attempt

Cancel(j) ==
  /\ state[j] \in {"QUEUED", "SCHEDULED", "RUNNING"}
  /\ Move(j, "CANCELLED", worker[j])
  /\ UNCHANGED attempt

\* Only a client revives a dead job, and its attempts count afresh.
Revive(j) ==
  /\ state[j] = "DEAD_LETTER"
  /\ Move(j, "QUEUED", NoWorker)
  /\ attempt' = [attempt EXCEPT ![j] = 0]

Next == \E j \in Jobs :
  \/ Submit(j) \/ Assign(j) \/ Start(j) \/ Complete(j)
  \/ TimeOut(j) \/ GiveUp(j) \/ Cancel(j) \/ Revive(j)

Spec == Init /\ [][Next]_vars
=============================================================================
