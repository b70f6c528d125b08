------------------------------- MODULE JobApi -------------------------------
(***************************************************************************)
(* The HTTP handlers that write job rows: submit, cancel and retry         *)
(* (src/src/api/routes/jobs.py).  Each is one compare-and-set, except      *)
(* retry, which deletes the dead-letter record in a second statement.      *)
(***************************************************************************)
EXTENDS JobTable

CONSTANT Requests   \* the requests clients make besides submit

ASSUME RequestsAssumption == Requests \subseteq {"cancel", "retry"}

VARIABLE retrying   \* jobs whose retry request won its CAS, delete still to come

apiVars == <<retrying>>

ApiInit   == retrying = {}
ApiTypeOK == retrying \subseteq Jobs

\* Ids are created_at order, so they are handed out in order.
Submit(j) ==
  /\ job[j].state = "ABSENT"
  /\ \A i \in Jobs : i < j => job[i].state # "ABSENT"
  /\ Write(j, FreshRow)
  /\ UNCHANGED <<deadLetters, node, silent, retrying>>

Cancel(j) ==
  /\ "cancel" \in Requests
  /\ job[j].state \in CANCELLABLE_STATES
  /\ Write(j, Cancelled(job[j]))
  /\ UNCHANGED <<deadLetters, node, silent, retrying>>

\* Bound: at most one retry request per job is between its two statements.
RetryClaim(j) ==
  /\ "retry" \in Requests
  /\ j \notin retrying
  /\ job[j].state \in RETRYABLE_STATES
  /\ Write(j, FreshRow)
  /\ retrying' = retrying \cup {j}
  /\ UNCHANGED <<deadLetters, node, silent>>

RetryCleanup(j) ==
  /\ j \in retrying
  /\ retrying' = retrying \ {j}
  /\ deadLetters' = deadLetters \ {j}
  /\ UNCHANGED <<job, node, silent>>

\* The request dies between its two statements.
RetryLost(j) ==
  /\ j \in retrying
  /\ retrying' = retrying \ {j}
  /\ UNCHANGED tableVars

Request == \E j \in Jobs : Submit(j) \/ Cancel(j) \/ RetryClaim(j) \/ RetryCleanup(j)
=============================================================================
