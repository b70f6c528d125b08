----------------------------- MODULE MCPeriodic -----------------------------
EXTENDS PeriodicTasks, TLC

CONSTANTS t1, t2, s1, s2, c1, c2, report, seeded, posted

\* All rows carry the same name.
SameName == [k \in Tasks |-> report]

\* The command's schedule: two matches one after the other, then one later; what is posted
\* under the same name leaves the second out.
Often == [c \in Crons |-> IF c = seeded THEN {1, 2, 4} ELSE {1, 4}]
Once  == [c \in Crons |-> {1}]
=============================================================================
