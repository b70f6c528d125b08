------------------------------ MODULE MCQuotas ------------------------------
EXTENDS TenantQuotas
CONSTANTS t1, t2

\* The first tenant submits all jobs but every third.
Mostly == [j \in Jobs |-> IF j % 3 = 0 THEN t2 ELSE t1]
=============================================================================
