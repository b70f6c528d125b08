------------------------------ MODULE MCEndure ------------------------------
EXTENDS Endure, TLC
CONSTANTS w1, w2, s1, s2, t1
OneTenant == [j \in Jobs |-> t1]
OneQuota == [t \in Tenants |-> 1]
WideQuota == [t \in Tenants |-> Cardinality(Jobs)]
Symmetry == Permutations(Workers) \cup Permutations(Schedulers)
=============================================================================
