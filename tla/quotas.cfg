SPECIFICATION FairSpec

CONSTANTS
  t1 = t1
  t2 = t2
  Tenants = {t1, t2}
  Jobs = {1, 2, 3, 4}
  TenantOf <- Mostly
  Quotas = {1, 2}
  Default = 3
  Room = 3
  MaxRequests = 2
  MaxFailures = 1

INVARIANTS
  TypeOK

PROPERTIES
  StartedWithinQuota
  QueuedJobsStart
