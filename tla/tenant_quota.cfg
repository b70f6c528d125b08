SPECIFICATION FairSpec

CONSTANTS
  w1 = w1
  w2 = w2
  s1 = s1
  s2 = s2
  t1 = t1
  Jobs = {1, 2}
  Workers = {w1}
  Schedulers = {s1}
  Tenants = {t1}
  TenantOf <- OneTenant
  Quota <- OneQuota
  MaxRetries = 2
  MaxInflight = 2
  NoWorker = NoWorker
  NoHolder = NoHolder
  NoJob = NoJob
  Requests = {}
  Faults = {}

INVARIANTS
  QuotaBounded

PROPERTIES
  EveryJobSettles
