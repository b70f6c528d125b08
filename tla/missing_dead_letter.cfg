SPECIFICATION Spec

CONSTANTS
  w1 = w1
  w2 = w2
  s1 = s1
  s2 = s2
  t1 = t1
  Jobs = {1}
  Workers = {w1}
  Schedulers = {s1}
  Tenants = {t1}
  TenantOf <- OneTenant
  Quota <- WideQuota
  MaxRetries = 1
  MaxInflight = 1
  NoWorker = NoWorker
  NoHolder = NoHolder
  NoJob = NoJob
  Requests = {}
  Faults = {}

SYMMETRY Symmetry

INVARIANTS
  DeadLetterRecorded
