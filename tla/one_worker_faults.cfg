SPECIFICATION Spec

CONSTANTS
  w1 = w1
  w2 = w2
  s1 = s1
  s2 = s2
  t1 = t1
  Jobs = {1}
  Workers = {w1}
  Schedulers = {s1}
  Tenants = {t1}
  TenantOf <- OneTenant
  Quota <- WideQuota
  MaxRetries = 2
  MaxInflight = 1
  NoWorker = NoWorker
  NoHolder = NoHolder
  NoJob = NoJob
  Requests = {"cancel", "retry"}
  Faults = {"worker_crash", "shutdown", "stall", "db_error", "restart"}

SYMMETRY Symmetry

INVARIANTS
  TypeOK
  OwnerMatchesState
  RunMatchesRow
  AttemptsBounded

PROPERTIES
  TimedOutOnlyIfLate
  CompletedByCurrentRun
  LifecycleSpec
