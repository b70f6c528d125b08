SPECIFICATION FairSpec

CONSTANTS
  s1 = s1
  s2 = s2
  t1 = t1
  t2 = t2
  c1 = c1
  c2 = c2
  report = report
  seeded = seeded
  posted = posted
  NoHolder = NoHolder
  None = None
  Schedulers = {s1}
  Tasks = {t1}
  Names = {report}
  NameOf <- SameName
  Crons = {seeded}
  Fires <- Once
  SeedCron = seeded
  Clients = {c1}
  Seeders = {}
  MaxTime = 2
  MaxFaults = 0
  MaxMade = 2

PROPERTIES
  KeepsDispatching
