SPECIFICATION Spec

CONSTANTS
  s1 = s1
  s2 = s2
  Schedulers = {s1, s2}
  NoHolder = NoHolder
  TTL = 3
  Renewals = 2
  Turn = 1
  Worlds <- DeathsToAnything

INVARIANTS
  TypeOK
  OneLeader
  TakenOver

PROPERTIES
  LeaseSpec
