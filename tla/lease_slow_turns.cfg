SPECIFICATION Spec

CONSTANTS
  s1 = s1
  s2 = s2
  Schedulers = {s1, s2}
  NoHolder = NoHolder
  TTL = 9
  Renewals = 3
  Turn = 3
  Worlds = {{}}

INVARIANTS
  RenewedInTime
