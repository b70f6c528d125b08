SPECIFICATION Spec

CONSTANTS
  h1 = h1
  h2 = h2
  v1 = v1
  v2 = v2
  Imports = {1, 2}
  Hosts = {h1, h2}
  Variants = {v1, v2}
  FileCount = 2
  Flawed = {1}
  Days = 2
  MaxMoves = 1
  Worlds <- InTurnAndNot

INVARIANTS
  TypeOK
  MarkedWasRead
  ContentImportedOnce
  EveryFileRead

PROPERTIES
  MarkedIsReported
  NothingLeftOut

CHECK_DEADLOCK FALSE
