SPECIFICATION Spec

CONSTANTS
  h1 = h1
  h2 = h2
  v1 = v1
  v2 = v2
  Imports = {1, 2}
  Hosts = {h1}
  Variants = {v1}
  FileCount = 2
  Flawed = {}
  Days = 2
  MaxMoves = 0
  Worlds = {{"midnight"}}

INVARIANTS
  ReportOfItsDay

CHECK_DEADLOCK FALSE
