SPECIFICATION Spec

CONSTANTS
  MaxRuns = 2
  FileCount = 2
  Checkpointing = FALSE
  NoFile = NoFile
  Faults = {"cut_off"}

INVARIANTS
  RecordsMatchFiles

CHECK_DEADLOCK FALSE
