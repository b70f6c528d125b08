SPECIFICATION Spec

CONSTANTS
  MaxRuns = 2
  FileCount = 2
  Checkpointing = TRUE
  NoFile = NoFile
  Faults = {"cut_off", "ghost", "db_error", "other_import"}

INVARIANTS
  TypeOK
  SnapshotsArePrefixes
  SnapshotsBacked

PROPERTIES
  NoRegress

CHECK_DEADLOCK FALSE
