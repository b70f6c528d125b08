SPECIFICATION Spec

CONSTANTS
  MaxRuns = 3
  FileCount = 3
  Checkpointing = TRUE
  NoFile = NoFile
  Faults = {"cut_off", "other_import"}

INVARIANTS
  CompletedStagesNotRepeated
  RecordsMatchFiles
  NothingLeftBehind
  ImportedIsReported

CHECK_DEADLOCK FALSE
