\* A small audit, compacted often, over two missions and client restarts.
SPECIFICATION Spec
CONSTANTS
  Candidates = {c1}
  MaxBytes = 2
  HistoryRecords = 1
  RetainedMissions = 2
  Cooldowns = {2}
  MaxWrites = 4
  MaxScopes = 2
  MaxLate = 1
CHECK_DEADLOCK FALSE
INVARIANTS
  TypeOK
  FileKeepsCheckpoints
  DiskIsMemory
  RecoveryUnchanged
