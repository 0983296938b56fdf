\* One record is enough: its append is cut within a character.
SPECIFICATION Spec
CONSTANTS
  Candidates = {c1}
  MaxBytes = 2
  HistoryRecords = 1
  RetainedMissions = 2
  Cooldowns = {2}
  MaxWrites = 1
  MaxScopes = 2
  MaxLate = 1
CHECK_DEADLOCK FALSE
INVARIANT DaemonStarts
