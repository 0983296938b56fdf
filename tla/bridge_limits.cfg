\* Every queue, cache and window at its limit, over two missions.
SPECIFICATION Spec
CONSTANTS
  Commands = {c1, c2}
  SnapshotCommands = {}
  Events = {}
  ReliableEvents = {}
  MissionEnded = mission_ended
  MaxConns = 2
  MaxOutQueueMessages = 2
  CommandResultCacheLimit = 1
  ReliableEventJournalLimit = 1
  HeartbeatInterval = 1
  MaxTime = 1
  MaxMissions = 2
  SeenLimit = 1
  SeenEvicted = 1
  RollbackTolerance = 0
CHECK_DEADLOCK FALSE
INVARIANTS
  TypeOK
  WaitingIsPending
  NewestOwnsWriter
  ReexecutedOnlyAfterEviction

