\* The queue overflows while its head is sent in part.
SPECIFICATION Spec
CONSTANTS
  Commands = {}
  SnapshotCommands = {}
  Events = {l1, l2, l3}
  ReliableEvents = {}
  MissionEnded = mission_ended
  MaxConns = 1
  MaxOutQueueMessages = 2
  CommandResultCacheLimit = 2
  ReliableEventJournalLimit = 2
  HeartbeatInterval = 1
  MaxTime = 0
  MaxMissions = 1
  SeenLimit = 4
  SeenEvicted = 2
  RollbackTolerance = 1
CHECK_DEADLOCK FALSE
INVARIANTS
  NoGarbledLine

