\* Reliable and lossy events, three connections, two missions.
SPECIFICATION Spec
CONSTANTS
  Commands = {}
  SnapshotCommands = {}
  Events = {e1, e2, l1}
  ReliableEvents = {e1, e2}
  MissionEnded = mission_ended
  MaxConns = 3
  MaxOutQueueMessages = 6
  CommandResultCacheLimit = 2
  ReliableEventJournalLimit = 3
  HeartbeatInterval = 1
  MaxTime = 0
  MaxMissions = 2
  SeenLimit = 8
  SeenEvicted = 2
  RollbackTolerance = 0
CHECK_DEADLOCK FALSE
INVARIANTS
  AppliedInOrder

