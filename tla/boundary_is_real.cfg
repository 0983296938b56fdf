\* A replayed old line is taken for a new mission.
SPECIFICATION Spec
CONSTANTS
  Commands = {c1}
  SnapshotCommands = {}
  Events = {e1}
  ReliableEvents = {e1}
  MissionEnded = mission_ended
  MaxConns = 2
  MaxOutQueueMessages = 6
  CommandResultCacheLimit = 2
  ReliableEventJournalLimit = 2
  HeartbeatInterval = 1
  MaxTime = 2
  MaxMissions = 1
  SeenLimit = 4
  SeenEvicted = 2
  RollbackTolerance = 1
CHECK_DEADLOCK FALSE
INVARIANTS
  EveryBoundaryIsReal

