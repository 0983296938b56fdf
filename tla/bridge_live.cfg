\* Calls are answered and reliable events arrive although connections are lost; ids are soon forgotten.
SPECIFICATION FairSpec
CONSTANTS
  Commands = {c1}
  SnapshotCommands = {}
  Events = {e1, e2}
  ReliableEvents = {e1}
  MissionEnded = mission_ended
  MaxConns = 3
  MaxOutQueueMessages = 6
  CommandResultCacheLimit = 2
  ReliableEventJournalLimit = 2
  HeartbeatInterval = 1
  MaxTime = 0
  MaxMissions = 1
  SeenLimit = 1
  SeenEvicted = 1
  RollbackTolerance = 1
CHECK_DEADLOCK FALSE
PROPERTIES
  CallsReturn
  ReliableEventsArrive
INVARIANT ReappliedOnlyAfterEviction
