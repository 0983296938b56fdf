\* Two callers, three connections, one mission.
SPECIFICATION Spec
CONSTANTS
  Commands = {c1, c2}
  SnapshotCommands = {c1}
  Events = {}
  ReliableEvents = {}
  MissionEnded = mission_ended
  MaxConns = 3
  MaxOutQueueMessages = 6
  CommandResultCacheLimit = 2
  ReliableEventJournalLimit = 2
  HeartbeatInterval = 1
  MaxTime = 0
  MaxMissions = 1
  SeenLimit = 4
  SeenEvicted = 2
  RollbackTolerance = 1
CHECK_DEADLOCK FALSE
INVARIANTS
  ReplyIsOwn

  SnapshotBeforeReply

PROPERTIES
  CallsKeepPromise

