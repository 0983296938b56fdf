\* Two workers, two restarts and the end of the mission.
SPECIFICATION FairSpec
CONSTANTS
  blue = blue
  red = red
  b1 = b1
  b2 = b2
  Coalitions = {blue, red}
  Candidates = {b1, b2}
  SideOf <- MCSideOf
  None = None
  Limit = 1
  Cadence = 1
  Backoff = 2
  Cooldown <- MCCooldown
  MaxTime = 1
  MaxAttempts <- MCMaxAttempts
  MaxCycles <- MCMaxCycles
  MaxRestarts = 2
  MaxMishaps = 1
CHECK_DEADLOCK FALSE
INVARIANTS
  TypeOK
  ExecutionsInOrder
PROPERTIES
  ScheduleHolds
  WorkersStop
