SPECIFICATION Spec
CONSTANTS
  i1 = i1
  i2 = i2
  i3 = i3
  i4 = i4
  i5 = i5
  a = a
  b = b
  c = c
  n1 = n1
  n2 = n2
  p = p
  k = k
  Intents = {i1, i2, i3, i4, i5}
  Senders = {a, b, c}
  Networks = {n1, n2}
  Owners = {o1, o2}
  Sessions = {p}
  NoOwner = NoOwner
  NoSession = NoSession
  NoKey = NoKey
  Silent = Silent
  Emergency = {i4}
  MaxDuration = 3
  MaxInterval = 1
  HistoryTTL = 1
  MaxSerial = 3
  MaxTime = 6
  SenderOf <- MCSenderOf
  NetworkOf <- MCNetworkOf
  SessionOf <- MCSessionOf
  DedupeKey <- MCDedupeKey
  Priority <- MCPriority
  Duration <- MCDuration
  TimeToLive <- MCTimeToLive
  Interval <- MCInterval
  ModeChoices <- MCModeChoices
  Backoff <- MCBackoff
  Collides <- MCCollides
INVARIANTS TypeOK OneAtATime SenderNeverDouble SpokenOnce NothingOverdue
PROPERTIES StrictPriority
SYMMETRY OwnerSymmetry
CHECK_DEADLOCK FALSE
