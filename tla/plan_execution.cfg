\* Two phases, three requirements, two attempts, one interruption.
SPECIFICATION Spec
CONSTANTS
  NumPhases = 2
  NumRequirements = 3
  PhaseOf <- TwoThenOne
  Kinds <- EachAction
  Persistent = {2}
  Guarded = {2}
  Reviewed = {1}
  None = none
  Slow = {1}
  Contended <- OneBeside
  Unreliable = {"destroy"}
  Decided <- Decisions
  MaxAttempts = 2
  MaxAuftraege = 3
  MaxInterruptions = 1
  MaxLost = 1
CHECK_DEADLOCK FALSE
INVARIANTS
  TypeOK
  StatusesAgree
  SuccessIsEarned
  CompletionIsEarned
  CancelledIsQuiet
  NothingAbandoned
  OncePerAttempt
PROPERTIES
  CancelledStaysCancelled
