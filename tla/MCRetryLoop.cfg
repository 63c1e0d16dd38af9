SPECIFICATION Spec
CONSTANTS
  file = file
  Inodes = {file}
  None = None
  Newlines <- MCNewlines
  Inputs <- MCInputs
  MaxAttempts = 3
  MaxQueue = 2
  BaseDelay = 1
  MaxDelay = 3
  Jitter = 1
INVARIANTS
  TypeOK
  AttemptsBounded
  NoBatchLost
  NoBatchTwice
PROPERTIES
  DropsOldest
  EventuallySettled
