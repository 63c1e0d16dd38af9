SPECIFICATION Spec
CONSTANTS
  a = a
  b = b
  Inodes = {a, b}
  None = None
  Newlines <- MCNewlines
  Moves <- MCRotate
  MaxSize = 7
  MaxEpoch = 1
  WriteSizes = {7}
  LateWrites = FALSE
  SettleTime = 1
  MaxRead = 3
  Faults = {}
  MaxRecords = 2
  MaxBytes = 0
  Overhead = 0
  FlushInterval = 3
  MaxAttempts = 1
  MaxQueue = 1
  BaseDelay = 1
  MaxDelay = 2
  Jitter = 0
  SendOutcomes = {"acked", "refused"}
  SendTimes = {0}
  SleepTimes = {1}
  StoreFaults = {}
  OpenRaces = FALSE
  MayStop = TRUE
  MayCrash = TRUE
  MaxBoots = 2
INVARIANTS
  TypeOK
  AccountedFor
  BatchesHomogeneous
  RetryBounded
  NothingReread
PROPERTY
  CommitsAsPromised
CHECK_DEADLOCK FALSE
