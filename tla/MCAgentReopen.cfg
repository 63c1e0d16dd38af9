SPECIFICATION Spec
CONSTANTS
  a = a
  b = b
  Inodes = {a, b}
  None = None
  Newlines <- MCNewlines
  Moves <- MCVanish
  MaxSize = 6
  MaxEpoch = 0
  WriteSizes = {3}
  LateWrites = FALSE
  SettleTime = 1
  MaxRead = 4
  Faults = {}
  MaxRecords = 2
  MaxBytes = 0
  Overhead = 0
  FlushInterval = 3
  MaxAttempts = 2
  MaxQueue = 1
  BaseDelay = 1
  MaxDelay = 2
  Jitter = 0
  SendOutcomes = {"acked"}
  SendTimes = {0}
  SleepTimes = {1}
  StoreFaults = {}
  OpenRaces = FALSE
  MayStop = FALSE
  MayCrash = FALSE
  MaxBoots = 1
INVARIANT
  BatchesHomogeneous
CHECK_DEADLOCK FALSE
