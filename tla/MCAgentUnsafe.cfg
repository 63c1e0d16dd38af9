SPECIFICATION Spec
CONSTANTS
  a = a
  b = b
  Inodes = {a}
  None = None
  Newlines <- MCNewlines
  Moves <- MCStay
  MaxSize = 6
  MaxEpoch = 0
  WriteSizes = {3}
  LateWrites = FALSE
  SettleTime = 1
  MaxRead = 4
  Faults = {}
  MaxRecords = 2
  MaxBytes = 0
  Overhead = 0
  FlushInterval = 3
  MaxAttempts = 2
  MaxQueue = 1
  BaseDelay = 1
  MaxDelay = 2
  Jitter = 0
  SendOutcomes = {"acked", "refused"}
  SendTimes = {0}
  SleepTimes = {1}
  StoreFaults = {}
  OpenRaces = FALSE
  MayStop = TRUE
  MayCrash = TRUE
  MaxBoots = 2
INVARIANT
  SafeRestart
CHECK_DEADLOCK FALSE
