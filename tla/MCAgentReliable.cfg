SPECIFICATION Spec
CONSTANTS
  a = a
  b = b
  Inodes = {a, b}
  None = None
  Newlines <- MCNewlines
  Moves <- MCRotate
  MaxSize = 6
  MaxEpoch = 0
  WriteSizes = {3}
  LateWrites = FALSE
  SettleTime = 1
  MaxRead = 4
  Faults = {}
  MaxRecords = 0
  MaxBytes = 5
  Overhead = 1
  FlushInterval = 3
  MaxAttempts = 2
  MaxQueue = 1
  BaseDelay = 1
  MaxDelay = 2
  Jitter = 0
  SendOutcomes = {"acked", "lost"}
  SendTimes = {0}
  SleepTimes = {1}
  StoreFaults = {}
  OpenRaces = FALSE
  MayStop = TRUE
  MayCrash = TRUE
  MaxBoots = 2
INVARIANTS
  SafeRestart
  NoBlindCommit
  RecordsExact
PROPERTIES
  NoStarvation
  EventuallyDelivered
CHECK_DEADLOCK FALSE
