SPECIFICATION Spec
CONSTANTS
  a = a
  b = b
  Inodes = {a, b}
  None = None
  Newlines <- MCNewlines
  Moves <- MCVanish
  MaxSize = 2
  MaxEpoch = 0
  WriteSizes = {2}
  LateWrites = FALSE
  SettleTime = 1
  MaxRead = 2
  Faults = {"fstat", "stat", "open", "read", "eintr"}
  MaxRecords = 2
  MaxBytes = 0
  Overhead = 0
  FlushInterval = 2
  MaxAttempts = 1
  MaxQueue = 1
  BaseDelay = 1
  MaxDelay = 2
  Jitter = 0
  SendOutcomes = {"acked", "lost", "refused"}
  SendTimes = {0}
  SleepTimes = {1}
  StoreFaults = {"load", "save"}
  OpenRaces = TRUE
  MayStop = TRUE
  MayCrash = TRUE
  MaxBoots = 2
INVARIANTS
  AccountedFor
CHECK_DEADLOCK FALSE
