SPECIFICATION Spec
CONSTANTS
  a = a
  b = b
  Inodes = {a, b}
  None = None
  Newlines <- MCNewlines
  Moves <- MCOneMove
  MaxSize = 2
  MaxEpoch = 0
  WriteSizes = {1}
  LateWrites = FALSE
  SettleTime = 5
  MaxRead = 2
  Faults = {}
  TickTimes = {2}
PROPERTIES
  RotationCompletes
