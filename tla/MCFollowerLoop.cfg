SPECIFICATION Spec
CONSTANTS
  a = a
  b = b
  Inodes = {a, b}
  None = None
  Newlines <- MCNewlines
  Moves <- MCMoves
  MaxSize = 3
  MaxEpoch = 0
  WriteSizes = {1, 2}
  LateWrites = TRUE
  SettleTime = 2
  MaxRead = 2
  Faults = {}
  TickTimes = {2}
INVARIANTS
  TypeOK
  IdentityOpenOrLeft
  ReadsContiguous
PROPERTIES
  DrainedBeforeSwitch
  RotationCompletes
  IdentityRepaired
