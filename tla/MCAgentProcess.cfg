SPECIFICATION Spec
CONSTANTS
  None = None
  Words <- MCWords
  NumberOf <- MCNumberOf
  Lines <- MCLines
  MaxLines = 2
  Defaults <- MCDefaults
  WordBits = 3
  LongBits = 4
  Chars <- MCChars
  Controls <- MCControls
  Batches <- MCBatches
  AssumeDurable = TRUE
  MaxSends = 1
INVARIANTS
  TypeOK
  LastSettingWins
  JsonLines
  OkMeansTaken
PROPERTY
  StopCompletes
CHECK_DEADLOCK FALSE
