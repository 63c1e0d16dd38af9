SPECIFICATION Spec
CONSTANTS
  a = a
  Inodes = {a}
  None = None
  Error = Error
  Newlines <- MCNewlines
  Saves <- MCSaves
  StoreFaults = {"dirs", "open", "write", "rename", "remove", "read"}
  MayLosePower = TRUE
INVARIANT
  NeverAhead
PROPERTY
  AtomicSteps
