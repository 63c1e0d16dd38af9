SPECIFICATION Spec
CONSTANTS
  p = p
  s = s
  t = t
  Sinks = {p, s, t}
  Names = {"p", "s"}
  NameOf <- MCNameOf
  Labels = {"l", "m"}
  Configs <- MCConfigs
  Ends = {2}
  None = None
INVARIANTS
  TypeOK
  CommitJustified
  CommitGranted
  CommitConfirmed
  RoutesAsConfigured
CHECK_DEADLOCK FALSE
