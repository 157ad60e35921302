SPECIFICATION Spec
CONSTANTS
  short = short long = long
  Values = {short, long}
  None = None
  BodyLen <- MCBodyLen
  MaxSegment = 5
  SyncModes = {TRUE, FALSE}
  Stray = 2
  WritesMayFail = FALSE
  Torn = TRUE
  MaxAppends = 2
  MaxRestarts = 2
CHECK_DEADLOCK FALSE
INVARIANTS
  EveryRecordReadable
