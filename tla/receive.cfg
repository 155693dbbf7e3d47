CONSTANTS
  Wrap = 32
  Subflow = {1, 2}
  Ids = {1, 2, 3, 4, 5, 6}
  None = None
  Isn = 30
  StreamLen = 4
  MaxMapLen = 2
  MaxMappings = 3
  RcvWnd = 3
  NoMapWindow = 1
  InitRcvWnd = 2
  DssCsum = FALSE
  Wide = {FALSE}
  Faults = {}
  Established = {TRUE}
  Idle = Idle
SPECIFICATION Spec
INVARIANT TypeOK
INVARIANT AppInOrder
INVARIANT QueuedAreMeant
INVARIANT ShortcutsQueued
INVARIANT GapInFront
CHECK_DEADLOCK FALSE
