CONSTANTS
  Wrap = 32
  Subflow = {1, 2}
  Ids = {1, 2, 3, 4, 5, 6}
  None = None
  Isn = 30
  StreamLen = 3
  MaxMapLen = 2
  MaxMappings = 3
  RcvWnd = 2
  NoMapWindow = 0
  InitRcvWnd = 1
  DssCsum = TRUE
  Wide = {TRUE}
  Faults = {"joined", "nosplit"}
  Established = {FALSE}
  Idle = Idle
SPECIFICATION Spec
INVARIANT AppInOrder
CHECK_DEADLOCK FALSE
