CONSTANTS
  Wrap = 16
  Subflow = {1, 2}
  Backup = {}
  None = None
  Isn = 15
  StreamLen <- Short
  Closing = {"roundrobin"}
  MaxSeg = 2
  Wnd = 2
  Schedulers = {"default", "roundrobin", "redundant"}
  Established = {FALSE}
  MaxCopies = 2
  MaxTimeouts = 1
  TimedLen <- Timed
  Faults <- AllFaults
SPECIFICATION Spec
INVARIANT TypeOK
INVARIANT QueueAccounting
INVARIANT ChecksumNumbers
INVARIANT InOrderUntilEstablished
INVARIANT ReinjectSorted
INVARIANT FreedIsReceived
CHECK_DEADLOCK FALSE
