CONSTANTS
  a1 = a1
  a2 = a2
  x1 = x1
  Addr4 = {a1, a2}
  Addr6 = {x1}
  None = None
  MaxAddr = 2
  Cases <- AllCases
  MasterDst <- Dst
  RemAddrs <- Peers
  UpAtStart = {a1, x1}
SPECIFICATION Spec
INVARIANT TypeOK
INVARIANT TableIsDevices
INVARIANT MeshDone
INVARIANT SubflowsPerPair
INVARIANT AllAnnounced
INVARIANT SourcesAreLocal
 
CHECK_DEADLOCK FALSE
