SPECIFICATION FairSpec
CONSTANTS
  s11 = s11
  s12 = s12
  s21 = s21
  s22 = s22
  Sock = {s11, s12, s22}
  Saddr <- MCSaddr
  Daddr <- MCDaddr
  Meta = {m1}
  NoMeta = none
  MaxAddr = 3
  MaxComb = 3
  UserMasks <- OneMask
  MayFail = {s12}
INVARIANTS TypeOK ListSorted UnshiftedTestsOverlapFree
PROPERTIES ChecksEveryCombinationLeft CheckEnds
