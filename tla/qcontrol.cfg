SPECIFICATION FairSpec
CONSTANTS
  Meta = {m1, m2}
  NoMeta = none
  Percent = 16
  Smoothing = 4
  Wrap = 256
  Subflows = 3
  Quotas = {24}
  Ratios <- MCRatios
  AdaptivR = TRUE
  AdaptivPath = FALSE
INVARIANTS TypeOK TargetIsSane FailureNeedsFewerCopies
PROPERTY QuotaIsMet
