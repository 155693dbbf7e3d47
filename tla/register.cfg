SPECIFICATION Spec
CONSTANTS
  s11 = s11
  s12 = s12
  s21 = s21
  s22 = s22
  Sock = {s11, s22}
  Saddr <- MCSaddr
  Daddr <- MCDaddr
  Meta = {m1, m2}
  NoMeta = none
  Masks <- AnyOne
  Redundancy = {1, 2}
  NumInTime = 1
  AdaptivPath = {TRUE, FALSE}
  AdaptivR = {FALSE}
  EnableKick = {TRUE}
  PathCheck = {TRUE, FALSE}
  EntailFails = {TRUE, FALSE}
  Conditions = {"ready", "busy", "loss"}
  MayVanish = {s22}
SYMMETRY MetaSymmetry
INVARIANTS TypeOK RegisterConsistent InTimeBelowLimit CongestedOnlyInCong
