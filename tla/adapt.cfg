SPECIFICATION Spec
CONSTANTS
  s11 = s11
  s12 = s12
  s21 = s21
  s22 = s22
  Sock = {s11, s12, s22}
  Saddr <- MCSaddr
  Daddr <- MCDaddr
  Meta = {m1}
  NoMeta = none
  Masks <- Disjoint
  Redundancy = {1, 2}
  NumInTime = 2
  AdaptivPath = {TRUE}
  AdaptivR = {TRUE, FALSE}
  EnableKick = {TRUE}
  PathCheck = {FALSE}
  EntailFails = {FALSE}
  Conditions = {"ready", "busy", "recovery", "loss"}
  MayVanish = {}
INVARIANT SubstitutesOnlyInCong
PROPERTIES SelectionIsRedundant 
