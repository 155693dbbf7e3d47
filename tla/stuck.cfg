SPECIFICATION LiveSpec
CONSTANTS
  s11 = s11
  s12 = s12
  s21 = s21
  s22 = s22
  Sock = {s11, s22}
  Saddr <- MCSaddr
  Daddr <- MCDaddr
  Meta = {m1}
  NoMeta = none
  Masks <- AllPaths
  Redundancy = {2}
  NumInTime = 1
  AdaptivPath = {FALSE}
  AdaptivR = {FALSE}
  EnableKick = {TRUE}
  PathCheck = {FALSE}
  EntailFails = {FALSE}
  Conditions = {"ready", "loss"}
  MayVanish = {s11, s22}
PROPERTY CongEnds
