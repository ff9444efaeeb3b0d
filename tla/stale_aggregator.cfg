SPECIFICATION SysSpec
CONSTANTS
  n1 = n1
  n2 = n2
  r1 = r1
  r2 = r2
  a = a
  b = b
  Node = {n1}
  Aggregator = {n1}
  Request = {r1}
  Letter = {a}
  Cool = 1
  DrillCool = 1
  Ops = {"release"}
  Faults = {}
  MaxFaults = 0
  MaxReleases = 1
  MaxClock = 2
  Weight <- Attentive
  Threshold = 70
  MinClasses = 2
  MaxGap = 1
  Signals = {}
  RegionListed = TRUE
PROPERTIES ReleaseRunsItsCourse
