SPECIFICATION SysSpec
CONSTANTS
  n1 = n1
  n2 = n2
  r1 = r1
  r2 = r2
  a = a
  b = b
  Node = {n1, n2}
  Aggregator = {n1, n2}
  Request = {r1}
  Letter = {a}
  Cool = 1
  DrillCool = 1
  Ops = {"release"}
  Faults = {"crash", "error"}
  MaxFaults = 1
  MaxReleases = 1
  MaxClock = 1
  Weight <- Attentive
  Threshold = 70
  MinClasses = 2
  MaxGap = 1
  Signals = {"unreachable", "panicRelease"}
  RegionListed = TRUE
SYMMETRY Symmetry
INVARIANTS SysTypeOK PipelineInv OneEventPerOpening
