SPECIFICATION Spec
CONSTANTS
  n1 = n1
  n2 = n2
  r1 = r1
  r2 = r2
  a = a
  b = b
  Node = {n1}
  Request = {r1}
  Letter = {a}
  Cool = 2
  DrillCool = 1
  Ops = {"release", "cancel"}
  Faults = {}
  MaxFaults = 0
  MaxReleases = 2
  MaxClock = 4
PROPERTIES CancelledNeverFires
