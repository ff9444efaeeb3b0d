SPECIFICATION Spec
CONSTANTS
  n1 = n1
  n2 = n2
  r1 = r1
  r2 = r2
  a = a
  b = b
  Node = {n1, n2}
  Request = {r1, r2}
  Letter = {a, b}
  Cool = 2
  DrillCool = 1
  Ops = {"release", "drill"}
  Faults = {"crash", "error"}
  MaxFaults = 1
  MaxReleases = 2
  MaxClock = 3
SYMMETRY Symmetry
INVARIANTS TypeOK OneFiringPerWindow NothingLeaksWhileCooling CoolingOffIsDurable
PROPERTIES ImplementsSwitch
