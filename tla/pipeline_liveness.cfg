SPECIFICATION FairSpec
CONSTANTS
  n1 = n1
  n2 = n2
  r1 = r1
  r2 = r2
  a = a
  b = b
  Node = {n1}
  Request = {r1}
  Letter = {a, b}
  Cool = 1
  DrillCool = 1
  Ops = {"release", "drill", "cancel"}
  Faults = {"crash"}
  MaxFaults = 1
  MaxReleases = 2
  MaxClock = 2
INVARIANTS ClaimsAreDue ReleasedMeansDelivered
PROPERTIES NoLimbo DeadlineSurvivesRestart
