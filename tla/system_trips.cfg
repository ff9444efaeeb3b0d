SPECIFICATION SysFairSpec
CONSTANTS
  n1 = n1
  n2 = n2
  r1 = r1
  r2 = r2
  a = a
  b = b
  Node = {n1}
  Aggregator = {n1}
  Request = {}
  Letter = {a}
  Cool = 1
  DrillCool = 1
  Ops = {}
  Faults = {}
  MaxFaults = 0
  MaxReleases = 1
  MaxClock = 5
  Weight <- Thorough
  Threshold = 70
  MinClasses = 3
  MaxGap = 3
  Signals = {"heartbeat", "apple", "bank", "unreachable", "well", "duress", "disarm"}
  RegionListed = TRUE
INVARIANTS SilenceAloneNeverTrips CheckInKeepsActive
PROPERTIES SilenceTrips
