SPECIFICATION PlotSpec
CONSTANTS
  n1 = n1
  n2 = n2
  r1 = r1
  a = a
  w = w
  d1 = d1
  Node = {n1, n2}
  Request = {r1}
  Letter = {a}
  Cool = 1
  DrillCool = 1
  Ops = {"release"}
  Faults = {"crash", "error"}
  MaxFaults = 1
  MaxReleases = 2
  MaxClock = 3
  Capsule = {}
  Scheduler = {n1, n2}
  FirstDate <- Tomorrow
  Subscribed = "CANCELED"
  EventLetter = {w}
  Deputy = {d1}
  Applier = {n1}
  ServedBy <- OnOne
  Revocable = {d1}
  Hold = 1
  MaxChanges = 1
PROPERTIES DatedLetterLeaves DueChangeSettles
