SPECIFICATION HeldFairSpec
CONSTANTS
  n1 = n1
  n2 = n2
  r1 = r1
  a = a
  cap = cap
  w = w
  d1 = d1
  d2 = d2
  Node = {n1}
  Request = {}
  Letter = {a}
  Cool = 1
  DrillCool = 1
  Ops = {}
  Faults = {}
  MaxFaults = 0
  MaxReleases = 1
  MaxClock = 3
  Capsule = {cap}
  Scheduler = {n1}
  FirstDate <- Tomorrow
  Subscribed = "ACTIVE"
  EventLetter = {}
  Deputy = {}
  Applier = {}
  ServedBy <- OnOne
  Revocable = {}
  Hold = 1
  MaxChanges = 0
PROPERTIES CapsuleOpens
