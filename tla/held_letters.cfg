SPECIFICATION HeldSpec
CONSTANTS
  n1 = n1
  n2 = n2
  r1 = r1
  a = a
  cap = cap
  w = w
  d1 = d1
  d2 = d2
  Node = {n1}
  Request = {}
  Letter = {a}
  Cool = 1
  DrillCool = 1
  Ops = {"release"}
  Faults = {"crash", "error"}
  MaxFaults = 1
  MaxReleases = 3
  MaxClock = 3
  Capsule = {}
  Scheduler = {n1}
  FirstDate <- Tomorrow
  Subscribed = "CANCELED"
  EventLetter = {w}
  Deputy = {d1, d2}
  Applier = {n1}
  ServedBy <- OnOne
  Revocable = {}
  Hold = 1
  MaxChanges = 2
SYMMETRY Symmetry
INVARIANTS HeldTypeOK PostMortemInv NoSilentRedirect EventFiresOnce EventLetterNotLost
