SPECIFICATION LettersSpec
CONSTANTS
  z = z
  p1 = p1
  ZkLetter = {z}
  Person = {p1}
  MaxOpenings = 1
  MaxBreaks = 0
INVARIANTS DrillKeepsSecret
CHECK_DEADLOCK FALSE
