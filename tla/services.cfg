SPECIFICATION ServicesSpec
CONSTANTS
  l1 = l1
  f1 = f1
  home = home
  away = away
  m1 = m1
  m2 = m2
  s = s
  d = d
  t1 = t1
  t2 = t2
  v1 = v1
  c1 = c1
  c2 = c2
  c3 = c3
  g1 = g1
  g2 = g2
  e1 = e1
  e2 = e2
  n1 = n1
  n2 = n2
  n3 = n3
  b1 = b1
  b2 = b2
  z = z
  y = y
  p1 = p1
  p2 = p2
  Region = {home, away}
  Routed = TRUE
  File = {f1}
  Letter = {l1}
  LetterOf <- AllOfOne
  Home = home
  Mover = {m1, m2}
  MaxMoves = 2
  MaxStops = 1
  Sweeper = {s}
  Deleter = {d}
  Grace = 1
  Retention = 1
  MaxClock = 2
  Plots <- Pairs
  Tab = {t1, t2}
  MaxTickets = 3
  LinkTtl = 1
  ChallengeTtl = 1
  MaxNow = 1
  MaxFaults = 1
  MaxPasskeys = 2
  Vault = {v1}
  Caller = {c1, c2, c3}
  MaxKeys = 3
  MaxTrouble = 2
  Guest = {g1, g2}
  Email = {e1, e2}
  MaxInvitations = 3
  MaxSeats = 1
  MaxHooks = 2
  Node = {n1, n2, n3}
  MaxUpsets = 4
  Booter = {b1, b2}
  LastMigration = 4
  Adoptable = 2
  Repeatable = {4}
  MaxMishaps = 2
  ZkLetter = {z, y}
  Person = {p1, p2}
  MaxOpenings = 2
  MaxBreaks = 1
  Weight <- MCWeight
  Threshold = 70
  MinClasses = 2
  MaxGap = 5
SYMMETRY TabSymmetry
INVARIANTS ServicesTypeOK RowsResolve NoLeftovers HeirsAreServed ErasureComplete CancelledMeansKept
INVARIANTS OneSessionPerTicket AccountWhole CodeOpensWraps EverySealedOpens SeatsInOrder WebhookAnswers
INVARIANTS WorkIsCoveredOnce EvidenceEscalates BootsSucceed HeirOpens RedeemWhole
PROPERTIES LastPasskeyStays
CHECK_DEADLOCK FALSE
