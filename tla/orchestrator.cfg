SPECIFICATION OrchestratorSpec
CONSTANTS
  Doms = {d1, d2}
  Hosts = {h1, h2}
  Agents = {a1}
  RecIds = {r1, r2, r3}
  Renames = {}
  NoHost = NoHost
  NoAgent = NoAgent
  NoRec = NoRec
  NoDom = NoDom
  Elsewhere = Elsewhere
  ZoneOf <- OneZone
  Budgets <- Orderly
  i1 = i1
  i2 = i2
  f1 = f1
  f2 = f2
  Ids = {i1, i2}
  Fqdns = {f1, f2}
  Unlisted = Unlisted
  Slots = {1, 2}
  Backlog = 2
  Lives <- MCLives
  k1 = k1
  k2 = k2
  n1 = n1
  n2 = n2
  c1 = c1
  c2 = c2
  scan = scan
  Rows = {k1, k2}
  Sites = {n1, n2}
  Calls = {c1, c2}
  Scan = scan
  MaxAttempts = 2
  Cap = 2
  Plans <- MCPlans
  Affairs <- MCAffairs
  p1 = p1
  p2 = p2
  g1 = g1
  g2 = g2
  b1 = b1
  b2 = b2
  Entries = {g1, g2}
  Callers = {1}
  Pushers = {p1, p2}
  Inbox = 2
  Overlap = FALSE
  Tours <- MCTours
SYMMETRY DomSymmetry
CHECK_DEADLOCK FALSE
INVARIANTS CreatedOnFile DecisionsKept FirstOrderOnce DataKept NoneForgotten
PROPERTIES BeatHeals ScanCovers
