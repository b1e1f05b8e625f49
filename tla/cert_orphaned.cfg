SPECIFICATION CertSpec
CONSTANTS
  k1 = k1
  k2 = k2
  n1 = n1
  n2 = n2
  c1 = c1
  c2 = c2
  scan = scan
  Rows = {k1, k2}
  Sites = {n1, n2}
  Calls = {c1, c2}
  Scan = scan
  MaxAttempts = 2
  Cap = 2
  Plans <- Leftover
CHECK_DEADLOCK FALSE

INVARIANT NoOrphans
