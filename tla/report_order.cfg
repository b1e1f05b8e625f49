SPECIFICATION ReportsSpec
CONSTANTS
  p1 = p1
  p2 = p2
  d1 = d1
  d2 = d2
  Repairs = {p1, p2}
  Requested = {p2}
  NoRepair = NoRepair
  Diags = {d1, d2}
  Last = 3
  Cases <- Again
CHECK_DEADLOCK FALSE
INVARIANT OrderKept
