SPECIFICATION ProgressSpec
CONSTANTS
  o1 = o1
  o2 = o2
  r1 = r1
  Resources = {r1}
  Ops = {o1, o2}
  NoOp = NoOp
  UserOps = {o2}
  ResourceOf <- ToOne
  FaultSets <- MCFaultSets
  MaxFaults = 2
  MaxWrites = 1
  p1 = p1
  p2 = p2
  d1 = d1
  d2 = d2
  Repairs = {p1, p2}
  Requested = {p2}
  NoRepair = NoRepair
  Diags = {d1, d2}
  Last = 3
  Cases <- MCCases
CHECK_DEADLOCK FALSE
INVARIANTS MutatesOnce ReportsKept
PROPERTIES UndoesOnlyItsOwn StopsAfterFailedRollback RestoresExactly Concludes Delivered
