SPECIFICATION AnchorSpec
CONSTANTS
  a1 = a1
  a2 = a2
  n1 = n1
  n2 = n2
  ip1 = ip1
  ip2 = ip2
  Agents = {a1, a2}
  Names = {n1, n2}
  Addresses = {ip1, ip2}
  NoRow = NoRow
  NoAddress = NoAddress
  Nowhere = Nowhere
  MaxRecords = 4
  Worlds <- OneAgent
CHECK_DEADLOCK FALSE
PROPERTY Anchored
