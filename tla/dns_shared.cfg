SPECIFICATION FairSpec
CONSTANTS
  Doms = {d1}
  Hosts = {h1}
  Agents = {a1, a2}
  RecIds = {r1, r2, r3, r4}
  Renames = {}
  NoHost = NoHost
  NoAgent = NoAgent
  NoRec = NoRec
  NoDom = NoDom
  Elsewhere = Elsewhere
  ZoneOf <- OneZone
  Budgets <- Everything
PROPERTIES
  OwnershipHonoured
  NeverWedged
  Converges
