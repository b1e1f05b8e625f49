SPECIFICATION Spec
CONSTANTS
  Doms = {d1}
  Hosts = {h1}
  Agents = {a1, a2}
  RecIds = {r1}
  Renames = {}
  NoHost = NoHost
  NoAgent = NoAgent
  NoRec = NoRec
  NoDom = NoDom
  Elsewhere = Elsewhere
  ZoneOf <- OneZone
  Budgets <- Move
INVARIANTS
  NeverOverwritesForeign
