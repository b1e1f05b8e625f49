SPECIFICATION ComponentsSpec
CONSTANTS
  Keys = {k1}
  Threshold = 3
  Window = 2
  OpenTime = 4
  NoKey = NoKey
  Outcomes = {"succeeded", "rolled_back", "rollback_failed"}
  Cases <- MCCases
  MaxManifests = 2
  a1 = a1
  a2 = a2
  n1 = n1
  n2 = n2
  ip1 = ip1
  ip2 = ip2
  Agents = {a1, a2}
  Names = {n1, n2}
  Addresses = {ip1, ip2}
  NoRow = NoRow
  NoAddress = NoAddress
  Nowhere = Nowhere
  MaxRecords = 4
  Worlds <- MCWorlds
  h1 = h1
  h2 = h2
  Hosts = {h1, h2}
  NoFile = NoFile
  Certs = {1, 2}
  Setups <- MCSetups
  s1 = s1
  s2 = s2
  Sites = {s1, s2}
  Issues = {1, 2}
  Demands <- MCDemands
  m1 = m1
  m2 = m2
  SiteNames = {m1, m2}
  Absent = Absent
  OurLink = OurLink
  TheirLink = TheirLink
  OldSecret = OldSecret
  NewSecret = NewSecret
  Unrouted = Unrouted
  Tombstone = Tombstone
  Situations <- Considered
  Tasks <- AllTasks
  RepairCases <- MCRepairCases
  Malformed = {"X-Env:"}
  Slugs <- MCSlugs
  Inputs <- MCInputs
  VhostEdits = {"gzip", "deny", "open", "minutes", "location", "server", "map", "authfile"}
  Ranges <- MCRanges
  Clients = {"c1", "c2", "c3", "c4", "c5"}
  SickHosts <- MCSickHosts
CHECK_DEADLOCK FALSE
INVARIANTS LatchHolds BreakersAgree AnchorsOnFile WorkersServed EndsWhole UndoneExactly EndsAsSaid AnswersAsIntended ReadersAgree RepairsOnlyItsOwn
PROPERTIES SparesWhatIsInUse Undone NeverBlocked CaddyServes OperatorsKept DiagnosedAsIs
