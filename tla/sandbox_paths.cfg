SPECIFICATION HelperSpec
CONSTANTS
  m1 = m1
  m2 = m2
  SiteNames = {m1, m2}
  Absent = Absent
  OurLink = OurLink
  TheirLink = TheirLink
  OldSecret = OldSecret
  NewSecret = NewSecret
  Unrouted = Unrouted
  Tombstone = Tombstone
  Situations = {}
  Tasks <- OneTask
INVARIANT UndisturbedSucceeds
CHECK_DEADLOCK FALSE
