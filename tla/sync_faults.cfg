SPECIFICATION Spec
CONSTANTS
  d1 = d1
  d2 = d2
  s1 = s1
  bad = bad
  e1 = e1
  Stub = Stub
  NoFile = NoFile
  NoArt = NoArt
  Failed = Failed
  Domains = {d1, d2}
  Existing = {d1}
  Settings = {s1, bad}
  Valid = {s1}
  Edits = {e1}
  Buffer = 1
  Budget <- AnyTwo
INVARIANTS CleanMeansLive
PROPERTY KeepsReviewed
