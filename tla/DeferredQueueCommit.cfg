SPECIFICATION Spec
CONSTANTS
  s1 = s1
  s2 = s2
  r1 = r1
  r2 = r2
  Subscribers = {s1, s2}
  Routings = {r1, r2}
  Limit <- TwoTiers
  GlobalLimit = 2
  WriteOutcomes = {"saved", "uncommitted"}
  OpenPages = 1
  MaxPosts = 3
  MaxPages = 2
  MaxUnsaved = 1
PROPERTIES
  WritesOnlyOwnRows
