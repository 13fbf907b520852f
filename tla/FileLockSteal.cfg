SPECIFICATION Spec
CONSTANTS
  p1 = p1
  p2 = p2
  p3 = p3
  Proc = {p1, p2, p3}
  Crashable = {p1, p2, p3}
  MayLeaveLock = TRUE
  ShortHolds = TRUE
  MaxWaits = 1
  MaxBoots = 0
  NoFile = NoFile
  NoInfo = NoInfo
INVARIANTS MutualExclusion
