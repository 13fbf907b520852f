SPECIFICATION Spec
CONSTANTS
  p1 = p1
  p2 = p2
  p3 = p3
  Proc = {p1, p2, p3}
  Crashable = {p1, p2, p3}
  MayLeaveLock = FALSE
  ShortHolds = TRUE
  MaxWaits = 1
  MaxBoots = 1
  NoFile = NoFile
  NoInfo = NoInfo
INVARIANT MutualExclusion
PROPERTIES LiveOwnerKeepsLock ImplementsMutex
