SPECIFICATION FairSpec
CONSTANTS
  p1 = p1
  p2 = p2
  p3 = p3
  Proc = {p1, p2}
  Crashable = {p1, p2}
  MayLeaveLock = TRUE
  ShortHolds = FALSE
  MaxWaits = 1
  MaxBoots = 1
  NoFile = NoFile
  NoInfo = NoInfo
PROPERTIES CallEnds OrphanRecovered
