SPECIFICATION FairSpec
CONSTANTS
  m1 = m1
  m2 = m2
  c1 = c1
  c2 = c2
  b1 = b1
  Mutators = {m1}
  CasWriters = {c1}
  BlindWriters = {b1}
  Attempts = 2
  NoTmp = NoTmp
  Torn = Torn

PROPERTIES MutatorsMerge CallsEnd
CHECK_DEADLOCK FALSE
