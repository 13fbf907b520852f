SPECIFICATION Spec
CONSTANTS
  m1 = m1
  m2 = m2
  c1 = c1
  c2 = c2
  b1 = b1
  Mutators = {m1}
  CasWriters = {c1, c2}
  BlindWriters = {}
  Attempts = 2
  NoTmp = NoTmp
  Torn = Torn
INVARIANTS PinGuaranteesSnapshot LogOrdered ConflictMeansProgress
PROPERTIES ImplementsStore
CHECK_DEADLOCK FALSE
