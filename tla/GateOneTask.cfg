CONSTANTS
  t1 = t1
  t2 = t2
  None = None
  Nobody = Nobody
  PreStamp = {}
  ReadsFail = TRUE
  Tasks = {t1}
  FirstTask = t1
  RouterLanes = {"feature", "bug", "chore"}
  RouterGates = {"no-lane"}
  MaxSpec = 2
  FreshPointers = TRUE
  ReturningSessions = FALSE
  MalformedReturns = FALSE
  PhraseEvents = {"revise-scope", "re-plan"}
  CliEvents = {"park", "resume", "abandon", "complete", "start-impl", "new-requirements", "mark-pr-ready"}
SPECIFICATION Spec
INVARIANTS
  ImplNeedsSignOff
  LateGatesAreBacked
PROPERTIES
  ResumeReturnsToParkedGate
  DigestLocked
CHECK_DEADLOCK FALSE
