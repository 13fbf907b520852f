CONSTANTS
  t1 = t1
  t2 = t2
  None = None
  Nobody = Nobody
  PreStamp = {"grill", "critique"}
  ReadsFail = TRUE
  Tasks = {t1, t2}
  FirstTask = t1
  RouterLanes = {"feature", "bug", "chore"}
  RouterGates = {"no-lane", "plan-done", "impl-started"}
  MaxSpec = 1
  FreshPointers = TRUE
  ReturningSessions = FALSE
  MalformedReturns = TRUE
  PhraseEvents = {}
  CliEvents = {"complete", "abandon"}
SPECIFICATION Spec
INVARIANTS
  EvidenceIsOwn
PROPERTY
  TerminalStays
CHECK_DEADLOCK FALSE
