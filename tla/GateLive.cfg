CONSTANTS
  t1 = t1
  t2 = t2
  None = None
  Nobody = Nobody
  PreStamp = {}
  ReadsFail = TRUE
  Tasks = {t1}
  FirstTask = t1
  RouterLanes = {"feature", "bug", "chore"}
  RouterGates = {"no-lane"}
  MaxSpec = 2
  FreshPointers = TRUE
  ReturningSessions = FALSE
  MalformedReturns = FALSE
  PhraseEvents = {}
  CliEvents = {"complete"}
SPECIFICATION FairSpec
PROPERTY
  NoDeadEnd
CHECK_DEADLOCK FALSE
