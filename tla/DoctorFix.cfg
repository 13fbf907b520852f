SPECIFICATION OrchestrationSpec
CONSTANTS
  Components = {"approvals"}
  SequencingMode = "block"
  FloorBlocks = TRUE
  NoDispatch = NoDispatch
  n1 = n1
  n2 = n2
  Strategies = {n1, n2}
  ScanFiles = 4
  Escaping = {4}
  NearSeed = {3}
  MaxSources = 2
  ScanWorkers = 2
  NoScan = NoScan
  Waves = 2
  Artifacts <- MCArtifacts
  MAX_ENTRIES = 1
  MaxClaims = 1
  NoReturn = NoReturn
  g1 = g1
  g2 = g2
  g3 = g3
  Setters = {g1, g2, g3}
  Nobody = Nobody
  x1 = x1
  x2 = x2
  b1 = b1
  b2 = b2
  p1 = p1
  p2 = p2
  w1 = w1
  w2 = w2
  Execs = {x1, x2}
  Branches = {b1, b2}
  Paths = {p1, p2}
  Work = {w1}
  NoTree = NoTree
  Edits = {w1, w2}
  PreWork = pw
  MaxCommits = 2
  MaxStash = 3
  MaxText = 2
  NoCall = NoCall
  PrFiles = {1, 2}
  PlannedFiles = {1}
  TestFiles = {2}
  MAX_LIST = 1
  NoContext = NoContext
  q1 = q1
  q2 = q2
  PrTasks = {q1, q2}
  Criteria = {1}
  Policies <- MCPolicies
  NoVerdict = NoVerdict
  Unparseable = Unparseable
  o1 = o1
  o2 = o2
  h1 = h1
  h2 = h2
  Owners = {o1, o2}
  SourceFiles = {1, 2, 3}
  OutsideFiles = {3}
  TestFloor = {2}
  Plans <- MCPlans
  Projectors = {h1, h2}
  MaxReturns = 2
  MaxNamed = 1
  NoContract = NoContract
  Blank = Blank
INVARIANT FixOnlyRollsBack
CHECK_DEADLOCK FALSE
