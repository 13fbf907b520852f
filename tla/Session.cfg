SPECIFICATION SessionSpec
CONSTANTS
  Components = {"roster", "budget", "loop", "memory", "progress", "life", "returns", "brief", "packing"}
  k1 = k1
  k2 = k2
  k3 = k3
  g1 = g1
  b1 = b1
  Dispatches = {k1, k2, k3}
  Names = {"spec-writer", "fullstack"}
  NameOf <- MCNameOf
  NoIds = {k2, k3}
  maxConcurrentAgents = 2
  CasWriters = {g1}
  BlindWriters = {b1}
  FaultsMayHappen = TRUE
  None = None
  Done = Done
  h1 = h1
  h2 = h2
  Hooks = {h1, h2}
  Compactor = cp
  Results = {0, 2}
  Notes = 2
  Warn = 1
  Critical = 2
  r1 = r1
  r2 = r2
  a1 = a1
  a2 = a2
  o1 = o1
  o2 = o2
  Runs = {r1, r2}
  Attempts = {a1}
  Digests = {o1, o2}
  LoopTasks = 2
  NoOne = NoOne
  c1 = c1
  c2 = c2
  c3 = c3
  s1 = s1
  s2 = s2
  Callers = {c1, c2, c3}
  Sources = {s1, s2}
  MaxClock = 1
  TargetEntries = 1
  Unlocked = Unlocked
  q1 = q1
  q2 = q2
  Ticks = {q1, q2}
  MaxAc = 2
  MaxEvents = 3
  MaxEdits = 1
  GateStep = GateStep
  WorkStep = WorkStep
  FreshStep = FreshStep
  NoStep = NoStep
  p1 = p1
  p2 = p2
  BriefTasks = {1, 2}
  Compactions = {p1, p2}
  MaxTrace = 1
  MaxNow = 1
  NoBrief = NoBrief
  EvidencePointers <- MCPointers
  MaxPointers = 3
  Budgets <- MCBudgets
  TokensPerLine = 2
  DefaultFullTokens = 5
  WholeFile = WholeFile
  NoPlan = NoPlan
  A = A
  B = B
  l1 = l1
  l2 = l2
  Sessions = {A, B}
  Calls = {l1, l2}
  NoTask = NoTask
  Torn = Torn
  w1 = w1
  w2 = w2
  api = api
  web = web
  Workers = {w1, w2}
  Personas = {api, web}
  Files <- MCFiles
  Configs <- MCConfigs
  Undeclared = Undeclared
  Unsaid = Unsaid
  Star = Star
  One = One
  Deep = Deep
INVARIANTS SessionTypeOK RosterExact IdentityHonest
           ContextInBounds EvidenceIsEarned MemoryKeepsLast ProgressIsTold
           AnswersForItsOwn
PROPERTIES StopsOnlyItself TaskLifeKept
CHECK_DEADLOCK FALSE
