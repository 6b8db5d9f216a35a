SPECIFICATION CoreSpec
CONSTANTS
  p1 = p1  p2 = p2
  Client = {c1}
  Free = Free
  MaxQueue = 2
  MaxFifo = 2
  MaxJobs = 1
  MaxTicks = 1
  SpSession = {s1}
  SpPane = {p1}
  MaxRevision = 3
  StreamCapacity = 1
  MaxChange = 2
  MaxRestart = 1
  MaxWire = 2
  Caller = {c1}
  MaxEvents = 2
  MaxCommand = 2
  MaxGeneration = 2
  MaxMoves = 1
  MaxRequests = 1
  VClient = {c1}
  VPane = {p1, p2}
  Proxies <- MCProxies
  VStart = p1
  NoView = NoView
  NoPane = NoPane
  MaxSeq = 2
  MaxWork = 2
  MaxErrors = 1
  HookEvent = {e1, e2}
  HookSlot = {h1, h2}
  MaxAttempts = 3
  MaxFailures = 2
  MaxEdits = 3
  Requester = {r1, r2}
  Prober = {c1, c2}
  CPane = {p1, p2}
  Asks <- MCAsks
  CaptureQueue = 1
  CallBudget = 3
  FrameCost = 1
  GroupScreens = 2
  ProbeCap = 2
  ProbeQueue = 1
  MaxAsks = 2
  MaxPaneFaults = 1
  RolloutFile = {f1, f2}
  Canonical = "mine"
  Foreign = "other"
  MaxTurns = 2
  MaxRecords = 3
  MaxDisk = 1
  MaxReads = 2
  SumPane = {p1, p2}
  SumText = {"a"}
  NoText = NoText
  MaxContextPrompts = 2
  SummaryQueue = 2
  MaxSumSteps = 4
  MaxSumFaults = 1
INVARIANTS WorkSound ViewSound FocusSound
PROPERTIES CoreSteps CoreSettles
CHECK_DEADLOCK FALSE
