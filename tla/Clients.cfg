SPECIFICATION ClientsSpec
CONSTANTS
  c1 = c1  c2 = c2  t1 = t1  t2 = t2  p1 = p1  prompt2 = prompt2
  MaxCalls = 2
  MaxChanges = 2
  MaxFailed = 1
  Proc = {c1, c2}
  Prompt = {prompt1, prompt2}
  MaxPromptCommands = 2
  MaxSends = 2
  MaxFaults = 1
  Tui = {t1, t2}
  SbPane = {p1}
  Home <- MCHome
  RepoRow = RepoRow
  NoRow = NoRow
  RowOrder <- MCRows
  FieldOrder <- MCFields
  MaxKeys = 2
  MaxWorld = 1
  MaxLoss = 1
  MaxRestarts = 1
  Caller = {c1, c2}
  CallerEnv <- MCEnv
  CheckOnly = {}
  MaxEdits = 2
  MaxTurns = 2
  Group = {sg, tg, g1, g2, g3}
  SelfGroup = sg
  ServerGroup = tg
  MaxServers = 2
  MaxOpsFailed = 1
  SClient = {c1, c2}
  SName = {1, 2, 3}
  SCategory = {0, 1, 2}
  MemoryKey <- MCKey
  SWindow = {1}
  MaxNavs = 2
  MaxShifts = 1
INVARIANTS CommandsHonest SessionsHonest
PROPERTIES ClientsStep ClientsSettle
CHECK_DEADLOCK FALSE
