SPECIFICATION NotifySpec
CONSTANTS
  c1 = c1  c2 = c2
  RSession = {s1}
  BgTask = {t1}
  Helper = {h1}
  MaxEpoch = 2
  MaxRunSeq = 1
  MaxInputs = 3
  HistoryCap = 2
  ChannelCap = 1
  MaxRevision = 3
  MaxStates = 2
  MaxTrouble = 1
  Call = {c1, c2}
  Turn = {1, 2}
  Items <- MCItems
  MaxIssued = 3
  MaxTracked = 2
  MaxReplies = 1
  MaxFaults = 1
  MaxQuestions = 2
  MaxTurn = 2
  MaxQuestionEpoch = 2
  MaxResolverFaults = 1
  MaxPrompts = 5
  MaxAgents = 2
  MaxDisturbances = 1
  HookProc = {h1}
  MaxHookFaults = 2
  MaxHookWorld = 2
PROPERTIES BlockedIsNotified
CHECK_DEADLOCK FALSE
