SPECIFICATION Spec
CONSTANTS
  Turn = {n1}
  Answer = {a1}
  NoRun = NoRun
  NoTurn = NoTurn
  NoAnswer = NoAnswer
  NoBody = NoBody
  MaxRefs = 3
  MaxPrompts = 4
  MaxCount = 1
  MaxFiles = 1
  MaxRetained = 1
  MaxRuns = 1
  MaxSeen = 0
  Capacity = FALSE
  MaxCrash = 0
  MaxFault = 0
INVARIANTS StopAccepted
CHECK_DEADLOCK FALSE
