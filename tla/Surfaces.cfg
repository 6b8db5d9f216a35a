SPECIFICATION SurfacesSpec
CONSTANTS
  n1 = n1  n2 = n2  w1 = w1  w2 = w2
  CatName = {1, 2}
  Uncategorized = 0
  Automatic = Automatic
  RepoKey = {1, 2}
  CatConfigs <- MCConfigs
  MaxIntents = 2
  MaxSaves = 1
  MaxReloads = 2
  Agent = {1, 2, 3}
  AgentRepo <- MCRepos
  SidebarRepo = 1
  MaxPaneSteps = 2
  MaxViewKeys = 2
  MaxAt = 1
  Win = {w1, w2}
  LayoutCmds = {"open", "close", "toggle", "toggle_all", "focus_toggle", "rail", "prepare", "layout_applied", "auto_all"}
  Hand = {h1, h2}
  MaxLayoutCmds = 2
  MaxWindowOps = 2
  Layouts <- MCLayouts
  Side = 9
  MaxNested = 3
  Record = {r1, r2}
  ResetCmd = {k1, k2}
  MaxGenerations = 3
  MaxStoreOps = 8
  Turn = {n1, n2}
  Answer = {a1}
  NoRun = NoRun
  NoTurn = NoTurn
  NoAnswer = NoAnswer
  NoBody = NoBody
  MaxRefs = 2
  MaxPrompts = 2
  MaxCount = 2
  MaxFiles = 1
  MaxRetained = 1
  MaxRuns = 3
  MaxSeen = 0
  Capacity = TRUE
  MaxCrash = 1
  MaxFault = 1
INVARIANTS SidebarsSound CategoriesKept FilesSound
PROPERTIES SurfacesStep AnswerFinal LayoutSettles
CHECK_DEADLOCK FALSE
