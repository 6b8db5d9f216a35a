SPECIFICATION Spec
CONSTANTS
  c1 = c1  c2 = c2
  d1 = d1  d2 = d2  d3 = d3
  None = None
  Client = {c1, c2}
  Daemon = {d1, d2}
  Command = {"ensure", "start", "stop", "force", "disable", "enable", "reload"}
  MaxCommands = 3
  MaxDeaths = 1
SYMMETRY Interchangeable
CHECK_DEADLOCK FALSE
INVARIANTS
  TypeOK
  ReachableDaemon
PROPERTIES
  ReloadHonorsDisable
  StoppedIsStopped
