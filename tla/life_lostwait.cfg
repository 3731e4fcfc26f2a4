SPECIFICATION Spec
CONSTANTS
  NSlots = 1
  MaxBorn = 1
  MaxKills = 0
  Ext = Ext
  Shell = Shell
  Desktop = Desktop
  Nobody = Nobody
  ScanGap = TRUE
  MidKill = FALSE
  SlowWorker = FALSE
  KillersQuit = FALSE
INVARIANTS ParentHears
CHECK_DEADLOCK FALSE
