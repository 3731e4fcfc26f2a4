SPECIFICATION MCSpec
CONSTANTS
  NSlots = 3
  MaxBorn = 2
  MaxKills = 1
  Ext = Ext
  Shell = Shell
  Desktop = Desktop
  Nobody = Nobody
  ScanGap = FALSE
  MidKill = FALSE
  SlowWorker = FALSE
  KillersQuit = FALSE
INVARIANTS TypeOK GroupKeepsSpace   NoLeak NoStraggler  
CHECK_DEADLOCK FALSE
