SPECIFICATION MCSpec
CONSTANTS
  Cpus = {c0, c1}
  Pids = {p1, p2}
  Movable = {p1, p2}
  Pinnable = {}
  Killable = {p1}
  Stallable = {}
  KillerStalls = FALSE
  Idle = Idle
  Nobody = Nobody
INVARIANTS TypeOK NoTaskLost QueuedWhenUnpinned OneStackUnstalled DeadNeverRunsUnstalled NoReuseUnstalled
SYMMETRY Symmetry
