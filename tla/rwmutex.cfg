CONSTANTS
  N = 2
  Readers = {1, 2}
  Writers = {2}
  Killable = {1, 2}
  Preemptible = {}
SPECIFICATION FairSpec
INVARIANTS TypeOK Exclusion NoDeadHolder NoLostWake
PROPERTIES NeverStranded WriterNotStarved
CHECK_DEADLOCK FALSE
