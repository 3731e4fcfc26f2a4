CONSTANTS
  N = 3
  Readers = {1, 2}
  Writers = {2, 3}
  Killable = {}
  Preemptible = {}
SPECIFICATION Spec
INVARIANTS NoLostWake
CHECK_DEADLOCK FALSE
