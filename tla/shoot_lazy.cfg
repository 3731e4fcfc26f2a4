SPECIFICATION Spec
CONSTANTS
  Cpus = {c0, c1}
  Pcids = {p1}
  Changing = {p1}
  Pages = {v1, v2}
  MaxGen = 5
  Scenes = {"threads"}
INVARIANT StaleUnusable
SYMMETRY Symmetry
CHECK_DEADLOCK FALSE
