SPECIFICATION Spec
CONSTANTS
  Cpus = {c0, c1}
  Pcids = {p1, p2}
  Changing = {p1}
  Pages = {v1}
  MaxGen = 3
  Scenes = {"locked", "apart"}
INVARIANTS TypeOK StaleUnusable AcksPaired Counted 
SYMMETRY Symmetry
CHECK_DEADLOCK FALSE
