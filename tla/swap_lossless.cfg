SPECIFICATION Spec
CONSTANTS
  t1 = t1  t2 = t2
  a = a  b = b
  f1 = f1  f2 = f2  f3 = f3
  s1 = s1
  Threads = {t1, t2}
  Pages = {a, b}
  Sourced = {b}
  Protected = {}
  Frames = {f1, f2, f3}
  Slots = {s1}
  MaxGen = 2
  MaxKills = 1
  IoFails = TRUE
SYMMETRY Symmetry
INVARIANT Lossless
CHECK_DEADLOCK FALSE
