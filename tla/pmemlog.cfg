SPECIFICATION Spec
CONSTANTS
  Size = 32
  MaxBoots = 6
INVARIANTS TypeOK TailIsFree
PROPERTY IsDurableLog
CHECK_DEADLOCK FALSE
