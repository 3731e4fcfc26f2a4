SPECIFICATION FairSpec
CONSTANTS
  N = 2
  Bytes = {0, 1}
  Size = 3
  MaxLen = 2
  Payloads <- MCPayloads
  MaxRetries = 1
  Openers = {1}
  MayRead = {1}
  MayWrite = {2}
  Preemptible = {}
  Killable = {2}
  Signalable = {}
  Faulty = {}
INVARIANTS TypeOK Validate
PROPERTIES IsByteStream HangUpEnds
CHECK_DEADLOCK FALSE
