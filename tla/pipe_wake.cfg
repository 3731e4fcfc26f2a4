SPECIFICATION Spec
CONSTANTS
  N = 2
  Bytes = {0}
  Size = 1
  MaxLen = 2
  Payloads <- MCUnary
  MaxRetries = 1
  Openers = {0}
  MayRead = {1}
  MayWrite = {2}
  Preemptible = {1}
  Killable = {2}
  Signalable = {1}
  Faulty = {1}
INVARIANTS EndsCounted NoLostWake
