SPECIFICATION Spec
CONSTANTS
  t1 = t1
  t2 = t2
  x = x
  y = y
  None = None
  Threads <- MCThreads
  Lines <- MCLines
  MaxLines = 2
  MaxAttempts = 3
  MaxSimulated = 4
  SpikeLength = 2
SYMMETRY Symmetry
INVARIANTS
  OnlyOverlapsLose
  LogBounded
  RetryingIsUnderWay
