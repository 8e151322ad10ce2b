SPECIFICATION Spec
CONSTANTS
  e1 = e1
  e2 = e2
  e3 = e3
  e4 = e4
  Events <- MCFour
  BatchSize = 2
  BufferSize = 4
  Faults <- MCKill
INVARIANTS
  KillLosesAtMostOneBatch
