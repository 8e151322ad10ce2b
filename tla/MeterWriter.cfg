SPECIFICATION FairSpec
CONSTANTS
  e1 = e1
  e2 = e2
  e3 = e3
  e4 = e4
  Events <- MCThree
  BatchSize = 2
  BufferSize = 1
  Faults <- MCAll
INVARIANTS
  TypeOK
  NothingMislaid
  ExitFlushes
  ExitComplete
PROPERTIES
  ImplementsQueue
  EventuallyFlushed
  ShutdownEnds
