SPECIFICATION FairSpec
CONSTANTS
  MaxBuffers = 3
  Faults <- ReportedFaults
INVARIANTS
  TypeOK
  ExitIsClean
PROPERTIES
  CompleteIsLast
  ImplementsPromise
  EveryBufferServed
  SessionEnds
CHECK_DEADLOCK FALSE
