SPECIFICATION FairSpec
CONSTANTS
  WriteBufSize = 3
  SampleSizes <- Sizes
  MaxBytes = 9
  WriteFails = TRUE
INVARIANTS
  OutputInOrder
  OneWriter
  EosDeliversAll
PROPERTY SinkEnds
CHECK_DEADLOCK FALSE
