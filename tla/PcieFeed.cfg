SPECIFICATION FairSpec
CONSTANTS
  FileLengths <- WholeAndRing
  Chunk = 2
  Ring = 9
  IntMax = 12
  HoldMax = 1
  SeekTargets <- SeeksInside
  MaxSeeks = 1
INVARIANTS
  Consistent
  BuffersIntact
  StreamIsFile
PROPERTY StreamEnds
CHECK_DEADLOCK FALSE
