SPECIFICATION FairSpec
CONSTANTS
  NrofConn = 2
  DataWidth = 5
  TapCountMax = 12
  TapRange = 24
  StableCount = 2
  RetryMax = 3
  Wirings <- MCWirings
  AutoModes = {TRUE, FALSE}
  ManualTaps = {0, 2}
  Blank = blank
  Mixed = mixed
  MaxStops <- MCMaxStops
  MaxSessions = 1
CHECK_DEADLOCK FALSE
INVARIANTS Consistent AlignedIsRight GoodLinesAlign
PROPERTIES AlignEnds
