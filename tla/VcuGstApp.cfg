\* The program may wait in its main loop for ever: a live source has no end.
SPECIFICATION FairSpec
CONSTANTS
  MaxSources = 2
  MaxRuns = 2
  Configs <- AllConfigs
  Faults = {"config", "create", "play", "seek", "send", "null"}
INVARIANTS
  Consistent
  OneOwner
  RecordsClosed
PROPERTIES
  CtrlCEnds
  RunEnds
CHECK_DEADLOCK FALSE
