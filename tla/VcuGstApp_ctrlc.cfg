\* The program may wait in its main loop for ever: a live source has no end.
SPECIFICATION FairSpec
CONSTANTS
  MaxSources = 1
  MaxRuns = 1
  Configs <- RecordLoop
  Faults = {}
PROPERTY CtrlCEndsApp
CHECK_DEADLOCK FALSE
