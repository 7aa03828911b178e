SPECIFICATION FairSpec
CONSTANTS
  Threads = {t1, t2}
  None = None
  Work = Work
  Requests = {1, 3}
  MaxDesc = 2
  Word = 100
  PollModes = {TRUE, FALSE}
  BusyLags = {TRUE, FALSE}
  MaxCalls = 2
  MaxFaults = 1
  MaxResets = 1
INVARIANTS
  OneInQueue
  CompletedWasMoved
  FailedHasCause
  Consistent
  OfflineIsQuiet
  QueuedIsServed
PROPERTIES
  CallsReturn
