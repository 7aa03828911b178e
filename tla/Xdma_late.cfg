SPECIFICATION Spec
CONSTANTS
  Threads = {t1, t2}
  None = None
  Work = Work
  Requests = {1}
  MaxDesc = 2
  Word = 100
  PollModes = {FALSE}
  BusyLags = {FALSE}
  MaxCalls = 2
  MaxFaults = 0
  MaxResets = 0
INVARIANTS
  CompletedMeansMoved
