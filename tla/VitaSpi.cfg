SPECIFICATION FairSpec
CONSTANTS
  Addrs <- Registers
  Clients = {"app", "free"}
  Written <- TwoValues
  Reset <- AfterReset
  TxDepth = 2
  RxDepth = 1
  MaxCalls = 4
INVARIANTS
  AppConsistent
  InOrder
  RightAnswer
PROPERTIES
  CallsReturn
  SentIsDone
CHECK_DEADLOCK FALSE
