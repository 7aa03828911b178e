SPECIFICATION Spec
CONSTANTS
  Addrs <- Registers
  Clients = {"free"}
  Written <- TwoValues
  Reset <- AfterReset
  TxDepth = 2
  RxDepth = 2
  MaxCalls = 3
INVARIANT WritesPerformed
CHECK_DEADLOCK FALSE
