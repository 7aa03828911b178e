SPECIFICATION Spec
CONSTANTS
  Inputs = {1, 2, 3}
  MaxItems = 5
  MaxFaults = 2
  MaxSwitches = 1
CHECK_DEADLOCK FALSE
INVARIANTS Consistent InOrder Window
