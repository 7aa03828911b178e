SPECIFICATION SessionSpec
CONSTANTS
  NoNumber = NoNumber
  Options <- AllOptions
  Values <- EndValues
  FileLengths <- LseekResults
  IntBits = 17
  MaxOptions = 1
  MaxSessions = 2
INVARIANTS
  EncodesAsAsked
  OptionsHonoured
CHECK_DEADLOCK FALSE
