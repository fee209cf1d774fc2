CONSTANTS
  TRANSFER_COUNT = 2
  Timed = FALSE
  MaxChunks = 2
  MaxErrors = 0
  MaxBreaks = 0
  MaxSessions = 1
SPECIFICATION FairSpec
PROPERTY UnplugIsNoticed
CHECK_DEADLOCK FALSE
