CONSTANTS
  TRANSFER_COUNT = 3
  Timed = TRUE
  MaxChunks = 3
  MaxErrors = 1
  MaxBreaks = 1
  MaxSessions = 2
SPECIFICATION FairSpec
INVARIANTS TypeOK ExactUntilCut PoolKeepsItsSize CapturingOnlyIfAbandoned
PROPERTIES EnableTakesEffect TimedCaptureEnds
CHECK_DEADLOCK FALSE
