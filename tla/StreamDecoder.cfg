CONSTANTS
  Byte = 4
  MAX_PACKET_SIZE = 3
  EventCodes = {1}
  Payloads <- MCPayloads
  Gaps <- MCGaps
  CLOCK_HZ = 9
  TICKS = 5
  Started = 9
  Million = 3
  MaxRecords = 3
  MaxLost = 1
SPECIFICATION Spec
INVARIANTS TypeOK ChunksDoNotMatter TimesExactOrLate FileTellsTime
CHECK_DEADLOCK FALSE
