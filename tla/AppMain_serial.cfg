CONSTANTS
  SerialBytes = 2
  BodySize = 3
  Configured <- MCConfigured
  Micros = 7
  Delays <- MCDelays
  MaxLag = 24
SPECIFICATION Spec
INVARIANT AnswersConfiguredSerial
