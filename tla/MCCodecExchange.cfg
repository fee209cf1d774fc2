CONSTANTS
  Byte = 16
  Magic0 = 14
  Magic1 = 10
  TemperatureBias = 117
  Offered <- MCOffered
  Temperatures <- MCTemperatures
SPECIFICATION Spec
INVARIANTS ParsersAgree PositionBytesSurvive EncodersAgree
CHECK_DEADLOCK FALSE
