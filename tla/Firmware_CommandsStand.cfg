CONSTANTS
  Byte = 16
  Magic0 = 14
  Magic1 = 10
  TemperatureBias = 117
  Start = 1
  Milli = 2
  Word = 4
  Rate = 3
  MaxElapsed = 1
  MaxStep = 32767
  Reports <- FocuserReports
  Scheduling = "one_core"
SPECIFICATION Spec
INVARIANT CommandsStand
