CONSTANTS
  Byte = 16
  Magic0 = 14
  Magic1 = 10
  TemperatureBias = 117
  Start = 1
  Milli = 2
  Word = 4
  Rate = 1
  MaxElapsed = 2
  MaxStep = 32767
  Reports <- AllReports
  Scheduling = "harness"
SPECIFICATION Spec
PROPERTIES ImplementsContract
