CONSTANTS
  Byte = 16
  Magic0 = 14
  Magic1 = 10
  TemperatureBias = 117
  Start = 2
  SubSteps = 3
  Rate = 2
  MaxElapsed = 5
  MaxGap = 2
  MaxStep = 32767
  Reports <- MCReports
SPECIFICATION FairSpec
INVARIANT TypeOK
PROPERTIES ImplementsContract Arrives HostSeesArrival
