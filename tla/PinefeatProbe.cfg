CONSTANTS
  Sub = 2
  Lengths = {2, 3}
  NoLens = 9
  Misses <- MCMisses
  Found <- MCFound
  MaxAdvance = 3
  Late <- MCLate
  Arguments <- MCArguments
  Cycles = 2
  Vet = 2
  Scan <- MCScan
  Send <- MCSend
  Pause = 2
  Polls = 5
  ENVELOPE = 1
  Places = {0, 1, 3}
SPECIFICATION Spec
INVARIANTS TypeOK AnswersBelong ViableIsEarned UsableIsEarned HaltsAreMeasured RoomToMove
PROPERTIES TestMovesOnlyWhatItCan VerdictPutsLensBack SessionEnds
CHECK_DEADLOCK FALSE
