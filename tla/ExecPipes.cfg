\* The session ends: no deadlock check.
SPECIFICATION FairSpec
CONSTANTS
  Tty = FALSE
  ClientCloses = TRUE
  Disconnects = TRUE
  PipeSize = 1
  MaxOut = 2
  MaxIn = 2
CHECK_DEADLOCK FALSE
INVARIANTS TypeOK OneSender ErrorsFit NilMeansComplete
PROPERTIES KeepsContract EndsOnceClosed
