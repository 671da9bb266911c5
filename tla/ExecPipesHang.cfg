\* The session ends: no deadlock check.
SPECIFICATION FairSpec
CONSTANTS
  Tty = FALSE
  ClientCloses = FALSE
  Disconnects = FALSE
  PipeSize = 1
  MaxOut = 1
  MaxIn = 2
CHECK_DEADLOCK FALSE
PROPERTY WaitEnds
