\* The session ends: no deadlock check.
SPECIFICATION FairSpec
CONSTANTS
  Tty = TRUE
  ClientCloses = TRUE
  Disconnects = TRUE
  PipeSize = 1
  MaxOut = 4
  MaxIn = 2
CHECK_DEADLOCK FALSE
INVARIANT OutputComplete
PROPERTY Ends
