\* The session ends: no deadlock check.
SPECIFICATION Spec
CONSTANTS
  Tty = TRUE
  ClientCloses = TRUE
  Disconnects = FALSE
  PipeSize = 1
  MaxOut = 2
  MaxIn = 2
CHECK_DEADLOCK FALSE
INVARIANT AllOutput
