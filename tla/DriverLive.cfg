\* The system comes to rest once every task is gone: no deadlock check.
SPECIFICATION FairSpec
CONSTANTS
  t1 = t1
  Task = {t1}
  AppCode = {}
  StatsCode = {}
  Faults = {"crash", "shutdown"}
CHECK_DEADLOCK FALSE
PROPERTIES Reaped StopTakesEffect Reported
