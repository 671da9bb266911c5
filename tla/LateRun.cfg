\* The system comes to rest once every task is gone: no deadlock check.
SPECIFICATION FairSpec
CONSTANTS
  t1 = t1
  Task = {t1}
  AppCode = {3}
  StatsCode = {}
  Faults = {"lateRun"}
CHECK_DEADLOCK FALSE
PROPERTY Reported
