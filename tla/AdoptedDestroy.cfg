\* The system comes to rest once every task is gone: no deadlock check.
SPECIFICATION Spec
CONSTANTS
  t1 = t1
  Task = {t1}
  AppCode = {3}
  StatsCode = {}
  Faults = {"crash"}
CHECK_DEADLOCK FALSE
PROPERTY RunningNotDestroyed
