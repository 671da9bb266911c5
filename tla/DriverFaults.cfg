\* The system comes to rest once every task is gone: no deadlock check.
SPECIFICATION Spec
CONSTANTS
  t1 = t1
  Task = {t1}
  AppCode = {3}
  StatsCode = {1}
  Faults = {"crash", "destroy", "encode", "probe", "stats", "decode",
            "config", "fork", "shutdown"}
CHECK_DEADLOCK FALSE
INVARIANTS TypeOK SingleDestroy Supervised TruthfulExit ResultMeansEnded
           NilHasCause
PROPERTIES KeepsTaskContract DestroyRespectsRunning
