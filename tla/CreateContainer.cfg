\* StartTask comes to rest after an error or at a started jail: no deadlock
\* check.
SPECIFICATION Spec
CONSTANTS
  t1 = t1
  Task = {t1}
  AppCode = {3}
  Faults = {"crash", "probe", "fork"}
  Jobs <- MCJobs
CHECK_DEADLOCK FALSE
INVARIANTS TypeOK RunsAsAsked ErrorMeansNoJail
PROPERTY ImplementsStartTask
