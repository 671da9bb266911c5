\* Closed streams and answered calls stay so: no deadlock check.
SPECIFICATION FairSpec
CONSTANTS
  c1 = c1
  c2 = c2
  Call = {c1, c2}
CHECK_DEADLOCK FALSE
INVARIANTS TypeOK StaleOnce LoneSampleIsOwn
PROPERTIES Follows FingerprintEnds StreamEndsForCause StatsEnd
