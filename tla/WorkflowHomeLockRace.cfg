\* Two sessions find the lock of a third one that died.
CONSTANTS
  s1 = s1
  s2 = s2
  s3 = s3
  Session = {s1, s2, s3}
  Host = {"a"}
  StaleAfter = 2
  Attempts = 3
  Faulty = {}
  MaxFaults = 0
  MaxClock = 0
  MaxToken = 3
SPECIFICATION Spec
PROPERTY ReclaimsOnlyStale
\* every session may have crashed
CHECK_DEADLOCK FALSE
