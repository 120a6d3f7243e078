\* A suite is run again while its captured requests are being stored.
SPECIFICATION Spec
CONSTANTS
  s1 = s1
  s2 = s2
  s3 = s3
  j1 = j1
  j2 = j2
  j3 = j3
  Suites = {s1}
  Jobs = {j1, j2}
  Handlers = {h1}
  Captured <- MCCaptured
  MaxAttempts = 1
  Faults = {}
INVARIANTS LogsAreOfLatestRun
CHECK_DEADLOCK FALSE
