\* Everything may happen: overlapping run requests, database failures,
\* restarts, removals.
SPECIFICATION Spec
CONSTANTS
  s1 = s1
  s2 = s2
  s3 = s3
  j1 = j1
  j2 = j2
  j3 = j3
  Suites = {s1, s2, s3}
  Jobs = {j1}
  Handlers = {h1, h2}
  Captured <- MCCaptured
  MaxAttempts = 1
  Faults = {"overlap", "dbFail", "restart", "remove"}
SYMMETRY HandlersAlike
INVARIANTS OriginIsGenerated
CHECK_DEADLOCK FALSE
