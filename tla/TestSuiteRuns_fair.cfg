\* Runs, replays and removals, with an engine-service that may fail in any
\* way; no restarts of the backend and no database failures.
SPECIFICATION FairSpec
CONSTANTS
  s1 = s1
  s2 = s2
  s3 = s3
  j1 = j1
  j2 = j2
  j3 = j3
  Suites = {s1, s2}
  Jobs = {j1, j2}
  Handlers = {h1}
  Captured <- MCCaptured
  MaxAttempts = 2
  Faults = {"remove"}
INVARIANTS ResultsAreOfLatestRun
PROPERTIES CompletedStays RunsEnd
CHECK_DEADLOCK FALSE
