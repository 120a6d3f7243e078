\* Two build requests at a time, a database failure or restart; the
\* specification is replaced and removed at any time.
SPECIFICATION FairSpec
CONSTANTS
  Jobs = {j1, j2}
  Handlers = {h1, h2}
  MaxSpecs = 2
  MaxAttempts = 2
  MaxFaults = 1
INVARIANTS StaleOnlyIfOvertaken RunningShowsNoGraph
PROPERTIES BuildEnds
CHECK_DEADLOCK FALSE
