\* Two requests at a time of two made, two runs, a restart; settings change.
SPECIFICATION FairSpec
CONSTANTS
  Failed = {e1, e2, e3}
  ServerErrors = {e3}
  Captured = 2
  BatchSize = 2
  MaxPerCall = 2
  Budget = 2
  IntervalOf <- MCIntervalOf
  EnvKey = FALSE
  Callers = {c1, c2}
  MaxRuns = 2
  MaxPresses = 2
  MaxRestarts = 1
INVARIANTS CallsAreAsSet EvidenceIsRight
PROPERTIES PaidForIsKept PressEnds
CHECK_DEADLOCK FALSE
