\* Runs in a service that may be killed, and in one that goes on.
SPECIFICATION FairRunnerSpec
CONSTANTS
  MaxJobs = 3
  MaxEdits = 1
  Environments <- MCEnvironments
INVARIANTS UserConfigKept EngineReadsOwnConfig RestoredBetweenRuns OneEngineAtATime
PROPERTIES ConfigComesBack
CHECK_DEADLOCK FALSE
