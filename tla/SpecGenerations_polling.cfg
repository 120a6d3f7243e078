\* Restarts and database failures at any point, two generations, one request
\* at a time and the poll loops beside it.
SPECIFICATION FairSpec
CONSTANTS
  Jobs = {j1, j2}
  Handlers = {h1}
  MaxAttempts = 2
  MaxLoops = 2
  MaxFaults = 1
INVARIANTS PollingIsLive
PROPERTIES DroppedStaysDropped GenerationEnds
CHECK_DEADLOCK FALSE
