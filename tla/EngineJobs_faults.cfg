\* Two runs of one API with a captured request each, or one run with three
\* captured by three threads; the service may be killed at any point, and any
\* write to the disk may fail.
SPECIFICATION MCSpec
CONSTANTS
  j1 = j1
  j2 = j2
  s1 = s1
  c1 = c1
  Jobs = {j1, j2}
  Specs = {s1}
  SpecOf <- MCSpecOf
  Calls = {c1, c2, c3}
  MaxRequests = 3
  Faults = {"crash", "writeFail"}
INVARIANTS TypeOK ResultsAreOwn CapturedInOrder
PROPERTIES ImplementsProtocol NoJobStarves
CHECK_DEADLOCK FALSE
