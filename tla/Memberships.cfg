\* Two handlers at a time on one project; five requests, its creation among them.
SPECIFICATION Spec
CONSTANTS
  People = {u1, u2, u3}
  Projects = {p1}
  Nobody = Nobody
  Callers = {c1, c2}
  Roles = {"admin", "viewer"}
  MaxRequests = 5
SYMMETRY Symmetry
INVARIANTS RowsAreSound
PROPERTIES RolesAreGiven MembershipsChangeByRight
CHECK_DEADLOCK FALSE
