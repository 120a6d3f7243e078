\* Two handlers at a time, five requests, two people who sign up one address.
SPECIFICATION Spec
CONSTANTS
  Emails = {e1}
  Usernames = {n1, n2}
  Passwords = {p1, p2}
  Callers = {c1, c2}
  Settings = {TRUE, FALSE}
  MaxVerifyAttempts = 2
  SignupTTL = 2
  ResetTTL = 1
  TicksPerSecond = 2
  MaxTime = 3
  MaxRequests = 5
  MaxSecrets = 3
  MaxUsers = 2
SYMMETRY Symmetry
INVARIANTS CodesProveAddresses LinksEndWithUse AcceptedSessionsAreCurrent
CHECK_DEADLOCK FALSE
