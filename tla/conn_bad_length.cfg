SPECIFICATION Spec
CONSTANTS
  u1 = u1
  u2 = u2
  Uris = {u1, u2}
  Requests <- BadLengthRequests
  MaxRequests = 2
  Pipelining = FALSE
  WriteMax = 2
INVARIANTS ServerSurvives
CHECK_DEADLOCK FALSE
