SPECIFICATION Spec
CONSTANTS
  u1 = u1
  u2 = u2
  Uris = {u1, u2}
  Requests <- AnyRequests
  MaxRequests = 2
  Pipelining = TRUE
  WriteMax = 1
INVARIANTS OnceInOrder
PROPERTIES ClosesAsAnnounced ImplementsExchange
CHECK_DEADLOCK FALSE
