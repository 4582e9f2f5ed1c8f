SPECIFICATION FairSpec
CONSTANTS
  u1 = u1
  u2 = u2
  Uris = {u1, u2}
  Requests <- SequentialRequests
  MaxRequests = 3
  Pipelining = FALSE
  WriteMax = 2
INVARIANTS TypeOK RepliesMatchRequests RepliesConsistent StatusCountsReplies
PROPERTIES EveryRequestAnswered
CHECK_DEADLOCK FALSE
