SPECIFICATION FairSpec
CONSTANTS
  t1 = t1
  t2 = t2
  c1 = c1
  c2 = c2
  c3 = c3
  Threads = {t1, t2}
  Clients = {c1, c2, c3}
  Stuck = {c1}
  AcceptErrors = TRUE
PROPERTIES KeepsAccepting
CHECK_DEADLOCK FALSE
