SPECIFICATION Spec
CONSTANTS
  t1 = t1
  t2 = t2
  u1 = u1
  Uris = {u1}
  Threads = {t1, t2}
  Codes = {200, 404}
  MaxRecords = 3
INVARIANTS TypeOK NeverOvercounts SequentialCountsExact PageConsistent
SYMMETRY ThreadSymmetry
CHECK_DEADLOCK FALSE
