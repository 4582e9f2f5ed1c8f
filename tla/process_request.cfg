SPECIFICATION FairSpec
CONSTANTS
  Segment <- SegmentSet
  Paths <- PathSet
  Keys <- KeySet
INVARIANTS TypeOK RoutesToLongest
PROPERTIES HandlersNeverGrow CallsReturn
CHECK_DEADLOCK TRUE
