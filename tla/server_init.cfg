SPECIFICATION Spec
CONSTANTS
  Fragments <- FileFragments
  MaxFragments = 4
  Number <- Numerals
  TooLarge = {"99999999999"}
  Slashed = {"/", "/d/"}
INVARIANTS TypeOK PrintsBack RunsAsConfigured ListsHandlers
PROPERTIES HandlersStay
CHECK_DEADLOCK FALSE
