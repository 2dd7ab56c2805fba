SPECIFICATION Spec
CONSTANTS
  Guids = {g1, g2}
  Throwing = {g2}
  MaxTests = 2
  MaxTaps = 1
INVARIANTS LatencyInv NoStrayBatch TestKeepsItsService
PROPERTIES TestEndsItsOwnWay TestingEnds ServiceEnds
CHECK_DEADLOCK FALSE
