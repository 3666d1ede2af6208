CONSTANTS
  w1 = w1
  w2 = w2
  Workers <- TwoWorkers
  Units = 8
  BlockSize = 3
  TileCapacity = 2
  MaxUnit = 8
  MaxFailing = 2
SPECIFICATION FairSpec
INVARIANTS
  TypeOK
  OnTrack
  LanesZeroed
  BlocksIndependent
  LowestFailureReported
PROPERTIES
  ReturnsOrderedReduction
CHECK_DEADLOCK FALSE
