CONSTANTS
  nan = nan
  NonFinite = nan
  Grids <- MCGrids
  FactorCounts = {0, 1, 2, 3}
  Precisions = {1, 6}
  MaxWord = 12
  MaxSobolDimension = 10
  Scale = 720
  Bits = 3
  Directions <- MCDirections
  Philox <- MCPhilox
  Requests <- MCRequests
  Field = 23
  Spot = 8
  Surfaces <- MCSurfaces
  Trades <- MCTrades
  Schedules <- MCSchedules
  StepLimits = {0, 4}
  Starts = {8}
  Shocks = {1, 21}
  Forwards <- MCForwards
  Ln <- MCLn
  Exp <- MCExp
  Root <- MCRoot
  Payoffs <- MCPayoffs
SPECIFICATION MCSpec
INVARIANTS
  PlanFillsGrid
  TransformKeepsNormals
  PointsAreScrambled
  PathsAgree
  ReverseAgrees
PROPERTIES
  ChoosesGreedily
CHECK_DEADLOCK FALSE
