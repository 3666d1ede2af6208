CONSTANTS
  Trajectories <- MCTrajectories
  MirrorOf <- MCMirrorOf
  FeatureOf <- MCFeatureOf
  ImmediateOf <- MCImmediateOf
  DiscountOf <- MCDiscountOf
  Predictors <- MCPredictors
  Expiry = 2
  Columns = 3
  MaxElements = 10
  Requests <- MCRequests
  Samples <- MCSamples
SPECIFICATION MCSpec
INVARIANTS
  TrainsBackwards
  ExercisesOnce
  WordsKeptApart
  FitIsExact
CHECK_DEADLOCK FALSE
