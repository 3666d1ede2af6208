CONSTANTS
  Trajectories <- MCTrajectories
  MirrorOf <- MCMirrorOf
  FeatureOf <- MCFeatureOf
  ImmediateOf <- MCImmediateOf
  DiscountOf <- MCDiscountOf
  Predictors <- MCPredictors
  Expiry = 2
  Columns = 3
  MaxElements = 10
  Requests <- RqmcRequests
  Samples <- MCSamples
SPECIFICATION MCSpec
INVARIANTS
  PolicyNamesTrainingDomain
CHECK_DEADLOCK FALSE
