CONSTANTS
  Prime = 211
  Cases <- MCCases
SPECIFICATION Spec
INVARIANTS
  TapeIsFaithful
  ReverseIsDerivative
  PaidIfPriced
CHECK_DEADLOCK FALSE
