CONSTANTS
  Spot = 8
  Contracts <- MCTodayContracts
  Dividends <- MCTodayDividends
  States <- MCStates
  GridTimes = {2}
  HalfWidth = 4
  Strike = 40
  Notional = 3
  Rebate = 5
SPECIFICATION Spec
INVARIANTS
  JumpsAreHits
CHECK_DEADLOCK FALSE
