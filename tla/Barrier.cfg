CONSTANTS
  Spot = 8
  Contracts <- MCValidContracts
  Dividends <- MCDividends
  States <- MCStates
  GridTimes = {2}
  HalfWidth = 4
  Strike = 40
  Notional = 3
  Rebate = 5
SPECIFICATION Spec
INVARIANTS
  DividendsStayOutside
  ContactsDecide
  SmoothingAgrees
CHECK_DEADLOCK FALSE
