CONSTANTS
  Prime = 997
  Contracts <- MCContracts
  Fixings0 <- MCFixings
  Portfolio <- MCPortfolio
  Calendar <- MCCalendar
  Products <- MCProducts
  Days = {1, 2, 3}
  Risks <- MCRisks
SPECIFICATION MCSpec
INVARIANTS
  FixedIsPriced
CHECK_DEADLOCK FALSE
