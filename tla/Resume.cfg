CONSTANTS
  t = t
  h = h
  spot = spot
  f = f
  Contracts <- MCContracts
  Spot = spot
  At <- ResumeAt
  ListedOn <- MCListedOn
  Expiry <- ResumeExpiry
  PaymentDay <- ResumePaymentDay
  Strike <- MCStrike
  Hedgeable <- MCHedgeable
  Portfolio <- ResumePortfolio
  SnapshotsAt <- ResumeSnapshots
  InitialCash = 20
  CashFloor = 0
  RebalanceEvery = 1
  Liquidates = TRUE
  Constrained = FALSE
  GrossLimit = 0
  OptionLimit = 5
  OptionTradeLimit = 4
  StockLimit = 0
  StockTradeLimit = 0
  LotUnit = 4
  Noise = 1
  AllowShorts = FALSE
  Fee = 1
  RateUnit = 10
  NumeraireUnit = 6
  MaxRuns = 3
SPECIFICATION FairSpec
INVARIANTS
  HistoryBookedOnce
  NothingOverdue
  SelfFinancing
PROPERTIES
  CommitsAtomically
  RunEnds
CHECK_DEADLOCK FALSE
