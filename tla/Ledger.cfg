CONSTANTS
  t = t
  h = h
  spot = spot
  f = f
  Contracts <- MCContracts
  Spot = spot
  At <- LedgerAt
  ListedOn <- MCListedOn
  Expiry <- LedgerExpiry
  PaymentDay <- LedgerPaymentDay
  Strike <- MCStrike
  Hedgeable <- MCHedgeable
  Portfolio <- LedgerPortfolio
  SnapshotsAt <- LedgerSnapshots
  InitialCash = 20
  CashFloor = 0
  RebalanceEvery = 1
  Liquidates = TRUE
  Constrained = TRUE
  GrossLimit = 27
  OptionLimit = 10
  OptionTradeLimit = 6
  StockLimit = 3
  StockTradeLimit = 8
  LotUnit = 4
  Noise = 1
  AllowShorts = TRUE
  Fee = 1
  RateUnit = 10
  NumeraireUnit = 6
  MaxRuns = 1
SPECIFICATION Spec
INVARIANTS
  TypeOK
  OrdersKept
  ClaimsFixThenPayOnce
  AccountsReconcile
  CommittedWithinLimits
CHECK_DEADLOCK FALSE
