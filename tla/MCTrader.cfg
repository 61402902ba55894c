SPECIFICATION FairSpec
CONSTANTS
  btc = btc
  sol = sol
  Slots <- MCSlots
  Tracking <- MCTracking
  Prices <- MCPrices
  Budget <- MCBudget
  Quantity <- MCQuantity
  MaxOrder <- MCMaxOrder
  MaxDailyLoss = 8
  Lot = 4
  StopLossPct = 10
  FeePct = 1
  NoCall = NoCall
  MaxOrders = 5
  MaxFaults = 2
  MaxDays = 1
INVARIANTS TypeOK LossLimitHonoured OrderIsCurrent BeliefMatchesLog LastRowIsPosition OneOpenBuy LogAccountsForCoin BackedUnlessOrphaned
PROPERTY ImplementsPosition
PROPERTY EverySignalResolved
