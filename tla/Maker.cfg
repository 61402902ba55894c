SPECIFICATION FairSpec
CONSTANTS
  btc = btc
  sol = sol
  Slots <- TwoSlots
  Tracking <- MCTracking
  Prices <- MCPrices
  Budget <- TwoBudgets
  Quantity <- TwoQuantities
  MaxOrder <- TwoCaps
  Lot = 4
  StopLossPct = 10
  FeePct = 1
  NoCall = NoCall
  NoEntry = NoEntry
  MaxOrders = 3
  Weight <- TwoWeights
  MaxFaults = 1
INVARIANTS TypeOK LoggedIsExecuted CoinIsAccountedFor NoStrayOrder OneEntryPerSlot UndisturbedBelief
PROPERTY EveryEntryResolved
