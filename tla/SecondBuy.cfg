SPECIFICATION Spec
CONSTANTS
  btc = btc
  sol = sol
  Slots <- OneSlot
  Tracking <- MCTracking
  Prices <- MCPrices
  Budget <- OneBudget
  Quantity <- OneQuantity
  MaxOrder <- OneCap
  Lot = 4
  StopLossPct = 10
  FeePct = 1
  NoCall = NoCall
  NoEntry = NoEntry
  MaxOrders = 3
  Weight <- OneWeight
  MaxFaults = 0
INVARIANT NoSecondBuy
