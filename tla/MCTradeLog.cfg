SPECIFICATION Spec
CONSTANTS
  Lot = 3
  Prices <- MCPrices
  Quantities <- MCQuantities
  MaxRows = 4
  MaxDays = 1
INVARIANTS OpenIsGreatestTail HeldIsSellable EntryIsSinceZero BuysAreTheOpenOnes DayPnlIsOfTheCutTable
CHECK_DEADLOCK FALSE
