SPECIFICATION Spec
CONSTANTS
  Amounts <- MCAmounts
  MaxEvents = 3
INVARIANTS DriftIsWhatNobodyExplains BreachIsNewOversell
